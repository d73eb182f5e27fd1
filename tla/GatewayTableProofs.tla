------------------------- MODULE GatewayTableProofs -------------------------
(***************************************************************************)
(* More proofs about GatewaySession: what holds a session, and what it     *)
(* still owes.  Everything needed can be said of one session at a time,    *)
(* given who is in which table and list: Accounted says that a session     *)
(* with a connection is active or in first_idle_, one in the reconnect     *)
(* cache waits and has its timer, one without connection is closed or will *)
(* be by a timer or by the end of its writes, and a registered one has its *)
(* connection or its timer.  It is kept by every step, together with       *)
(* IndInv, from which it takes that two sessions with the same id are not  *)
(* both heirs of it.  CacheConsistent, FreedAfterClose, RemoveNotLost and  *)
(* ForwardsOnlyKnown follow.                                               *)
(***************************************************************************)
EXTENDS GatewaySessionProofs

\* the sessions in a table of the manager, and in one of its lists
Held(table) == {table[i] : i \in Ids} \ {Nil}
Listed(q) == {q[k].s : k \in 1..Len(q)}

\* Posts arrive, no data comes while a connection drains, no session is closed for its
\* receive limits while it registers and servers set real routers: then no "remove"
\* is lost.
RemovesArrive ==
    /\ Env \cap {"post_fails", "late_data", "recv_limit"} = {}
    /\ NoRouter \notin Routers

\* Posts arrive, servers forget no waiting session and there is a default router:
\* then every session that takes posts is known.
AddsArrive ==
    /\ "post_fails" \notin Env /\ "push_away" \notin Env
    /\ NoRouter \notin Routers \cup {DefaultRouter}

\* the flags of a session and its socket
SocketOK(r) ==
    /\ r.owner = TRUE <=> "HAS_FD" \in r.flags
    /\ r.uv \in {"open", "shutdown", "broken"}
         => "HAS_FD" \in r.flags \/ "CLOSING_FD" \in r.flags
    /\ "WAIT_RECONNECT" \in r.flags => "HANDSHAKE_DONE" \in r.pflags
    /\ r.uv = "shutdown" => "CLOSED" \in r.pflags
    /\ "HAS_FD" \in r.flags => r.uv # "none"
    /\ NoRouter \notin Routers /\ "REGISTERED" \in r.flags => r.router # NoRouter

\* a session o with a connection is not closed, and is held by actived_sessions_ or by first_idle_
Connection(o, r, A, I) ==
    /\ o \in A => "RECONNECTED" \notin r.flags
    /\ "HAS_FD" \in r.flags => "CLOSING" \notin r.flags
    /\ "HAS_FD" \in r.flags => o \in A \/ o \in I
    /\ "HAS_FD" \in r.flags /\ "REGISTERED" \in r.flags => o \in A

\* a session in the reconnect cache waits and has its timer
Waiting(o, r, A, C, W) ==
    o \in C => /\ o \notin A /\ o \in W
               /\ "WAIT_RECONNECT" \in r.flags
               /\ "HAS_FD" \notin r.flags /\ "RECONNECTED" \notin r.flags

\* who owes a "remove" has a timer or a connection whose end will send it
Reported(o, r, W, run) ==
    RemovesArrive /\ run /\ Owes(r) =>
        o \in W \/ ("HAS_FD" \in r.flags /\ "WAIT_RECONNECT" \notin r.flags)

\* who takes posts is active and registered, and who is registered is known
Forwards(o, r, A, K) ==
    AddsArrive =>
        /\ Owes(r) => r.id \in K
        /\ r.uv # "none" => r.router # NoRouter
        /\ /\ "HAS_FD" \in r.flags /\ "CLOSING" \notin r.pflags
           /\ "HANDSHAKE_DONE" \in r.pflags
           => o \in A /\ "REGISTERED" \in r.flags

\* what a session whose protocol has just called on_close still satisfies
Closable(o, r, A, C, W, I, K, run) ==
    /\ SocketOK(r) /\ Connection(o, r, A, I) /\ Waiting(o, r, A, C, W)
    /\ Reported(o, r, W, run) /\ Forwards(o, r, A, K)

\* the end of the protocol ends the connection, and a session that lost its
\* connection is closed, has a timer, or will be closed when its writes are done
Ended(o, r, W) ==
    /\ "CLOSED" \in r.pflags => "HAS_FD" \notin r.flags
    /\ r.uv # "none" /\ "HAS_FD" \notin r.flags /\ "CLOSING" \notin r.flags =>
         o \in W \/ ("CLOSING_FD" \in r.flags /\ "CLOSED" \notin r.pflags)

Accounted(o, r, A, C, W, I, K, run) ==
    Closable(o, r, A, C, W, I, K, run) /\ Ended(o, r, W)

\* the two of the current tables and lists
ClosableNow(o, r) ==
    Closable(o, r, Held(actived), Held(cache), Listed(rtimer), Listed(idle), known, running)
AccountedNow(o, r) ==
    Accounted(o, r, Held(actived), Held(cache), Listed(rtimer), Listed(idle), known, running)

AllAccounted == \A o \in Obj : AccountedNow(o, sess[o])

\* of the next state
AccountedNext(o) ==
    Accounted(o, sess'[o], Held(actived'), Held(cache'), Listed(rtimer'), Listed(idle'),
              known', running')

-----------------------------------------------------------------------------
(* The functions on one session. *)

\* what close_fd does to a session
DropsFd(r, q) ==
    /\ q \in Session /\ SocketOK(q) /\ SessionOK(q)
    /\ "HAS_FD" \notin q.flags /\ q.owner = FALSE
    /\ "REGISTERED" \in q.flags <=> "REGISTERED" \in r.flags
    /\ "RECONNECTED" \in q.flags <=> "RECONNECTED" \in r.flags
    /\ "WAIT_RECONNECT" \in q.flags <=> "WAIT_RECONNECT" \in r.flags
    /\ "CLOSING" \in q.flags <=> "CLOSING" \in r.flags
    /\ q.router = r.router /\ q.id = r.id /\ (q.uv = "none" <=> r.uv = "none")
    /\ "HANDSHAKE_DONE" \in q.pflags <=> "HANDSHAKE_DONE" \in r.pflags
    /\ "HAS_FD" \notin r.flags => q = r
    /\ "HAS_FD" \in r.flags /\ r.uv = "open" /\ "CLOSED" \notin r.pflags
         => "CLOSING_FD" \in q.flags /\ "CLOSED" \notin q.pflags

(* close_fd takes the connection, and nothing else that matters, from a session. *)
LEMMA CloseFdDrops ==
    ASSUME NEW r \in Session, SessionOK(r), SocketOK(r)
    PROVE  DropsFd(r, CloseFd(r))
<1>1. CASE "HAS_FD" \notin r.flags
  <2>1. CloseFd(r) = r
    BY <1>1 DEF CloseFd
  <2>2. r.owner = FALSE
    BY <1>1 DEF SocketOK, Session
  <2> QED BY <1>1, <2>1, <2>2 DEF DropsFd
<1>2. CASE "HAS_FD" \in r.flags
  <2> DEFINE p == ProtoClose(r)
             q == [p EXCEPT !.flags = (@ \ {"HAS_FD"}) \cup {"CLOSING_FD"},
                            !.owner = FALSE]
  <2>0. "CLOSING_FD" \notin r.flags /\ r.uv # "none"
    BY <1>2 DEF SessionOK, SocketOK
  <2>1. /\ p \in Session /\ p.id = r.id /\ p.flags = r.flags /\ p.uv = r.uv
        /\ p.router = r.router
        /\ "HANDSHAKE_DONE" \in p.pflags <=> "HANDSHAKE_DONE" \in r.pflags
        /\ "CLOSED" \in p.pflags => "CLOSED" \in r.pflags \/ r.uv = "broken"
        /\ "CLOSED" \in r.pflags => "CLOSED" \in p.pflags
    BY DEF ProtoClose, Session, ProtoFlag
  <2>2. /\ q \in Session /\ q.id = r.id /\ q.uv = r.uv /\ q.router = r.router
        /\ q.flags = (r.flags \ {"HAS_FD"}) \cup {"CLOSING_FD"}
        /\ q.pflags = p.pflags /\ q.owner = FALSE
    BY <2>1 DEF Session, SessionFlag
  <2>3. /\ Shutdown(q) \in Session /\ Shutdown(q).id = q.id /\ Shutdown(q).router = q.router
        /\ Shutdown(q).flags = q.flags /\ Shutdown(q).pflags = q.pflags
        /\ Shutdown(q).owner = q.owner
        /\ Shutdown(q).uv = q.uv \/ (Shutdown(q).uv = "shutdown" /\ q.uv = "open")
    BY <2>2 DEF Shutdown, Session, UvStage
  <2>4. CloseFd(r) = IF "CLOSED" \in p.pflags THEN Shutdown(q) ELSE q
    BY <1>2, <2>0 DEF CloseFd
  <2> HIDE DEF p, q
  <2>5. \/ CloseFd(r) = q
        \/ CloseFd(r) = Shutdown(q) /\ "CLOSED" \in q.pflags
    BY <2>2, <2>4
  <2>6. ASSUME NEW s \in Session, s.flags = q.flags, s.pflags = q.pflags, s.owner = q.owner,
               s.id = q.id, s.router = q.router,
               \/ s.uv = q.uv
               \/ s.uv = "shutdown" /\ q.uv = "open" /\ "CLOSED" \in q.pflags
        PROVE  DropsFd(r, s)
    <3>1. /\ s.flags = (r.flags \ {"HAS_FD"}) \cup {"CLOSING_FD"} /\ s.owner = FALSE
          /\ s.id = r.id /\ s.router = r.router
          /\ "HANDSHAKE_DONE" \in s.pflags <=> "HANDSHAKE_DONE" \in r.pflags
          /\ "CLOSED" \in s.pflags => "CLOSED" \in r.pflags \/ r.uv = "broken"
          /\ "CLOSED" \in r.pflags => "CLOSED" \in s.pflags
          /\ s.uv = r.uv \/ (s.uv = "shutdown" /\ r.uv = "open" /\ "CLOSED" \in s.pflags)
      BY <2>1, <2>2, <2>6
    <3>2. s.uv # "none"
      BY <2>0, <3>1
    <3>3. SessionOK(s)
      BY <3>1, <3>2 DEF SessionOK
    <3>4. SocketOK(s)
      BY <3>1, <3>2 DEF SocketOK
    <3>5. "HAS_FD" \in r.flags /\ r.uv = "open" /\ "CLOSED" \notin r.pflags
            => "CLOSING_FD" \in s.flags /\ "CLOSED" \notin s.pflags
      BY <3>1
    <3> QED BY <1>2, <2>0, <2>6, <3>1, <3>2, <3>3, <3>4, <3>5 DEF DropsFd
  <2>7. CASE CloseFd(r) = q
    BY <2>2, <2>6, <2>7
  <2>8. CASE CloseFd(r) = Shutdown(q) /\ "CLOSED" \in q.pflags
    <3> DEFINE s == Shutdown(q)
    <3> HIDE DEF s
    <3>1. DropsFd(r, s)
      BY <2>3, <2>6, <2>8 DEF s
    <3> QED BY <2>8, <3>1 DEF s
  <2> QED BY <2>5, <2>7, <2>8
<1> QED BY <1>1, <1>2

\* what close_with_manager does to a session
Shuts(r, q) ==
    /\ q \in Session /\ SocketOK(q) /\ SessionOK(q)
    /\ "HAS_FD" \notin q.flags /\ "CLOSING" \in q.flags
    /\ "REGISTERED" \in q.flags => "REGISTERED" \in r.flags
    /\ "RECONNECTED" \in q.flags <=> "RECONNECTED" \in r.flags
    /\ "WAIT_RECONNECT" \in q.flags <=> "WAIT_RECONNECT" \in r.flags
    /\ q.router = r.router /\ q.id = r.id /\ (q.uv = "none" <=> r.uv = "none")
    /\ "HANDSHAKE_DONE" \in q.pflags <=> "HANDSHAKE_DONE" \in r.pflags

(* close_with_manager leaves a session closed and without connection, and without *)
(* its registration if it told the router.                                       *)
LEMMA CloseShuts ==
    ASSUME NEW r \in Session, SessionOK(r), SocketOK(r),
           "HAS_FD" \in r.flags => "CLOSING" \notin r.flags,
           NEW mgr \in BOOLEAN, NEW ok \in BOOLEAN
    PROVE  /\ Shuts(r, Close(r, mgr, ok))
           /\ Notifies(r) /\ CanPost(r, mgr) /\ ok => ~Reg(Close(r, mgr, ok))
<1> DEFINE sent == Notifies(r) /\ CanPost(r, mgr) /\ ok
           n == IF sent THEN Without(r, {"REGISTERED"}) ELSE r
           c == With(n, {"CLOSING"})
<1>1. /\ n \in Session /\ n.id = r.id /\ n.router = r.router /\ n.uv = r.uv
      /\ n.owner = r.owner /\ n.pflags = r.pflags
      /\ n.flags = IF sent THEN r.flags \ {"REGISTERED"} ELSE r.flags
  BY DEF Without, Session
<1>2. /\ c \in Session /\ c.id = n.id /\ c.router = n.router /\ c.uv = n.uv
      /\ c.owner = n.owner /\ c.pflags = n.pflags
      /\ c.flags = n.flags \cup {"CLOSING"}
  <2> HIDE DEF n
  <2> QED BY <1>1 DEF With, Session, SessionFlag
<1>3. Close(r, mgr, ok) = IF "CLOSING" \in n.flags THEN n ELSE CloseFd(c)
  BY DEF Close
<1> HIDE DEF n, c, sent
<1>4. SessionOK(n) /\ SocketOK(n)
  BY <1>1 DEF SessionOK, SocketOK
<1>5. CASE "CLOSING" \in n.flags
  <2>0. "HAS_FD" \notin n.flags
    BY <1>1, <1>5
  <2>1. Shuts(r, n) /\ (sent => ~Reg(n))
    BY <1>1, <1>4, <1>5, <2>0 DEF Shuts, Reg
  <2> QED BY <1>3, <1>5, <2>1 DEF sent
<1>6. CASE "CLOSING" \notin n.flags
  <2> DEFINE f == CloseFd(c)
  <2>1. SessionOK(c) /\ SocketOK(c)
    BY <1>2, <1>4 DEF SessionOK, SocketOK
  <2>2. DropsFd(c, f)
    BY <1>2, <2>1, CloseFdDrops
  <2> HIDE DEF f
  <2>3. Shuts(r, f) /\ (sent => ~Reg(f))
    BY <1>1, <1>2, <2>2 DEF DropsFd, Shuts, Reg
  <2> QED BY <1>3, <1>6, <2>3 DEF sent, f
<1> QED BY <1>5, <1>6


-----------------------------------------------------------------------------
(* The books of one session. *)

(* A session that is not touched stays accounted for if it stays where it is.    *)
LEMMA Untouched ==
    ASSUME NEW o, NEW r, NEW A, NEW C, NEW W, NEW I, NEW K, NEW run,
           Accounted(o, r, A, C, W, I, K, run),
           NEW A2, NEW C2, NEW W2, NEW I2, NEW K2, NEW run2,
           o \in A2 <=> o \in A, o \in C2 => o \in C, o \in W => o \in W2,
           o \in I => o \in I2, Owes(r) /\ r.id \in K => r.id \in K2, run2 => run
    PROVE  Accounted(o, r, A2, C2, W2, I2, K2, run2)
<1>1. SocketOK(r) /\ Connection(o, r, A2, I2) /\ Waiting(o, r, A2, C2, W2) /\ Ended(o, r, W2)
  BY DEF Accounted, Closable, Connection, Waiting, Ended
<1>2. Reported(o, r, W2, run2)
  BY DEF Accounted, Closable, Reported
<1>3. Forwards(o, r, A2, K2)
  BY DEF Accounted, Closable, Forwards
<1> QED BY <1>1, <1>2, <1>3 DEF Accounted, Closable

\* a session that may be closed: if it owes a "remove" and has no timer then the
\* close sends it
MayClose(o, r, mgr, A, C, W, run) ==
    /\ SocketOK(r)
    /\ "HAS_FD" \in r.flags => "CLOSING" \notin r.flags
    /\ o \in A => "RECONNECTED" \notin r.flags
    /\ Waiting(o, r, A, C, W)
    /\ RemovesArrive /\ run /\ Owes(r) =>
         o \in W \/ ("WAIT_RECONNECT" \notin r.flags /\ (mgr \/ "HAS_FD" \in r.flags))
    /\ AddsArrive => (r.uv # "none" => r.router # NoRouter)

(* Such a session is accounted for once it is closed, if its id stays known while  *)
(* it owes the "remove".                                                          *)
LEMMA CloseAccounted ==
    ASSUME NEW o, NEW r \in Session, SessionOK(r),
           NEW A, NEW C, NEW W, NEW I, NEW K, NEW run, NEW mgr \in BOOLEAN,
           MayClose(o, r, mgr, A, C, W, run),
           NEW ok \in BOOLEAN, "post_fails" \notin Env => ok,
           AddsArrive /\ Owes(Close(r, mgr, ok)) => r.id \in K
    PROVE  Accounted(o, Close(r, mgr, ok), A, C, W, I, K, run)
<1> DEFINE q == Close(r, mgr, ok)
<1>0. SocketOK(r) /\ ("HAS_FD" \in r.flags => "CLOSING" \notin r.flags)
  BY DEF MayClose
<1>1. /\ Shuts(r, q)
      /\ Notifies(r) /\ CanPost(r, mgr) /\ ok => ~Reg(q)
  BY <1>0, CloseShuts
<1>2. AddsArrive /\ Owes(q) => r.id \in K
  OBVIOUS
<1> HIDE DEF q
<1>3. Owes(q) => Owes(r) /\ ~(Notifies(r) /\ CanPost(r, mgr) /\ ok)
  BY <1>1 DEF Owes, Reg, Shuts
<1>4. SocketOK(q) /\ Connection(o, q, A, I) /\ Waiting(o, q, A, C, W) /\ Ended(o, q, W)
  BY <1>1 DEF Shuts, MayClose, Connection, Waiting, Ended
<1>5. Reported(o, q, W, run)
  <2> SUFFICES ASSUME RemovesArrive, run, Owes(q), o \notin W
               PROVE  FALSE
    BY DEF Reported
  <2>1. Owes(r) /\ ~(Notifies(r) /\ CanPost(r, mgr) /\ ok)
    BY <1>3
  <2>2. "WAIT_RECONNECT" \notin r.flags /\ (mgr \/ "HAS_FD" \in r.flags)
    BY <2>1 DEF MayClose
  <2>3. Notifies(r)
    BY <2>1, <2>2 DEF Owes, Reg, Notifies
  <2>4. r.router # NoRouter
    BY <1>0, <2>1 DEF SocketOK, RemovesArrive, Owes, Reg
  <2>5. mgr \/ r.owner = TRUE
    BY <1>0, <2>2 DEF SocketOK
  <2>6. CanPost(r, mgr)
    BY <2>4, <2>5 DEF CanPost
  <2>7. ok
    BY DEF RemovesArrive
  <2> QED BY <2>1, <2>3, <2>6, <2>7
<1>6. Forwards(o, q, A, K)
  BY <1>1, <1>2 DEF MayClose, Forwards, Shuts
<1>7. Accounted(o, q, A, C, W, I, K, run)
  BY <1>4, <1>5, <1>6 DEF Accounted, Closable
<1> QED BY <1>7 DEF q

(* A session that a handler finds may be closed where it is, or out of the tables. *)
LEMMA FoundMayClose ==
    ASSUME NEW o, NEW r, NEW A, NEW C, NEW W, NEW I, NEW K, NEW run,
           Closable(o, r, A, C, W, I, K, run), NEW mgr,
           NEW A2, NEW C2, NEW W2, NEW run2,
           o \in A2 => o \in A, o \in C2 => o \in C /\ o \in W2,
           run2 => run /\ (o \in W => o \in W2)
    PROVE  MayClose(o, r, mgr, A2, C2, W2, run2)
  BY DEF Closable, MayClose, Connection, Waiting, Reported, Forwards

\* a session as close() leaves it for a reconnect
ParkedAs(r, q) ==
    /\ DropsFd(With(r, {"WAIT_RECONNECT"}), q)
    /\ "WAIT_RECONNECT" \in q.flags /\ "HAS_FD" \notin q.flags
    /\ "REGISTERED" \in q.flags <=> "REGISTERED" \in r.flags
    /\ "RECONNECTED" \in q.flags <=> "RECONNECTED" \in r.flags
    /\ "CLOSING" \in q.flags <=> "CLOSING" \in r.flags
    /\ q.id = r.id /\ q.router = r.router /\ (q.uv = "none" <=> r.uv = "none")
    /\ "HANDSHAKE_DONE" \in q.pflags <=> "HANDSHAKE_DONE" \in r.pflags

(* Parking a session takes its connection and marks it.                           *)
LEMMA ParkedDrops ==
    ASSUME NEW r \in Session, SessionOK(r), SocketOK(r), "HANDSHAKE_DONE" \in r.pflags
    PROVE  ParkedAs(r, Parked(r))
<1> DEFINE w == With(r, {"WAIT_RECONNECT"})
<1>1. /\ w \in Session /\ w.id = r.id /\ w.router = r.router /\ w.uv = r.uv
      /\ w.owner = r.owner /\ w.pflags = r.pflags
      /\ w.flags = r.flags \cup {"WAIT_RECONNECT"}
  BY DEF With, Session, SessionFlag
<1>2. Parked(r) = CloseFd(w)
  BY DEF Parked
<1> HIDE DEF w
<1>3. SessionOK(w) /\ SocketOK(w)
  BY <1>1 DEF SessionOK, SocketOK
<1>4. DropsFd(w, CloseFd(w))
  BY <1>1, <1>3, CloseFdDrops
<1> QED BY <1>1, <1>2, <1>4 DEF ParkedAs, DropsFd, w

(* A session that is parked has its timer and is offered by the cache.            *)
LEMMA ParkedAccounted ==
    ASSUME NEW o, NEW r \in Session, SessionOK(r), "HANDSHAKE_DONE" \in r.pflags,
           NEW A, NEW C, NEW W, NEW I, NEW K, NEW run,
           Closable(o, r, A, C, W, I, K, run), o \in A,
           NEW A2, NEW C2, NEW W2, NEW I2, o \notin A2, o \in W2
    PROVE  Accounted(o, Parked(r), A2, C2, W2, I2, K, run)
<1> DEFINE q == Parked(r)
<1>1. ParkedAs(r, q)
  BY ParkedDrops DEF Closable
<1> HIDE DEF q
<1>2. SocketOK(q)
  BY <1>1 DEF ParkedAs, DropsFd
<1>3. Connection(o, q, A2, I2) /\ Waiting(o, q, A2, C2, W2) /\ Ended(o, q, W2)
  BY <1>1 DEF ParkedAs, Closable, Connection, Waiting, Ended
<1>4. Reported(o, q, W2, run)
  BY DEF Reported
<1>5. Forwards(o, q, A2, K)
  BY <1>1 DEF ParkedAs, Closable, Forwards, Owes, Reg
<1>6. Accounted(o, q, A2, C2, W2, I2, K, run)
  BY <1>2, <1>3, <1>4, <1>5 DEF Accounted, Closable
<1> QED BY <1>6 DEF q


-----------------------------------------------------------------------------
(* The tables and the lists. *)

(* A session in a table is there under its own id, and its handshake is over.     *)
LEMMA HeldUnderId ==
    ASSUME NEW S, NEW table, Holds(S, table), NEW o, o \in Held(table)
    PROVE  /\ o \in Obj /\ S[o].id \in Ids /\ table[S[o].id] = o
           /\ "HANDSHAKE_DONE" \in S[o].pflags
  BY DEF Holds, Held, Table

(* Erasing the entry of an id takes its session out of the table.                 *)
LEMMA HeldErased ==
    ASSUME NEW S, NEW table, Holds(S, table), NEW i \in Ids
    PROVE  \A o : o \in Held([table EXCEPT ![i] = Nil]) <=> o \in Held(table) /\ o # table[i]
<1> DEFINE t == [table EXCEPT ![i] = Nil]
<1>1. t \in Table /\ t[i] = Nil /\ \A j \in Ids \ {i} : t[j] = table[j]
  BY DEF Holds, Table
<1> HIDE DEF t
<1> SUFFICES ASSUME NEW o PROVE o \in Held(t) <=> o \in Held(table) /\ o # table[i]
  BY DEF t
<1>2. ASSUME o \in Held(t) PROVE o \in Held(table) /\ o # table[i]
  <2>1. PICK j \in Ids : t[j] = o /\ o # Nil
    BY <1>2 DEF Held
  <2>2. j # i /\ table[j] = o
    BY <1>1, <2>1
  <2>3. table[i] # o
    BY <2>1, <2>2 DEF Holds
  <2> QED BY <2>1, <2>2, <2>3 DEF Held
<1>3. ASSUME o \in Held(table), o # table[i] PROVE o \in Held(t)
  BY <1>1, <1>3 DEF Held
<1> QED BY <1>2, <1>3

(* A new entry puts its session into the table.                                   *)
LEMMA HeldEntered ==
    ASSUME NEW table \in Table, NEW i \in Ids, NEW p \in Obj
    PROVE  /\ \A o : o \in Held([table EXCEPT ![i] = p]) => o \in Held(table) \/ o = p
           /\ table[i] = Nil => \A o : o \in Held([table EXCEPT ![i] = p])
                                         <=> o \in Held(table) \/ o = p
<1> DEFINE t == [table EXCEPT ![i] = p]
<1>1. t[i] = p /\ p # Nil /\ \A j \in Ids \ {i} : t[j] = table[j]
  BY ConstantsAssumption DEF Table
<1> HIDE DEF t
<1>2. \A o : o \in Held(t) => o \in Held(table) \/ o = p
  BY <1>1 DEF Held
<1>3. table[i] = Nil => \A o : o \in Held(table) \/ o = p => o \in Held(t)
  BY <1>1 DEF Held
<1> QED BY <1>2, <1>3 DEF t

(* A list holds sessions.                                                         *)
LEMMA ListedSessions ==
    ASSUME NEW lim, NEW q \in Seq(Timer(lim))
    PROVE  /\ Listed(q) \subseteq Obj
           /\ {q[k].s : k \in Expired(q)} \subseteq Listed(q)
<1>1. ASSUME NEW k \in 1..Len(q) PROVE q[k].s \in Obj
  <2>1. q[k] \in Timer(lim)
    BY ElementOfSeq
  <2> QED BY <2>1 DEF Timer
<1> QED BY <1>1 DEF Listed, Expired

(* A new timer is added to the sessions of a list.                                *)
LEMMA ListedAppended ==
    ASSUME NEW lim, NEW q \in Seq(Timer(lim)), NEW t \in Timer(lim)
    PROVE  \A o : o \in Listed(Append(q, t)) <=> o \in Listed(q) \/ o = t.s
<1> DEFINE a == Append(q, t)
<1>1. /\ Len(q) \in Nat /\ Len(a) = Len(q) + 1
      /\ a[Len(q) + 1] = t /\ \A k \in 1..Len(q) : a[k] = q[k]
  BY AppendProperties
<1> HIDE DEF a
<1> SUFFICES ASSUME NEW o PROVE o \in Listed(a) <=> o \in Listed(q) \/ o = t.s
  BY DEF a
<1>2. ASSUME o \in Listed(a) PROVE o \in Listed(q) \/ o = t.s
  <2>1. PICK k \in 1..Len(a) : a[k].s = o
    BY <1>2 DEF Listed
  <2>2. k \in 1..Len(q) \/ k = Len(q) + 1
    BY <1>1, <2>1
  <2> QED BY <1>1, <2>1, <2>2 DEF Listed
<1>3. ASSUME o \in Listed(q) PROVE o \in Listed(a)
  <2>1. PICK k \in 1..Len(q) : q[k].s = o
    BY <1>3 DEF Listed
  <2>2. k \in 1..Len(a) /\ a[k].s = o
    BY <1>1, <2>1
  <2> QED BY <2>2 DEF Listed
<1>4. t.s \in Listed(a)
  <2>1. Len(q) + 1 \in 1..Len(a) /\ a[Len(q) + 1].s = t.s
    BY <1>1
  <2> QED BY <2>1 DEF Listed
<1> QED BY <1>2, <1>3, <1>4

(* The passing of a second takes no session from a list.                          *)
LEMMA ListedElapsed ==
    ASSUME NEW lim \in Nat, NEW q \in Seq(Timer(lim))
    PROVE  \A o : o \in Listed(q) => o \in Listed(Elapsed(q))
<1> SUFFICES ASSUME NEW o, o \in Listed(q) PROVE o \in Listed(Elapsed(q))
  OBVIOUS
<1>1. PICK k \in 1..Len(q) : q[k].s = o
  BY DEF Listed
<1>2. q[k] \in Timer(lim) /\ Len(q) \in Nat
  OBVIOUS
<1>3. Elapsed(q)[k] = [q[k] EXCEPT !.left = IF @ > 0 THEN @ - 1 ELSE 0]
  BY <1>1 DEF Elapsed
<1>4. Elapsed(q)[k].s = o
  BY <1>1, <1>2, <1>3 DEF Timer
<1>5. Len(Elapsed(q)) = Len(q)
  <2>1. DOMAIN Elapsed(q) = 1..Len(q) /\ Elapsed(q) \in Seq(Timer(lim))
    BY ElapsedType DEF Elapsed
  <2> QED BY <1>2, <2>1, LenProperties
<1> QED BY <1>1, <1>4, <1>5 DEF Listed

(* tick() takes no session from a list but those whose time is up.                *)
LEMMA ListedRest ==
    ASSUME NEW lim, NEW q \in Seq(Timer(lim)), NEW o, o \in Listed(q),
           o \notin {q[k].s : k \in Expired(q)}
    PROVE  o \in Listed(Rest(q))
<1>1. PICK k \in 1..Len(q) : q[k].s = o
  BY DEF Listed
<1>2. k \notin Expired(q)
  BY <1>1
<1>3. Expired(q) \subseteq 1..(k - 1)
  <2> SUFFICES ASSUME NEW j \in Expired(q) PROVE j < k /\ j >= 1 /\ j \in Int
    OBVIOUS
  <2>1. j \in 1..Len(q) /\ \A m \in 1..j : q[m].left = 0
    BY DEF Expired
  <2>2. ~(k <= j)
    BY <1>1, <1>2, <2>1 DEF Expired
  <2> QED BY <1>1, <2>1, <2>2
<1> DEFINE n == Cardinality(Expired(q))
<1>4. n \in Nat /\ n <= k - 1
  <2>1. k - 1 \in Nat /\ 1 <= k
    BY <1>1
  <2>2. IsFiniteSet(1..(k - 1)) /\ Cardinality(1..(k - 1)) = k - 1
    BY <2>1, FS_Interval
  <2> QED BY <1>3, <2>2, FS_Subset, FS_CardinalityType
<1>5. Len(q) \in Nat /\ k <= Len(q) /\ k \in Nat
  BY <1>1
<1>6. Rest(q) = SubSeq(q, n + 1, Len(q))
  BY DEF Rest
<1> HIDE DEF n
<1>7. /\ Len(Rest(q)) = Len(q) - n
      /\ \A j \in 1..(Len(q) - n) : Rest(q)[j] = q[n + j]
  BY <1>4, <1>5, <1>6, SubSeqProperties
<1>8. k - n \in 1..(Len(q) - n) /\ n + (k - n) = k
  BY <1>4, <1>5
<1>9. Rest(q)[k - n].s = o
  BY <1>1, <1>7, <1>8
<1> QED BY <1>7, <1>8, <1>9 DEF Listed


(* If the closing of sessions removes the id of one that owes a "remove", then that *)
(* one is among them and sent it.                                                  *)
LEMMA RemovedIsOwn ==
    ASSUME NEW S, NEW act, NEW cch, NEW K, Good(S, act, cch, K),
           NEW C \in SUBSET Obj, NEW mgr, NEW P,
           NEW o \in Obj, Owes(S[o]), S[o].id \in Removed(S, C, mgr, P)
    PROVE  o \in C /\ o \in P /\ Notifies(S[o]) /\ CanPost(S[o], mgr)
<1>1. PICK p \in C \cap P : S[p].id = S[o].id /\ Notifies(S[p]) /\ CanPost(S[p], mgr)
  BY DEF Removed
<1>2. S[o].id \in Ids /\ "RECONNECTED" \notin S[o].flags /\ "RECONNECTED" \notin S[p].flags
  BY <1>1 DEF Good, Sound, SessionOK, Owes, Reg, Notifies
<1>3. p = o
  BY <1>1, <1>2 DEF Good, Heir
<1> QED BY <1>1, <1>3

(* The results of posts: all succeed, unless posts may fail.                       *)
LEMMA PostsSucceed ==
    ASSUME NEW P \in PostResults, NEW o \in Obj, "post_fails" \notin Env
    PROVE  o \in P
  BY DEF PostResults

(* Closing sessions that may be closed, out of the tables or not, keeps all         *)
(* sessions accounted for.                                                         *)
LEMMA CloseAllAccounted ==
    ASSUME NEW S, NEW act, NEW cch, NEW K, Good(S, act, cch, K),
           NEW X \in SUBSET Obj, NEW mgr \in BOOLEAN, NEW P \in PostResults,
           NEW A, NEW C, NEW W, NEW I, NEW run,
           \A o \in X : MayClose(o, S[o], mgr, A, C, W, run),
           \A o \in X : AddsArrive /\ Owes(S[o]) => S[o].id \in K,
           \A o \in Obj \ X : Accounted(o, S[o], A, C, W, I, K, run),
           NEW o \in Obj
    PROVE  Accounted(o, CloseAll(S, X, mgr, P)[o], A, C, W, I,
                     K \ Removed(S, X, mgr, P), run)
<1> DEFINE R == Removed(S, X, mgr, P)
           K2 == K \ R
<1>1. S[o] \in Session /\ SessionOK(S[o])
  BY DEF Good, Sound
<1>2. CASE o \in X
  <2> DEFINE ok == o \in P
  <2>1. CloseAll(S, X, mgr, P)[o] = Close(S[o], mgr, ok)
    BY <1>2 DEF CloseAll
  <2>2. ok \in BOOLEAN /\ ("post_fails" \notin Env => ok)
    BY PostsSucceed
  <2>3. ok => o \in P
    OBVIOUS
  <2>4. o \in P => ok
    OBVIOUS
  <2> HIDE DEF ok
  <2>5. MayClose(o, S[o], mgr, A, C, W, run)
    BY <1>2
  <2>6. SocketOK(S[o]) /\ ("HAS_FD" \in S[o].flags => "CLOSING" \notin S[o].flags)
    BY <2>5 DEF MayClose
  <2>7. /\ Shuts(S[o], Close(S[o], mgr, ok))
        /\ Notifies(S[o]) /\ CanPost(S[o], mgr) /\ ok => ~Reg(Close(S[o], mgr, ok))
    BY <1>1, <2>2, <2>6, CloseShuts
  <2>8. ASSUME AddsArrive, Owes(Close(S[o], mgr, ok)) PROVE S[o].id \in K2
    <3>1. Owes(S[o]) /\ ~(Notifies(S[o]) /\ CanPost(S[o], mgr) /\ ok)
      BY <2>7, <2>8 DEF Shuts, Owes, Reg
    <3>2. S[o].id \in K
      BY <1>2, <2>8, <3>1
    <3>3. S[o].id \notin R
      BY <2>4, <3>1, RemovedIsOwn
    <3> QED BY <3>2, <3>3
  <2> HIDE DEF K2
  <2>9. Accounted(o, Close(S[o], mgr, ok), A, C, W, I, K2, run)
    BY <1>1, <2>2, <2>5, <2>8, CloseAccounted
  <2> QED BY <2>1, <2>9 DEF K2
<1>3. CASE o \notin X
  <2>1. CloseAll(S, X, mgr, P)[o] = S[o]
    BY <1>3 DEF CloseAll
  <2>2. Accounted(o, S[o], A, C, W, I, K, run)
    BY <1>3
  <2>3. Owes(S[o]) /\ S[o].id \in K => S[o].id \in K2
    BY <1>3, RemovedIsOwn
  <2> HIDE DEF K2
  <2>4. Accounted(o, S[o], A, C, W, I, K2, run)
    BY <2>2, <2>3, Untouched
  <2> QED BY <2>1, <2>4 DEF K2
<1> QED BY <1>2, <1>3


-----------------------------------------------------------------------------
(* session_manager.cpp *)

\* the books are in order, but for session x, whose protocol is closed
AllBut(x, S) ==
    /\ \A o \in Obj : ClosableNow(o, S[o])
    /\ \A o \in Obj : o # x => AccountedNow(o, S[o])

AllNext == \A o \in Obj : AccountedNext(o)

(* close() of a session that may reconnect: it moves from the active sessions to   *)
(* the cache and gets its timer.                                                   *)
LEMMA MgrParkAccounted ==
    ASSUME NEW S, Good(S, actived, cache, known), rtimer \in Seq(Timer(ReconnectTimeout)),
           NEW i \in Ids, actived[i] # Nil, AllBut(actived[i], S), MgrPark(i, S),
           idle' = idle, running' = running
    PROVE  AllNext
<1> DEFINE x == actived[i]
           t == [s |-> x, left |-> ReconnectTimeout]
<1>1. /\ x \in Obj /\ S[x].id = i /\ "HANDSHAKE_DONE" \in S[x].pflags
      /\ S[x] \in Session /\ SessionOK(S[x]) /\ S \in [Obj -> Session]
  BY DEF Good, Holds, Table, Sound
<1>2. t \in Timer(ReconnectTimeout) /\ t.s = x
  BY <1>1, ConstantsAssumption DEF Timer
<1>3. /\ rtimer' = Append(rtimer, t) /\ cache' = [cache EXCEPT ![i] = x]
      /\ sess' = [S EXCEPT ![x] = Parked(S[x])]
      /\ actived' = [actived EXCEPT ![i] = Nil] /\ known' = known
  BY <1>1 DEF MgrPark
<1>4. sess'[x] = Parked(S[x]) /\ \A o \in Obj : o # x => sess'[o] = S[o]
  BY <1>1, <1>3
<1>5. \A o : o \in Held(actived') <=> o \in Held(actived) /\ o # x
  BY <1>3, HeldErased DEF Good
<1>6. \A o : o \in Held(cache') => o \in Held(cache) \/ o = x
  BY <1>1, <1>3, HeldEntered DEF Good, Holds
<1> HIDE DEF t
<1>7. \A o : o \in Listed(rtimer') <=> o \in Listed(rtimer) \/ o = x
  BY <1>2, <1>3, ListedAppended
<1>8. x \in Held(actived)
  BY DEF Held
<1> HIDE DEF x
<1>9. AccountedNext(x)
  <2>1. ClosableNow(x, S[x])
    BY <1>1 DEF AllBut
  <2>2. x \notin Held(actived') /\ x \in Listed(rtimer')
    BY <1>5, <1>7
  <2>3. Accounted(x, Parked(S[x]), Held(actived'), Held(cache'), Listed(rtimer'),
                  Listed(idle), known, running)
    BY <1>1, <1>8, <2>1, <2>2, ParkedAccounted DEF ClosableNow
  <2> QED BY <1>3, <1>4, <2>3 DEF AccountedNext
<1>10. ASSUME NEW o \in Obj, o # x PROVE AccountedNext(o)
  <2>1. AccountedNow(o, S[o])
    BY <1>10 DEF AllBut, x
  <2>2. /\ o \in Held(actived') <=> o \in Held(actived)
        /\ o \in Held(cache') => o \in Held(cache)
        /\ o \in Listed(rtimer) => o \in Listed(rtimer')
    BY <1>5, <1>6, <1>7, <1>10
  <2>3. Accounted(o, S[o], Held(actived'), Held(cache'), Listed(rtimer'),
                  Listed(idle), known, running)
    BY <2>1, <2>2, Untouched DEF AccountedNow
  <2> QED BY <1>3, <1>4, <1>10, <2>3 DEF AccountedNext
<1> QED BY <1>9, <1>10 DEF AllNext

(* Closing sessions where they are: what the handlers that call session::close do. *)
LEMMA CloseHereAccounted ==
    ASSUME NEW S, Good(S, actived, cache, known),
           NEW X \in SUBSET Obj, NEW P \in PostResults,
           \A o \in Obj : ClosableNow(o, S[o]),
           \A o \in Obj : o \notin X => AccountedNow(o, S[o]),
           NEW K, K = known \ Removed(S, X, FALSE, P)
    PROVE  \A o \in Obj : Accounted(o, CloseAll(S, X, FALSE, P)[o], Held(actived), Held(cache),
                                    Listed(rtimer), Listed(idle), K, running)
<1> SUFFICES ASSUME NEW o \in Obj
             PROVE  Accounted(o, CloseAll(S, X, FALSE, P)[o], Held(actived), Held(cache),
                              Listed(rtimer), Listed(idle), K, running)
  OBVIOUS
<1> DEFINE mgr == FALSE
<1>0. mgr \in BOOLEAN
  OBVIOUS
<1> HIDE DEF mgr
<1>1. ASSUME NEW p \in X
      PROVE  /\ MayClose(p, S[p], mgr, Held(actived), Held(cache), Listed(rtimer), running)
             /\ AddsArrive /\ Owes(S[p]) => S[p].id \in known
  <2>1. Closable(p, S[p], Held(actived), Held(cache), Listed(rtimer), Listed(idle),
                 known, running)
    BY DEF ClosableNow
  <2>2. p \in Held(cache) => p \in Listed(rtimer)
    BY <2>1 DEF Closable, Waiting
  <2>3. AddsArrive /\ Owes(S[p]) => S[p].id \in known
    BY <2>1 DEF Closable, Forwards
  <2> QED BY <2>1, <2>2, <2>3, FoundMayClose
<1>2. \A p \in Obj \ X : Accounted(p, S[p], Held(actived), Held(cache), Listed(rtimer),
                                   Listed(idle), known, running)
  BY DEF AccountedNow
<1>3. Accounted(o, CloseAll(S, X, mgr, P)[o], Held(actived), Held(cache), Listed(rtimer),
                Listed(idle), known \ Removed(S, X, mgr, P), running)
  BY <1>0, <1>1, <1>2, CloseAllAccounted
<1> QED BY <1>3 DEF mgr

(* close() of an active session for good: it is closed and leaves the table.       *)
LEMMA MgrDropAccounted ==
    ASSUME NEW S, Good(S, actived, cache, known),
           NEW i \in Ids, actived[i] # Nil, AllBut(actived[i], S),
           NEW P \in PostResults, MgrDrop(i, S, P),
           idle' = idle, running' = running
    PROVE  AllNext
<1> DEFINE x == actived[i]
<1>1. x \in Obj
  BY DEF Good, Holds, Table
<1>2. /\ sess' = CloseAll(S, {x}, FALSE, P) /\ known' = known \ Removed(S, {x}, FALSE, P)
      /\ actived' = [actived EXCEPT ![i] = Nil] /\ cache' = cache /\ rtimer' = rtimer
  BY DEF MgrDrop
<1>3. \A o : o \in Held(actived') <=> o \in Held(actived) /\ o # x
  BY <1>2, HeldErased DEF Good
<1>4. \A o \in Obj : Accounted(o, sess'[o], Held(actived), Held(cache), Listed(rtimer),
                               Listed(idle), known', running)
  <2>1. {x} \in SUBSET Obj
    BY <1>1
  <2> HIDE DEF x
  <2>2. /\ \A o \in Obj : ClosableNow(o, S[o])
        /\ \A o \in Obj : o \notin {x} => AccountedNow(o, S[o])
    BY DEF AllBut, x
  <2> QED BY <1>2, <2>1, <2>2, CloseHereAccounted
<1> SUFFICES ASSUME NEW o \in Obj PROVE AccountedNext(o)
  BY DEF AllNext
<1>5. CASE o # x
  <2>1. Accounted(o, sess'[o], Held(actived), Held(cache), Listed(rtimer), Listed(idle),
                  known', running)
    BY <1>4
  <2>2. o \in Held(actived') <=> o \in Held(actived)
    BY <1>3, <1>5
  <2>3. Accounted(o, sess'[o], Held(actived'), Held(cache), Listed(rtimer), Listed(idle),
                  known', running)
    BY <2>1, <2>2, Untouched
  <2> QED BY <1>2, <2>3 DEF AccountedNext
<1>6. CASE o = x
  <2> DEFINE q == sess'[o]
  <2>1. Accounted(o, q, Held(actived), Held(cache), Listed(rtimer), Listed(idle),
                  known', running)
    BY <1>4
  <2>2. "HAS_FD" \notin q.flags
    <3>1. S[x] \in Session /\ SessionOK(S[x]) /\ SocketOK(S[x])
            /\ ("HAS_FD" \in S[x].flags => "CLOSING" \notin S[x].flags)
      BY <1>1 DEF AllBut, ClosableNow, Closable, Connection, Good, Sound
    <3> DEFINE mgr == FALSE
               ok == x \in P
    <3>2. q = Close(S[x], mgr, ok)
      BY <1>1, <1>2, <1>6 DEF CloseAll
    <3>3. mgr \in BOOLEAN /\ ok \in BOOLEAN
      OBVIOUS
    <3> HIDE DEF mgr, ok, q, x
    <3> QED BY <3>1, <3>2, <3>3, CloseShuts DEF Shuts
  <2> HIDE DEF q
  <2>3. Accounted(o, q, Held(actived'), Held(cache), Listed(rtimer), Listed(idle),
                  known', running)
    BY <1>3, <1>6, <2>1, <2>2
    DEF Accounted, Closable, Connection, Waiting, Reported, Forwards
  <2> QED BY <1>2, <2>3 DEF AccountedNext, q
<1> QED BY <1>5, <1>6


(* A session that leaves the cache need not wait any longer.                       *)
LEMMA WaitsNoMore ==
    ASSUME NEW o, NEW r \in Session, NEW A, NEW C, NEW W, NEW I, NEW K, NEW run,
           Accounted(o, r, A, C, W, I, K, run), NEW C2, o \notin C2
    PROVE  Accounted(o, Without(r, {"WAIT_RECONNECT"}), A, C2, W, I, K, run)
<1> DEFINE q == Without(r, {"WAIT_RECONNECT"})
<1>1. /\ q.flags = r.flags \ {"WAIT_RECONNECT"} /\ q.pflags = r.pflags /\ q.owner = r.owner
      /\ q.uv = r.uv /\ q.id = r.id /\ q.router = r.router
  BY DEF Without, Session
<1> HIDE DEF q
<1>2. SocketOK(q) /\ Connection(o, q, A, I) /\ Waiting(o, q, A, C2, W) /\ Ended(o, q, W)
  BY <1>1 DEF Accounted, Closable, SocketOK, Connection, Waiting, Ended
<1>3. Reported(o, q, W, run) /\ Forwards(o, q, A, K)
  BY <1>1 DEF Accounted, Closable, Reported, Forwards, Owes, Reg
<1>4. Accounted(o, q, A, C2, W, I, K, run)
  BY <1>2, <1>3 DEF Accounted, Closable
<1> QED BY <1>4 DEF q

(* close() of a session in the cache: it is closed, leaves the cache and keeps its *)
(* timer.                                                                          *)
LEMMA MgrEvictAccounted ==
    ASSUME NEW S, Good(S, actived, cache, known),
           NEW i \in Ids, cache[i] # Nil, AllBut(cache[i], S),
           NEW P \in PostResults, MgrEvict(i, S, P),
           idle' = idle, running' = running
    PROVE  AllNext
<1> DEFINE x == cache[i]
           T == CloseAll(S, {x}, FALSE, P)
<1>1. x \in Obj /\ {x} \in SUBSET Obj
  BY DEF Good, Holds, Table
<1>2. /\ sess' = [T EXCEPT ![x] = Without(T[x], {"WAIT_RECONNECT"})]
      /\ known' = known \ Removed(S, {x}, FALSE, P)
      /\ cache' = [cache EXCEPT ![i] = Nil] /\ actived' = actived /\ rtimer' = rtimer
  BY DEF MgrEvict
<1>3. \A o : o \in Held(cache') <=> o \in Held(cache) /\ o # x
  BY <1>2, HeldErased DEF Good
<1>4. T \in [Obj -> Session]
  BY CloseAllQuiet DEF Quiet, Good
<1>5. /\ \A o \in Obj : ClosableNow(o, S[o])
      /\ \A o \in Obj : o \notin {x} => AccountedNow(o, S[o])
  BY DEF AllBut
<1> HIDE DEF x
<1>6. \A o \in Obj : Accounted(o, T[o], Held(actived), Held(cache), Listed(rtimer),
                               Listed(idle), known', running)
  BY <1>1, <1>2, <1>5, CloseHereAccounted
<1> HIDE DEF T
<1> SUFFICES ASSUME NEW o \in Obj PROVE AccountedNext(o)
  BY DEF AllNext
<1>7. /\ T[o] \in Session
      /\ Accounted(o, T[o], Held(actived), Held(cache), Listed(rtimer), Listed(idle),
                   known', running)
  BY <1>4, <1>6
<1>8. CASE o = x
  <2>1. sess'[o] = Without(T[o], {"WAIT_RECONNECT"}) /\ o \notin Held(cache')
    BY <1>2, <1>3, <1>4, <1>8
  <2>2. Accounted(o, Without(T[o], {"WAIT_RECONNECT"}), Held(actived), Held(cache'),
                  Listed(rtimer), Listed(idle), known', running)
    BY <1>7, <2>1, WaitsNoMore
  <2> QED BY <1>2, <2>1, <2>2 DEF AccountedNext
<1>9. CASE o # x
  <2>1. sess'[o] = T[o] /\ (o \in Held(cache') => o \in Held(cache))
    BY <1>2, <1>3, <1>4, <1>9
  <2>2. Accounted(o, T[o], Held(actived), Held(cache'), Listed(rtimer), Listed(idle),
                  known', running)
    BY <1>7, <2>1, Untouched
  <2> QED BY <1>2, <2>1, <2>2 DEF AccountedNext
<1> QED BY <1>8, <1>9

(* session_manager::close of the session that the id finds, in each of its cases.  *)
LEMMA MgrCloseAccounted ==
    ASSUME NEW S, Good(S, actived, cache, known), rtimer \in Seq(Timer(ReconnectTimeout)),
           NEW i \in Ids, NEW allow, NEW P \in PostResults, MgrClose(i, allow, S, P),
           actived[i] # Nil => AllBut(actived[i], S),
           cache[i] # Nil => AllBut(cache[i], S),
           idle' = idle, running' = running
    PROVE  AllNext
  BY MgrParkAccounted, MgrDropAccounted, MgrEvictAccounted DEF MgrClose

(* The close callback: whatever it finds, session o ends up closed or parked.      *)
LEMMA OnCloseAccounted ==
    ASSUME NEW S, Good(S, actived, cache, known), rtimer \in Seq(Timer(ReconnectTimeout)),
           NEW o \in Obj, AllBut(o, S), OnClose(o, S),
           idle' = idle, running' = running
    PROVE  AllNext
<1> DEFINE allow == S[o].why = "resumable"
<1>1. PICK P \in PostResults :
        \/ "CLOSING" \in S[o].flags /\ sess' = S /\ UNCHANGED tables
        \/ /\ S[o].owner /\ MgrFinds(S[o].id, allow) /\ MgrClose(S[o].id, allow, S, P)
        \/ /\ sess' = CloseAll(S, {o}, FALSE, P)
           /\ known' = known \ Removed(S, {o}, FALSE, P)
           /\ UNCHANGED <<actived, cache, rtimer>>
  BY DEF OnClose
<1>2. \A p \in Obj : ClosableNow(p, S[p])
  BY DEF AllBut
<1>3. CASE "CLOSING" \in S[o].flags /\ sess' = S /\ UNCHANGED tables
  <2>1. AccountedNow(o, S[o])
    BY <1>2, <1>3 DEF ClosableNow, AccountedNow, Accounted, Closable, Connection, Ended
  <2>2. \A p \in Obj : AccountedNow(p, S[p])
    BY <2>1 DEF AllBut
  <2> QED BY <1>3, <2>2 DEF AllNext, AccountedNext, AccountedNow, tables
<1>4. CASE S[o].owner /\ MgrFinds(S[o].id, allow) /\ MgrClose(S[o].id, allow, S, P)
  <2> DEFINE i == S[o].id
  <2>1. i \in Ids
    BY <1>4 DEF MgrFinds, Find
  <2>2. S[o] \in Session /\ SessionOK(S[o])
    BY DEF Good, Sound
  <2>3. "HAS_FD" \in S[o].flags
    <3>1. SocketOK(S[o])
      BY <1>2 DEF ClosableNow, Closable
    <3>2. S[o].owner = TRUE
      BY <1>4, <2>2 DEF Session
    <3> QED BY <3>1, <3>2 DEF SocketOK
  <2>4. "RECONNECTED" \notin S[o].flags
    BY <2>2, <2>3 DEF SessionOK
  <2> HIDE DEF i
  <2>5. ASSUME NEW table \in {actived, cache}, table[i] # Nil PROVE table[i] = o
    <3>1. table[i] \in Obj /\ S[table[i]].id = i /\ table[i] \in Held(table)
      BY <2>1, <2>5 DEF Good, Holds, Table, Held
    <3>2. "RECONNECTED" \notin S[table[i]].flags
      BY <1>2, <2>5, <3>1 DEF ClosableNow, Closable, Connection, Waiting
    <3> QED BY <2>1, <2>4, <3>1, <3>2 DEF Good, Heir, i
  <2>6. MgrClose(i, allow, S, P)
    BY <1>4 DEF i
  <2> QED BY <2>1, <2>5, <2>6, MgrCloseAccounted
<1>5. CASE /\ sess' = CloseAll(S, {o}, FALSE, P)
           /\ known' = known \ Removed(S, {o}, FALSE, P)
           /\ UNCHANGED <<actived, cache, rtimer>>
  <2>1. {o} \in SUBSET Obj /\ \A p \in Obj : p \notin {o} => AccountedNow(p, S[p])
    BY DEF AllBut
  <2>2. \A p \in Obj : Accounted(p, sess'[p], Held(actived), Held(cache), Listed(rtimer),
                                 Listed(idle), known', running)
    BY <1>2, <1>5, <2>1, CloseHereAccounted
  <2> QED BY <1>5, <2>2 DEF AllNext, AccountedNext
<1> QED BY <1>1, <1>3, <1>4, <1>5

(* A step of the protocol that leaves a session's flags alone: it is accounted for *)
(* unless the protocol is closed by it, and then on_close may be called.           *)
LEMMA ProtocolStep ==
    ASSUME NEW o, NEW r, NEW A, NEW C, NEW W, NEW I, NEW K, NEW run,
           Accounted(o, r, A, C, W, I, K, run),
           NEW q, q.flags = r.flags, q.owner = r.owner, q.id = r.id, q.router = r.router,
           \/ q.uv = r.uv
           \/ q.uv = "shutdown" /\ r.uv = "open" /\ "CLOSED" \in q.pflags,
           "HANDSHAKE_DONE" \in r.pflags => "HANDSHAKE_DONE" \in q.pflags,
           "CLOSED" \in r.pflags => "CLOSED" \in q.pflags,
           "CLOSING" \notin q.pflags /\ "HANDSHAKE_DONE" \in q.pflags =>
               "CLOSING" \notin r.pflags /\ "HANDSHAKE_DONE" \in r.pflags
    PROVE  /\ Closable(o, q, A, C, W, I, K, run)
           /\ ("CLOSED" \in q.pflags => "CLOSED" \in r.pflags)
                => Accounted(o, q, A, C, W, I, K, run)
<1>1. SocketOK(q)
  BY DEF Accounted, Closable, SocketOK
<1>2. Connection(o, q, A, I) /\ Waiting(o, q, A, C, W)
  BY DEF Accounted, Closable, Connection, Waiting
<1>3. Reported(o, q, W, run)
  BY DEF Accounted, Closable, Reported, Owes, Reg
<1>4. Forwards(o, q, A, K)
  BY DEF Accounted, Closable, Forwards, Owes, Reg
<1>5. ("CLOSED" \in q.pflags => "CLOSED" \in r.pflags) => Ended(o, q, W)
  BY DEF Accounted, Ended
<1> QED BY <1>1, <1>2, <1>3, <1>4, <1>5 DEF Accounted, Closable


(* libatgw_proto_inner_v1::close by the protocol itself: the session waits for its *)
(* write, or its close callback is called.                                         *)
LEMMA ProtoClosesAccounted ==
    ASSUME NEW S, Good(S, actived, cache, known), rtimer \in Seq(Timer(ReconnectTimeout)),
           NEW o \in Obj, \A p \in Obj : p # o => AccountedNow(p, S[p]),
           NEW r0, AccountedNow(o, r0),
           S[o].flags = r0.flags, S[o].owner = r0.owner, S[o].id = r0.id,
           S[o].router = r0.router, S[o].uv = r0.uv,
           S[o].pflags \in {r0.pflags, r0.pflags \cup {"HANDSHAKE_DONE"}},
           NEW why \in Reason, NEW kick \in BOOLEAN, ProtoCloses(o, S, why, kick),
           idle' = idle, running' = running
    PROVE  AllNext
<1> DEFINE r == [S[o] EXCEPT !.why = why,
                   !.pflags = @ \cup {"CLOSING"} \cup (IF kick THEN {"WRITING"} ELSE {})]
           c == [r EXCEPT !.pflags = @ \cup {"CLOSED"}]
<1>1. S[o] \in Session /\ SessionOK(S[o]) /\ S \in [Obj -> Session]
  BY DEF Good, Sound
<1>2. /\ Evolves(S[o], r) /\ (Reg(S[o]) => Reg(r))
      /\ Evolves(S[o], c) /\ (Reg(S[o]) => Reg(c))
  BY <1>1 DEF Evolves, SessionOK, Session, ProtoFlag, Reg
<1>3. /\ r.flags = r0.flags /\ r.owner = r0.owner /\ r.id = r0.id /\ r.router = r0.router
      /\ r.uv = r0.uv /\ r.pflags = S[o].pflags \cup {"CLOSING"} \cup (IF kick THEN {"WRITING"} ELSE {})
  BY <1>1 DEF Session
<1>4. /\ c.flags = r0.flags /\ c.owner = r0.owner /\ c.id = r0.id /\ c.router = r0.router
      /\ c.uv = r0.uv /\ c.pflags = r.pflags \cup {"CLOSED"}
  BY <1>1, <1>3 DEF Session
<1>5. \/ sess' = [S EXCEPT ![o] = r] /\ UNCHANGED tables
      \/ OnClose(o, [S EXCEPT ![o] = c])
  BY DEF ProtoCloses
<1> HIDE DEF r, c
<1>6. AccountedNow(o, r)
  <2>1. /\ "HANDSHAKE_DONE" \in r0.pflags => "HANDSHAKE_DONE" \in r.pflags
        /\ "CLOSED" \in r0.pflags <=> "CLOSED" \in r.pflags
        /\ "CLOSING" \in r.pflags
    BY <1>3
  <2> QED BY <1>3, <2>1, ProtocolStep DEF AccountedNow
<1>7. ClosableNow(o, c)
  <2>1. /\ "HANDSHAKE_DONE" \in r0.pflags => "HANDSHAKE_DONE" \in c.pflags
        /\ "CLOSED" \in c.pflags
        /\ "CLOSING" \in c.pflags
    BY <1>3, <1>4
  <2> QED BY <1>4, <2>1, ProtocolStep DEF AccountedNow, ClosableNow
<1>8. CASE sess' = [S EXCEPT ![o] = r] /\ UNCHANGED tables
  <2>1. sess'[o] = r /\ \A p \in Obj : p # o => sess'[p] = S[p]
    BY <1>1, <1>8
  <2>2. \A p \in Obj : AccountedNow(p, sess'[p])
    BY <1>6, <2>1
  <2> QED BY <1>8, <2>2 DEF AllNext, AccountedNext, AccountedNow, tables
<1>9. CASE OnClose(o, [S EXCEPT ![o] = c])
  <2> DEFINE T == [S EXCEPT ![o] = c]
  <2>1. Good(T, actived, cache, known)
    BY <1>2, ReplaceGood
  <2>2. T[o] = c /\ \A p \in Obj : p # o => T[p] = S[p]
    BY <1>1
  <2>3. OnClose(o, T)
    BY <1>9
  <2> HIDE DEF T
  <2>4. \A p \in Obj : p # o => AccountedNow(p, T[p])
    BY <2>2
  <2>5. \A p \in Obj : ClosableNow(p, T[p])
    BY <1>7, <2>2, <2>4 DEF AccountedNow, ClosableNow, Accounted
  <2>6. AllBut(o, T)
    BY <2>4, <2>5 DEF AllBut
  <2> QED BY <2>1, <2>3, <2>6, OnCloseAccounted
<1> QED BY <1>5, <1>8, <1>9

-----------------------------------------------------------------------------
(* The actions that touch one session, or call the manager. *)

Books == IndInv /\ AllAccounted

(* What the actions use of the invariant.                                          *)
LEMMA BooksUse ==
    ASSUME Books
    PROVE  /\ Good(sess, actived, cache, known) /\ Lists
           /\ Holds(sess, actived) /\ Holds(sess, cache)
           /\ sess \in [Obj -> Session]
           /\ \A o \in Obj : sess[o] \in Session /\ SessionOK(sess[o])
           /\ \A o \in Obj : AccountedNow(o, sess[o]) /\ ClosableNow(o, sess[o])
           /\ \A x : AllBut(x, sess)
<1>1. Good(sess, actived, cache, known) /\ Lists
  BY IndInvGood DEF Books
<1>2. \A o \in Obj : AccountedNow(o, sess[o]) /\ ClosableNow(o, sess[o])
  BY DEF Books, AllAccounted, AccountedNow, ClosableNow, Accounted
<1> QED BY <1>1, <1>2 DEF Good, Sound, AllBut

(* A step of one session that is accounted for afterwards.                         *)
LEMMA OneTouched ==
    ASSUME Books, NEW o \in Obj, NEW q, sess' = [sess EXCEPT ![o] = q],
           UNCHANGED tables, running' = running,
           \A p \in Obj : p \in Listed(idle) => p \in Listed(idle'),
           Accounted(o, q, Held(actived), Held(cache), Listed(rtimer), Listed(idle'),
                     known, running)
    PROVE  AllNext
<1>1. sess'[o] = q /\ \A p \in Obj : p # o => sess'[p] = sess[p]
  BY BooksUse
<1>2. actived' = actived /\ cache' = cache /\ rtimer' = rtimer /\ known' = known
  BY DEF tables
<1>3. ASSUME NEW p \in Obj, p # o PROVE AccountedNext(p)
  <2>1. Accounted(p, sess[p], Held(actived), Held(cache), Listed(rtimer), Listed(idle),
                  known, running)
    BY BooksUse DEF AccountedNow
  <2>2. p \in Listed(idle) => p \in Listed(idle')
    OBVIOUS
  <2>3. Accounted(p, sess[p], Held(actived), Held(cache), Listed(rtimer), Listed(idle'),
                  known, running)
    BY <2>1, <2>2, Untouched
  <2> QED BY <1>1, <1>2, <1>3, <2>3 DEF AccountedNext
<1>4. AccountedNext(o)
  BY <1>1, <1>2 DEF AccountedNext
<1> QED BY <1>3, <1>4 DEF AllNext

(* A step of the protocol of one session.                                          *)
LEMMA ProtocolTouched ==
    ASSUME Books, NEW o \in Obj, NEW q, sess' = [sess EXCEPT ![o] = q],
           UNCHANGED tables, running' = running, idle' = idle,
           q.flags = sess[o].flags, q.owner = sess[o].owner, q.id = sess[o].id,
           q.router = sess[o].router, q.uv = sess[o].uv,
           "HANDSHAKE_DONE" \in sess[o].pflags => "HANDSHAKE_DONE" \in q.pflags,
           "CLOSED" \in sess[o].pflags <=> "CLOSED" \in q.pflags,
           "CLOSING" \notin q.pflags /\ "HANDSHAKE_DONE" \in q.pflags =>
               "CLOSING" \notin sess[o].pflags /\ "HANDSHAKE_DONE" \in sess[o].pflags
    PROVE  AllNext
<1>1. Accounted(o, sess[o], Held(actived), Held(cache), Listed(rtimer), Listed(idle),
                known, running)
  BY BooksUse DEF AccountedNow
<1>2. Accounted(o, q, Held(actived), Held(cache), Listed(rtimer), Listed(idle),
                known, running)
  BY <1>1, ProtocolStep
<1> QED BY <1>2, OneTouched


(* A connection is accepted: the session is put into first_idle_, or closed.       *)
LEMMA AcceptAccounted ==
    ASSUME Books, NEW o \in Obj, Accept(o) \/ AcceptBusy(o) \/ AcceptFails(o)
    PROVE  AllNext
<1>1. sess[o].uv = "none" /\ UNCHANGED tables /\ running' = running
  BY DEF Accept, AcceptBusy, AcceptFails
<1>2. o \notin Held(cache) /\ o \notin Held(actived)
  <2>1. SessionOK(sess[o]) /\ "HANDSHAKE_DONE" \notin sess[o].pflags
    BY <1>1, BooksUse DEF SessionOK
  <2> QED BY <2>1, BooksUse, HeldUnderId
<1>3. ASSUME NEW a \in {Accepted, [Accepted EXCEPT !.uv = "broken"]}
      PROVE  /\ a \in Session /\ SessionOK(a) /\ SocketOK(a)
             /\ a.flags = {"HAS_FD"} /\ a.pflags = {} /\ a.router = DefaultRouter
  <2>1. PICK u \in {"open", "broken"} :
          a = [id |-> NoId, router |-> DefaultRouter, owner |-> TRUE, flags |-> {"HAS_FD"},
               pflags |-> {}, why |-> "final", uv |-> u]
    BY DEF Accepted, NoSession
  <2>2. /\ a.flags = {"HAS_FD"} /\ a.pflags = {} /\ a.uv = u /\ a.owner = TRUE
        /\ a.router = DefaultRouter /\ a.id = NoId
    BY <2>1
  <2>3. a \in Session
    BY <2>1 DEF Session, SessionFlag, ProtoFlag, Reason, UvStage
  <2>4. SessionOK(a) /\ SocketOK(a)
    BY ONLY <2>2 DEF SessionOK, SocketOK
  <2> QED BY ONLY <2>2, <2>3, <2>4
<1>4. Accepted \in {Accepted, [Accepted EXCEPT !.uv = "broken"]}
  OBVIOUS
<1>5. CASE Accept(o)
  <2> DEFINE q == Accepted
             t == [s |-> o, left |-> FirstIdle]
  <2>1. sess' = [sess EXCEPT ![o] = q] /\ idle' = Append(idle, t)
    BY <1>5 DEF Accept
  <2>2. t \in Timer(FirstIdle) /\ t.s = o
    BY TimeoutTypes DEF Timer
  <2>3. /\ q.flags = {"HAS_FD"} /\ q.pflags = {} /\ SocketOK(q) /\ q.router = DefaultRouter
    BY <1>3, <1>4
  <2> HIDE DEF q, t
  <2>4. \A p : p \in Listed(idle') <=> p \in Listed(idle) \/ p = o
    BY <2>1, <2>2, BooksUse, ListedAppended DEF Lists
  <2>5. Connection(o, q, Held(actived), Listed(idle'))
          /\ Waiting(o, q, Held(actived), Held(cache), Listed(rtimer))
          /\ Ended(o, q, Listed(rtimer))
    BY <1>2, <2>3, <2>4 DEF Connection, Waiting, Ended
  <2>6. Reported(o, q, Listed(rtimer), running) /\ Forwards(o, q, Held(actived), known)
    BY <2>3 DEF Reported, Forwards, Owes, Reg, AddsArrive
  <2>7. Accounted(o, q, Held(actived), Held(cache), Listed(rtimer), Listed(idle'),
                  known, running)
    BY <2>3, <2>5, <2>6 DEF Accounted, Closable
  <2> QED BY <1>1, <2>1, <2>4, <2>7, OneTouched
<1>6. CASE AcceptBusy(o) \/ AcceptFails(o)
  <2>1. PICK r \in {Accepted, [Accepted EXCEPT !.uv = "broken"]} :
          sess' = [sess EXCEPT ![o] = Close(r, FALSE, TRUE)]
    BY <1>6 DEF AcceptBusy, AcceptFails
  <2>2. idle' = idle
    BY <1>6 DEF AcceptBusy, AcceptFails
  <2> DEFINE mgr == FALSE
             ok == TRUE
             q == Close(r, mgr, ok)
  <2>3. /\ r \in Session /\ SessionOK(r) /\ SocketOK(r)
        /\ r.flags = {"HAS_FD"} /\ r.pflags = {} /\ r.router = DefaultRouter
    BY <1>3
  <2>4. sess' = [sess EXCEPT ![o] = q]
    BY <2>1
  <2>5. mgr \in BOOLEAN /\ ok \in BOOLEAN /\ ok
    OBVIOUS
  <2> HIDE DEF mgr, ok
  <2>6. MayClose(o, r, mgr, Held(actived), Held(cache), Listed(rtimer), running)
    BY <1>2, <2>3 DEF MayClose, Waiting, Owes, Reg, AddsArrive
  <2>7. ~Owes(q)
    BY <2>3, <2>5, CloseShuts DEF Shuts, Owes, Reg
  <2>8. Accounted(o, q, Held(actived), Held(cache), Listed(rtimer), Listed(idle),
                  known, running)
    BY <2>3, <2>5, <2>6, <2>7, CloseAccounted
  <2> HIDE DEF q
  <2> QED BY <1>1, <2>2, <2>4, <2>8, OneTouched
<1> QED BY <1>5, <1>6

(* A write is done: if the protocol was closing then its close callback is called. *)
LEMMA WriteDoneAccounted ==
    ASSUME Books, NEW o \in Obj, WriteDone(o)
    PROVE  AllNext
<1>1. idle' = idle /\ running' = running /\ sess[o].uv = "open"
  BY DEF WriteDone
<1>2. sess[o] \in Session
  BY BooksUse
<1>3. CASE sess' = [sess EXCEPT ![o].pflags = @ \ {"WRITING"}] /\ UNCHANGED tables
  <2> DEFINE q == [sess[o] EXCEPT !.pflags = @ \ {"WRITING"}]
  <2>1. sess' = [sess EXCEPT ![o] = q]
    BY <1>3
  <2>2. /\ q.flags = sess[o].flags /\ q.owner = sess[o].owner /\ q.id = sess[o].id
        /\ q.router = sess[o].router /\ q.uv = sess[o].uv
        /\ q.pflags = sess[o].pflags \ {"WRITING"}
    BY <1>2 DEF Session
  <2> HIDE DEF q
  <2> QED BY <1>1, <1>3, <2>1, <2>2, ProtocolTouched
<1>4. CASE /\ "CLOSING" \in sess[o].pflags
           /\ OnClose(o, [sess EXCEPT ![o] = Drained(@)])
  <2> DEFINE c == [sess[o] EXCEPT !.pflags = (@ \ {"WRITING"}) \cup {"CLOSED"}]
             q == Drained(sess[o])
             T == [sess EXCEPT ![o] = q]
  <2>1. /\ c \in Session /\ c.flags = sess[o].flags /\ c.owner = sess[o].owner
        /\ c.id = sess[o].id /\ c.router = sess[o].router /\ c.uv = "open"
        /\ c.pflags = (sess[o].pflags \ {"WRITING"}) \cup {"CLOSED"}
    BY <1>1, <1>2 DEF Session, ProtoFlag
  <2>2. q \in {c, Shutdown(c)}
    BY DEF Drained
  <2>3. OnClose(o, T)
    BY <1>4
  <2> HIDE DEF c
  <2>4. /\ Shutdown(c) \in Session /\ Shutdown(c).flags = c.flags /\ Shutdown(c).owner = c.owner
        /\ Shutdown(c).id = c.id /\ Shutdown(c).router = c.router
        /\ Shutdown(c).uv = "shutdown" /\ Shutdown(c).pflags = c.pflags
    BY <2>1 DEF Shutdown, Session, UvStage
  <2> HIDE DEF q
  <2>5. /\ q \in Session /\ q.flags = sess[o].flags /\ q.owner = sess[o].owner
        /\ q.id = sess[o].id /\ q.router = sess[o].router /\ q.uv \in {"open", "shutdown"}
        /\ q.pflags = (sess[o].pflags \ {"WRITING"}) \cup {"CLOSED"}
    BY <2>1, <2>2, <2>4
  <2>6. Evolves(sess[o], q) /\ (Reg(sess[o]) => Reg(q))
    BY <1>1, <2>5, BooksUse DEF Evolves, SessionOK, Reg
  <2>7. Good(T, actived, cache, known)
    BY <2>6, BooksUse, ReplaceGood
  <2>8. ClosableNow(o, q)
    <3>1. AccountedNow(o, sess[o])
      BY BooksUse
    <3>2. /\ q.uv = sess[o].uv \/ (q.uv = "shutdown" /\ sess[o].uv = "open" /\ "CLOSED" \in q.pflags)
          /\ "HANDSHAKE_DONE" \in sess[o].pflags => "HANDSHAKE_DONE" \in q.pflags
          /\ "CLOSED" \in q.pflags /\ "CLOSING" \in q.pflags
      BY <1>1, <1>4, <2>5
    <3> QED BY <2>5, <3>1, <3>2, ProtocolStep DEF AccountedNow, ClosableNow
  <2>9. T[o] = q /\ \A p \in Obj : p # o => T[p] = sess[p]
    BY BooksUse
  <2> HIDE DEF T
  <2>10. AllBut(o, T)
    BY <2>8, <2>9, BooksUse DEF AllBut
  <2> QED BY <1>1, <2>3, <2>7, <2>10, BooksUse, OnCloseAccounted DEF Lists
<1> QED BY <1>3, <1>4 DEF WriteDone

(* A socket is closed: its session was closed before, or has its timer.            *)
LEMMA OnEvtClosedAccounted ==
    ASSUME Books, NEW o \in Obj, OnEvtClosed(o)
    PROVE  AllNext
<1> DEFINE r == sess[o]
           q == [Without(r, {"CLOSING_FD"}) EXCEPT !.uv = "closed"]
<1>1. /\ r.uv = "shutdown" /\ sess' = [sess EXCEPT ![o] = q]
      /\ UNCHANGED tables /\ idle' = idle /\ running' = running
  BY DEF OnEvtClosed
<1>2. r \in Session
  BY BooksUse
<1>3. /\ q.flags = r.flags \ {"CLOSING_FD"} /\ q.pflags = r.pflags /\ q.owner = r.owner
      /\ q.id = r.id /\ q.router = r.router /\ q.uv = "closed"
  BY <1>2 DEF Without, Session
<1>4. Accounted(o, r, Held(actived), Held(cache), Listed(rtimer), Listed(idle), known, running)
  BY BooksUse DEF AccountedNow
<1> HIDE DEF q, r
<1>5. SocketOK(q) /\ Connection(o, q, Held(actived), Listed(idle))
        /\ Waiting(o, q, Held(actived), Held(cache), Listed(rtimer))
  BY <1>1, <1>3, <1>4 DEF Accounted, Closable, SocketOK, Connection, Waiting
<1>6. Ended(o, q, Listed(rtimer))
  BY <1>1, <1>3, <1>4 DEF Accounted, Closable, SocketOK, Ended
<1>7. Reported(o, q, Listed(rtimer), running) /\ Forwards(o, q, Held(actived), known)
  BY <1>1, <1>3, <1>4 DEF Accounted, Closable, Reported, Forwards, Owes, Reg
<1>8. Accounted(o, q, Held(actived), Held(cache), Listed(rtimer), Listed(idle), known, running)
  BY <1>5, <1>6, <1>7 DEF Accounted, Closable
<1> QED BY <1>1, <1>8, OneTouched


(* The protocol answers a message by itself.                                       *)
LEMMA AnswerAccounted ==
    ASSUME Books, NEW o \in Obj, Answer(o)
    PROVE  AllNext
<1> DEFINE q == [sess[o] EXCEPT !.pflags = @ \cup {"WRITING"}]
<1>1. /\ sess' = [sess EXCEPT ![o] = q] /\ UNCHANGED tables /\ idle' = idle
      /\ running' = running
  BY DEF Answer
<1>2. /\ q.flags = sess[o].flags /\ q.owner = sess[o].owner /\ q.id = sess[o].id
      /\ q.router = sess[o].router /\ q.uv = sess[o].uv
      /\ q.pflags = sess[o].pflags \cup {"WRITING"}
  BY BooksUse DEF Session
<1> HIDE DEF q
<1> QED BY <1>1, <1>2, ProtocolTouched

(* Data while the protocol closes: the connection is given up at once, the close   *)
(* follows when the writes are done.                                               *)
LEMMA AllocReadAccounted ==
    ASSUME Books, NEW o \in Obj, AllocRead(o)
    PROVE  AllNext
<1> DEFINE r == sess[o]
           q == CloseFd(r)
<1>1. /\ sess' = [sess EXCEPT ![o] = q] /\ UNCHANGED tables /\ idle' = idle
      /\ running' = running /\ r.uv = "open" /\ "HAS_FD" \in r.flags
      /\ "late_data" \in Env
  BY DEF AllocRead
<1>2. /\ r \in Session /\ SessionOK(r)
      /\ Accounted(o, r, Held(actived), Held(cache), Listed(rtimer), Listed(idle),
                   known, running)
  BY BooksUse DEF AccountedNow
<1> HIDE DEF r
<1>3. SocketOK(r) /\ "CLOSED" \notin r.pflags
  BY <1>1, <1>2 DEF Accounted, Closable, Ended
<1>4. DropsFd(r, q)
  BY <1>2, <1>3, CloseFdDrops
<1> HIDE DEF q
<1>5. SocketOK(q) /\ Connection(o, q, Held(actived), Listed(idle))
        /\ Waiting(o, q, Held(actived), Held(cache), Listed(rtimer))
        /\ Ended(o, q, Listed(rtimer))
  BY <1>1, <1>2, <1>3, <1>4 DEF DropsFd, Accounted, Closable, Connection, Waiting, Ended
<1>6. Reported(o, q, Listed(rtimer), running)
  BY <1>1 DEF Reported, RemovesArrive
<1>7. Forwards(o, q, Held(actived), known)
  BY <1>2, <1>4 DEF DropsFd, Accounted, Closable, Forwards, Owes, Reg
<1>8. Accounted(o, q, Held(actived), Held(cache), Listed(rtimer), Listed(idle), known, running)
  BY <1>5, <1>6, <1>7 DEF Accounted, Closable
<1> QED BY <1>1, <1>8, OneTouched

(* Bad data: session::on_read closes the session where it is.                      *)
LEMMA BadReadAccounted ==
    ASSUME Books, NEW o \in Obj, BadRead(o)
    PROVE  AllNext
<1>1. PICK P \in PostResults : /\ sess' = CloseAll(sess, {o}, FALSE, P)
                               /\ known' = known \ Removed(sess, {o}, FALSE, P)
  BY DEF BadRead
<1>2. UNCHANGED <<actived, cache, rtimer, idle, ticked, running>>
  BY DEF BadRead
<1>3. \A p \in Obj : Accounted(p, sess'[p], Held(actived), Held(cache), Listed(rtimer),
                               Listed(idle), known', running)
  <2>1. {o} \in SUBSET Obj
    OBVIOUS
  <2> QED BY <1>1, <2>1, BooksUse, CloseHereAccounted
<1> QED BY <1>2, <1>3 DEF AllNext, AccountedNext

(* The connection breaks, or a server or an operator kicks a session.              *)
LEMMA ManagerClosesAccounted ==
    ASSUME Books, (\E o \in Obj : ReadError(o)) \/ (\E i \in Ids : Kickoff(i))
    PROVE  AllNext
<1>1. PICK i \in Ids, allow \in BOOLEAN, P \in PostResults : MgrClose(i, allow, sess, P)
  <2>1. CASE \E o \in Obj : ReadError(o)
    <3>1. PICK o \in Obj : ReadError(o)
      BY <2>1
    <3>2. sess[o].id \in Ids
      BY <3>1 DEF ReadError, MgrFinds, Find
    <3> QED BY <3>1, <3>2 DEF ReadError
  <2>2. CASE \E i \in Ids : Kickoff(i)
    BY <2>2 DEF Kickoff
  <2> QED BY <2>1, <2>2
<1>2. idle' = idle /\ running' = running
  BY DEF ReadError, Kickoff
<1> QED BY <1>1, <1>2, BooksUse, MgrCloseAccounted DEF Lists

(* The protocol closes itself after a failed handshake or on a client's message.   *)
LEMMA ProtocolClosesAccounted ==
    ASSUME Books, NEW o \in Obj, HandshakeFails(o) \/ ClientCloses(o)
    PROVE  AllNext
<1>1. idle' = idle /\ running' = running
  BY DEF HandshakeFails, ClientCloses
<1>2. CASE HandshakeFails(o)
  <2> DEFINE q == [sess[o] EXCEPT !.pflags = @ \cup {"HANDSHAKE_DONE"}]
             S == [sess EXCEPT ![o] = q]
  <2>1. PICK kick \in BOOLEAN : ProtoCloses(o, S, "final", kick)
    BY <1>2 DEF HandshakeFails
  <2>2. sess[o] \in Session /\ SessionOK(sess[o]) /\ sess[o].uv = "open"
    BY <1>2, BooksUse DEF HandshakeFails, Handshaking, Receiving, Reading
  <2>3. Evolves(sess[o], q) /\ (Reg(sess[o]) => Reg(q))
    BY <2>2 DEF Evolves, SessionOK, Session, ProtoFlag, Reg
  <2>4. /\ q.flags = sess[o].flags /\ q.owner = sess[o].owner /\ q.id = sess[o].id
        /\ q.router = sess[o].router /\ q.uv = sess[o].uv
        /\ q.pflags = sess[o].pflags \cup {"HANDSHAKE_DONE"}
    BY <2>2 DEF Session
  <2> HIDE DEF q
  <2>5. Good(S, actived, cache, known)
    BY <2>3, BooksUse, ReplaceGood
  <2>6. S[o] = q /\ \A p \in Obj : p # o => S[p] = sess[p]
    BY BooksUse
  <2> HIDE DEF S
  <2>7. \A p \in Obj : p # o => AccountedNow(p, S[p])
    BY <2>6, BooksUse
  <2>8. "final" \in Reason
    BY DEF Reason
  <2> QED BY <1>1, <2>1, <2>4, <2>5, <2>6, <2>7, <2>8, BooksUse, ProtoClosesAccounted DEF Lists
<1>3. CASE ClientCloses(o)
  <2>1. PICK why \in Reason, kick \in BOOLEAN : ProtoCloses(o, sess, why, kick)
    BY <1>3 DEF ClientCloses
  <2> QED BY <1>1, <2>1, BooksUse, ProtoClosesAccounted DEF Lists
<1> QED BY <1>2, <1>3

(* A refused reconnect closes the new session, and without reconnects the old one. *)
LEMMA RefusedAccounted ==
    ASSUME Books, NEW n \in Obj, ReconnectRefused(n) \/ TakeoverRefused(n)
    PROVE  AllNext
<1> DEFINE q == [sess[n] EXCEPT !.pflags = @ \cup {"HANDSHAKE_DONE", "CLOSING", "WRITING"},
                                !.why = "resumable"]
           S == [sess EXCEPT ![n] = q]
<1>1. idle' = idle /\ running' = running
  BY DEF ReconnectRefused, TakeoverRefused
<1>2. sess[n] \in Session /\ SessionOK(sess[n]) /\ sess[n].uv = "open"
  BY BooksUse DEF ReconnectRefused, TakeoverRefused, Handshaking, Receiving, Reading
<1>3. Evolves(sess[n], q) /\ (Reg(sess[n]) => Reg(q))
  BY <1>2 DEF Evolves, SessionOK, Session, ProtoFlag, Reason, Reg
<1>4. Refused(n, sess) = S
  BY BooksUse DEF Refused
<1>5. /\ q.flags = sess[n].flags /\ q.owner = sess[n].owner /\ q.id = sess[n].id
      /\ q.router = sess[n].router /\ q.uv = sess[n].uv
      /\ q.pflags = sess[n].pflags \cup {"HANDSHAKE_DONE", "CLOSING", "WRITING"}
  BY <1>2 DEF Session
<1> HIDE DEF q
<1>6. CASE ReconnectRefused(n)
  <2>1. sess' = [sess EXCEPT ![n] = q] /\ UNCHANGED tables
    BY <1>4, <1>6 DEF ReconnectRefused
  <2> QED BY <1>1, <1>5, <2>1, ProtocolTouched
<1>7. CASE TakeoverRefused(n)
  <2>1. PICK i \in Ids, P \in PostResults : actived[i] # Nil /\ MgrDrop(i, S, P)
    BY <1>4, <1>7 DEF TakeoverRefused
  <2>2. Good(S, actived, cache, known)
    BY <1>3, BooksUse, ReplaceGood
  <2>3. S[n] = q /\ \A p \in Obj : p # n => S[p] = sess[p]
    BY BooksUse
  <2> HIDE DEF S
  <2>4. AccountedNow(n, q)
    BY <1>5, BooksUse, ProtocolStep DEF AccountedNow
  <2>5. \A p \in Obj : AccountedNow(p, S[p])
    BY <2>3, <2>4, BooksUse
  <2>6. AllBut(actived[i], S)
    BY <2>5 DEF AllBut, AccountedNow, ClosableNow, Accounted
  <2> QED BY <1>1, <2>1, <2>2, <2>6, MgrDropAccounted
<1> QED BY <1>6, <1>7

(* A push writes to the sessions and closes those that exceed a limit.             *)
LEMMA PushAccounted ==
    ASSUME Books, NEW T \in SUBSET Active, Push(T)
    PROVE  AllNext
<1> DEFINE w(o) == [sess[o] EXCEPT !.pflags = @ \cup {"WRITING"}]
           open == {o \in T : "HAS_FD" \in sess[o].flags /\ "CLOSING" \notin sess[o].flags}
           S == [o \in Obj |-> IF o \in open /\ "CLOSING" \notin sess[o].pflags
                               THEN w(o) ELSE sess[o]]
<1>1. PICK over \in SUBSET T, P \in PostResults :
        /\ sess' = CloseAll(S, over, FALSE, P)
        /\ known' = known \ Removed(S, over, FALSE, P)
        /\ UNCHANGED <<actived, cache, rtimer, idle, ticked, running>>
  BY DEF Push
<1>2. over \in SUBSET Obj
  BY BooksUse DEF Active, Holds, Table
<1>3. ASSUME NEW o \in Obj
      PROVE  /\ Evolves(sess[o], S[o]) /\ (Reg(sess[o]) => Reg(S[o]))
             /\ AccountedNow(o, S[o]) /\ ClosableNow(o, S[o])
  <2>1. sess[o] \in Session /\ SessionOK(sess[o]) /\ AccountedNow(o, sess[o])
    BY BooksUse
  <2>2. Evolves(sess[o], w(o)) /\ (Reg(sess[o]) => Reg(w(o)))
    BY <2>1 DEF Evolves, SessionOK, Session, ProtoFlag, Reg
  <2>3. Evolves(sess[o], sess[o])
    BY <2>1 DEF Evolves
  <2>4. S[o] \in {w(o), sess[o]}
    OBVIOUS
  <2>5. /\ w(o).flags = sess[o].flags /\ w(o).owner = sess[o].owner /\ w(o).id = sess[o].id
        /\ w(o).router = sess[o].router /\ w(o).uv = sess[o].uv
        /\ w(o).pflags = sess[o].pflags \cup {"WRITING"}
    BY <2>1 DEF Session
  <2> HIDE DEF S, w
  <2>6. AccountedNow(o, w(o))
    <3> DEFINE q == w(o)
    <3>1. /\ q.flags = sess[o].flags /\ q.owner = sess[o].owner /\ q.id = sess[o].id
          /\ q.router = sess[o].router /\ q.uv = sess[o].uv
          /\ q.pflags = sess[o].pflags \cup {"WRITING"}
      BY <2>5
    <3> HIDE DEF q
    <3>2. AccountedNow(o, q)
      BY <2>1, <3>1, ProtocolStep DEF AccountedNow
    <3> QED BY <3>2 DEF q
  <2>7. AccountedNow(o, S[o])
    BY <2>1, <2>4, <2>6
  <2> QED BY <2>2, <2>3, <2>4, <2>7 DEF AccountedNow, ClosableNow, Accounted
<1>4. S \in [Obj -> Session]
  <2>1. S = [o \in Obj |-> S[o]]
    OBVIOUS
  <2>2. \A o \in Obj : S[o] \in Session
    BY <1>3 DEF Evolves
  <2> HIDE DEF S
  <2> QED BY <2>1, <2>2
<1> HIDE DEF S
<1>5. Good(S, actived, cache, known)
  <2>1. Quiet(sess, S)
    BY <1>3, <1>4 DEF Quiet
  <2>2. actived \in Table /\ cache \in Table
    BY BooksUse DEF Holds
  <2> QED BY <1>3, <2>1, <2>2, BooksUse, QuietGood
<1>6. \A o \in Obj : Accounted(o, sess'[o], Held(actived), Held(cache), Listed(rtimer),
                               Listed(idle), known', running)
  BY <1>1, <1>2, <1>3, <1>5, CloseHereAccounted
<1> QED BY <1>1, <1>6 DEF AllNext, AccountedNext

(* A push for a session that is not active makes the server forget it.             *)
LEMMA PushMissingAccounted ==
    ASSUME Books, NEW i \in Ids, PushMissing(i)
    PROVE  AllNext
<1>1. UNCHANGED <<sess, actived, cache, rtimer, idle, ticked, running>> /\ "push_away" \in Env
  BY DEF PushMissing
<1>2. ~AddsArrive
  BY <1>1 DEF AddsArrive
<1>3. \A o \in Obj : AccountedNow(o, sess[o])
  BY BooksUse
<1> QED
  BY <1>1, <1>2, <1>3
  DEF AllNext, AccountedNext, AccountedNow, Accounted, Closable, Forwards

(* A server sets the router of an active session.                                  *)
LEMMA SetRouterAccounted ==
    ASSUME Books, NEW i \in Ids, SetRouter(i)
    PROVE  AllNext
<1>1. PICK u \in Routers : /\ actived[i] # Nil
                           /\ sess' = [sess EXCEPT ![actived[i]].router = u]
                           /\ UNCHANGED <<tables, idle, ticked, running>>
  BY DEF SetRouter
<1> DEFINE o == actived[i]
           r == sess[o]
           q == [r EXCEPT !.router = u]
<1>2. o \in Obj
  BY <1>1, BooksUse DEF Holds, Table
<1>3. /\ r \in Session
      /\ Accounted(o, r, Held(actived), Held(cache), Listed(rtimer), Listed(idle),
                   known, running)
  BY <1>2, BooksUse DEF AccountedNow
<1>4. sess' = [sess EXCEPT ![o] = q]
  BY <1>1
<1>5. /\ q.flags = r.flags /\ q.owner = r.owner /\ q.id = r.id /\ q.pflags = r.pflags
      /\ q.uv = r.uv /\ q.router = u
  BY <1>3 DEF Session
<1> HIDE DEF q, r, o
<1>6. SocketOK(q) /\ Forwards(o, q, Held(actived), known)
  BY <1>3, <1>5 DEF Accounted, Closable, SocketOK, Forwards, AddsArrive, Owes, Reg
<1>7. Connection(o, q, Held(actived), Listed(idle))
        /\ Waiting(o, q, Held(actived), Held(cache), Listed(rtimer))
        /\ Ended(o, q, Listed(rtimer)) /\ Reported(o, q, Listed(rtimer), running)
  BY <1>3, <1>5 DEF Accounted, Closable, Connection, Waiting, Ended, Reported, Owes, Reg
<1>8. Accounted(o, q, Held(actived), Held(cache), Listed(rtimer), Listed(idle), known, running)
  BY <1>6, <1>7 DEF Accounted, Closable
<1> QED BY <1>1, <1>2, <1>4, <1>8, OneTouched

(* The clock reaches the next second.                                              *)
LEMMA SecondAccounted ==
    ASSUME Books, Second
    PROVE  AllNext
<1>1. /\ rtimer' = Elapsed(rtimer) /\ idle' = Elapsed(idle)
      /\ UNCHANGED <<sess, actived, cache, known, running>>
  BY DEF Second
<1> SUFFICES ASSUME NEW o \in Obj PROVE AccountedNext(o)
  BY DEF AllNext
<1>2. /\ o \in Listed(rtimer) => o \in Listed(rtimer')
      /\ o \in Listed(idle) => o \in Listed(idle')
  BY <1>1, TimeoutTypes, BooksUse, ListedElapsed DEF Lists
<1>3. Accounted(o, sess[o], Held(actived), Held(cache), Listed(rtimer), Listed(idle),
                known, running)
  BY BooksUse DEF AccountedNow
<1>4. Accounted(o, sess[o], Held(actived), Held(cache), Listed(rtimer'), Listed(idle'),
                known, running)
  BY <1>2, <1>3, Untouched
<1> QED BY <1>1, <1>4 DEF AccountedNext


-----------------------------------------------------------------------------
(* The actions that activate a session. *)

\* a session that may be activated, in the tables and lists A, C, I with ids K
Ready(o, r, A, C, I, K) ==
    /\ SocketOK(r) /\ r.id \in Ids
    /\ "HAS_FD" \in r.flags
    /\ "CLOSING" \notin r.flags /\ "WAIT_RECONNECT" \notin r.flags
    /\ "RECONNECTED" \notin r.flags
    /\ "HANDSHAKE_DONE" \in r.pflags /\ "CLOSED" \notin r.pflags
    /\ o \notin A /\ o \notin C /\ o \in I
    /\ AddsArrive => r.router # NoRouter
    /\ AddsArrive /\ "REGISTERED" \in r.flags => r.id \in K

(* The receive limits leave the session closed; if it was registered all the same,  *)
(* then not where "remove"s are sure to arrive.                                    *)
LEMMA LimitedAccounted ==
    ASSUME NEW o, NEW r \in Session, SessionOK(r), NEW A0, NEW C, NEW I, NEW K0,
           Ready(o, r, A0, C, I, K0), r.router # NoRouter, "recv_limit" \in Env,
           NEW q, q = Limited(r) \/ q = With(Limited(r), {"REGISTERED"}),
           NEW A, NEW W, NEW K, NEW run, AddsArrive /\ Owes(q) => r.id \in K
    PROVE  Accounted(o, q, A, C, W, I, K, run)
<1> DEFINE c == With(r, {"CLOSING"})
           d == CloseFd(c)
<1>1. /\ SocketOK(r) /\ "RECONNECTED" \notin r.flags /\ o \notin C
      /\ "WAIT_RECONNECT" \notin r.flags
  BY DEF Ready
<1>2. /\ c \in Session /\ c.flags = r.flags \cup {"CLOSING"} /\ c.pflags = r.pflags
      /\ c.id = r.id /\ c.uv = r.uv /\ c.router = r.router /\ c.owner = r.owner
  BY DEF With, Session, SessionFlag
<1>3. q = d \/ q = With(d, {"REGISTERED"})
  BY DEF Limited
<1> HIDE DEF c
<1>4. SessionOK(c) /\ SocketOK(c)
  BY <1>1, <1>2 DEF SessionOK, SocketOK
<1>5. DropsFd(c, d)
  BY <1>2, <1>4, CloseFdDrops
<1> HIDE DEF d
<1>6. /\ d \in Session /\ "HAS_FD" \notin d.flags /\ "CLOSING" \in d.flags
      /\ "RECONNECTED" \notin d.flags /\ "WAIT_RECONNECT" \notin d.flags
      /\ d.router = r.router /\ d.id = r.id /\ SocketOK(d)
  BY <1>1, <1>2, <1>5 DEF DropsFd
<1>7. /\ q.flags = d.flags \/ q.flags = d.flags \cup {"REGISTERED"}
      /\ q.pflags = d.pflags /\ q.owner = d.owner /\ q.uv = d.uv
      /\ q.router = r.router /\ q.id = r.id
  BY <1>3, <1>6 DEF With, Session
<1>8. SocketOK(q)
  BY <1>6, <1>7 DEF SocketOK
<1>9. Connection(o, q, A, I) /\ Waiting(o, q, A, C, W) /\ Ended(o, q, W)
  BY <1>1, <1>6, <1>7 DEF Connection, Waiting, Ended
<1>10. ~RemovesArrive
  BY DEF RemovesArrive
<1>11. Reported(o, q, W, run) /\ Forwards(o, q, A, K)
  BY <1>6, <1>7, <1>10 DEF Reported, Forwards
<1> QED BY <1>8, <1>9, <1>11 DEF Accounted, Closable

(* active_session: nobody else can be active under the id, so nobody is kicked, and *)
(* the session is entered unless its "add" could not be sent.                      *)
LEMMA ActivateAccounted ==
    ASSUME NEW S, NEW act, Good(S, act, cache', known), NEW o \in Obj, NEW P \in PostResults,
           \A p \in Obj : p # o => Accounted(p, S[p], Held(act), Held(cache'), Listed(rtimer'),
                                             Listed(idle), known, running),
           Ready(o, S[o], Held(act), Held(cache'), Listed(idle), known),
           Activate(o, S, act, P), idle' = idle, running' = running
    PROVE  AllNext
<1> DEFINE i == S[o].id
           r == S[o]
<1>1. /\ S \in [Obj -> Session] /\ r \in Session /\ act \in Table /\ i \in Ids
      /\ Holds(S, act)
  BY DEF Good, Sound, Holds, Ready
<1>2. act[i] = Nil
  <2> SUFFICES ASSUME act[i] # Nil PROVE FALSE
    OBVIOUS
  <2>1. act[i] \in Obj /\ act[i] \in Held(act) /\ S[act[i]].id = i
    BY <1>1 DEF Holds, Table, Held
  <2>2. act[i] # o
    BY <2>1 DEF Ready
  <2>3. "RECONNECTED" \notin S[act[i]].flags
    BY <2>1, <2>2 DEF Accounted, Closable, Connection
  <2> QED BY <1>1, <2>1, <2>2, <2>3 DEF Good, Heir, Ready
<1> DEFINE add == "REGISTERED" \notin r.flags
           done == add => CanPost(r, FALSE) /\ o \in P
           q == With(r, {"REGISTERED"})
<1>3. PICK over \in BOOLEAN :
        LET U == IF over THEN [S EXCEPT ![o] = Limited(@)] ELSE S
        IN  /\ over => "recv_limit" \in Env /\ add /\ CanPost(r, FALSE)
            /\ sess' = IF done THEN [U EXCEPT ![o] = With(@, {"REGISTERED"})] ELSE U
            /\ actived' = [act EXCEPT ![i] = IF done THEN o ELSE Nil]
            /\ known' = known \cup (IF add /\ done THEN {i} ELSE {})
  <2> DEFINE T == CloseAll(S, {}, FALSE, P)
             addT == "REGISTERED" \notin T[o].flags
             doneT == addT => CanPost(T[o], FALSE) /\ o \in P
  <2>1. T = S
    BY <1>1 DEF CloseAll
  <2>2. Removed(S, {}, FALSE, P) = {}
    BY DEF Removed
  <2> HIDE DEF T
  <2>3. PICK over \in BOOLEAN :
          LET U == IF over THEN [T EXCEPT ![o] = Limited(@)] ELSE T
          IN  /\ over => "recv_limit" \in Env /\ addT /\ CanPost(T[o], FALSE)
              /\ sess' = IF doneT THEN [U EXCEPT ![o] = With(@, {"REGISTERED"})] ELSE U
              /\ actived' = [act EXCEPT ![i] = IF doneT THEN o ELSE Nil]
              /\ known' = (known \ Removed(S, {}, FALSE, P))
                            \cup (IF addT /\ doneT THEN {i} ELSE {})
    BY <1>2 DEF Activate, T
  <2> QED BY <2>1, <2>2, <2>3
<1>4. CanPost(r, FALSE) <=> r.router # NoRouter
  <2>1. r.owner = TRUE
    BY DEF Ready, SocketOK
  <2> QED BY <2>1 DEF CanPost
<1>5. CASE over
  <2> DEFINE l == Limited(r)
             lq == With(l, {"REGISTERED"})
  <2>1. /\ sess'[o] = l \/ (done /\ sess'[o] = lq)
        /\ \A p \in Obj : p # o => sess'[p] = S[p]
        /\ "recv_limit" \in Env /\ add /\ r.router # NoRouter
    BY <1>1, <1>3, <1>4, <1>5
  <2>2. /\ known \subseteq known' /\ (add /\ done => i \in known')
        /\ actived' = [act EXCEPT ![i] = IF done THEN o ELSE Nil]
    BY <1>3
  <2>3. /\ Ready(o, r, Held(act), Held(cache'), Listed(idle), known) /\ SessionOK(r)
        /\ r.id = i
    BY DEF Good, Sound
  <2>4. \A p : p # o => (p \in Held(actived') <=> p \in Held(act))
    <3>1. CASE done
      BY <1>1, <1>2, <2>2, <3>1, HeldEntered
    <3>2. CASE ~done
      BY <1>1, <1>2, <2>2, <3>2 DEF Table
    <3> QED BY <3>1, <3>2
  <2>5. "REGISTERED" \notin l.flags
    <3>1. ~Reg(r)
      BY <2>1 DEF Reg
    <3> QED BY <1>1, <2>3, <3>1, LimitedEvolves DEF Reg
  <2> HIDE DEF q, r, i, done, add, l
  <2>6. AccountedNext(o)
    <3>1. CASE sess'[o] = l
      <4>1. ~Owes(l)
        BY <2>5 DEF Owes, Reg
      <4>2. Accounted(o, l, Held(actived'), Held(cache'), Listed(rtimer'), Listed(idle),
                      known', running)
        BY <1>1, <2>1, <2>3, <4>1, LimitedAccounted DEF l
      <4> QED BY <3>1, <4>2 DEF AccountedNext
    <3>2. CASE done /\ sess'[o] = lq
      <4>1. r.id \in known'
        BY <2>1, <2>2, <2>3, <3>2
      <4>2. Accounted(o, lq, Held(actived'), Held(cache'), Listed(rtimer'), Listed(idle),
                      known', running)
        BY <1>1, <2>1, <2>3, <4>1, LimitedAccounted DEF l
      <4> QED BY <3>2, <4>2 DEF AccountedNext
    <3> QED BY <2>1, <3>1, <3>2
  <2>7. ASSUME NEW p \in Obj, p # o PROVE AccountedNext(p)
    <3>1. Accounted(p, S[p], Held(act), Held(cache'), Listed(rtimer'), Listed(idle),
                    known, running)
      BY <2>7
    <3>2. /\ p \in Held(actived') <=> p \in Held(act)
          /\ S[p].id \in known => S[p].id \in known'
      BY <2>2, <2>4, <2>7
    <3>3. Accounted(p, S[p], Held(actived'), Held(cache'), Listed(rtimer'), Listed(idle),
                    known', running)
      BY <3>1, <3>2, Untouched
    <3> QED BY <2>1, <2>7, <3>3 DEF AccountedNext
  <2> QED BY <2>6, <2>7 DEF AllNext
<1>6. ~over => /\ sess' = IF done THEN [S EXCEPT ![o] = q] ELSE S
               /\ actived' = [act EXCEPT ![i] = IF done THEN o ELSE Nil]
               /\ known' = known \cup (IF add /\ done THEN {i} ELSE {})
  BY <1>1, <1>3
<1>7. CASE ~over /\ done
  <2>1. /\ sess' = [S EXCEPT ![o] = q] /\ actived' = [act EXCEPT ![i] = o]
        /\ known \subseteq known' /\ (add => i \in known')
    BY <1>7, <1>6
  <2>2. /\ q.flags = r.flags \cup {"REGISTERED"} /\ q.pflags = r.pflags /\ q.owner = r.owner
        /\ q.uv = r.uv /\ q.id = i /\ q.router = r.router
    BY <1>1 DEF With, Session
  <2>3. NoRouter \notin Routers => r.router # NoRouter
    BY <1>4, <1>7 DEF Ready, SocketOK
  <2>4. sess'[o] = q /\ \A p \in Obj : p # o => sess'[p] = S[p]
    BY <1>1, <2>1
  <2>5. \A p : p \in Held(actived') <=> p \in Held(act) \/ p = o
    BY <1>1, <1>2, <2>1, HeldEntered
  <2>6. AddsArrive => i \in known'
    BY <2>1 DEF Ready
  <2>7. AccountedNext(o)
    <3>0. Ready(o, r, Held(act), Held(cache'), Listed(idle), known)
      OBVIOUS
    <3> HIDE DEF q, r, i, done, add
    <3>1. SocketOK(q)
      BY <2>2, <2>3, <3>0 DEF Ready, SocketOK
    <3>2. /\ Connection(o, q, Held(actived'), Listed(idle'))
          /\ Waiting(o, q, Held(actived'), Held(cache'), Listed(rtimer'))
          /\ Ended(o, q, Listed(rtimer'))
      BY <2>2, <2>5, <3>0 DEF Ready, Connection, Waiting, Ended
    <3>3. Reported(o, q, Listed(rtimer'), running')
      BY <2>2, <3>0 DEF Ready, Reported
    <3>4. Forwards(o, q, Held(actived'), known')
      BY <2>2, <2>5, <2>6, <3>0 DEF Ready, Forwards
    <3> QED BY <2>4, <3>1, <3>2, <3>3, <3>4 DEF AccountedNext, Accounted, Closable
  <2> HIDE DEF done, add, q, r, i
  <2>8. ASSUME NEW p \in Obj, p # o PROVE AccountedNext(p)
    <3>1. Accounted(p, S[p], Held(act), Held(cache'), Listed(rtimer'), Listed(idle),
                    known, running)
      BY <2>8
    <3>2. /\ p \in Held(actived') <=> p \in Held(act)
          /\ S[p].id \in known => S[p].id \in known'
      BY <2>1, <2>5, <2>8
    <3>3. Accounted(p, S[p], Held(actived'), Held(cache'), Listed(rtimer'), Listed(idle),
                    known', running)
      BY <3>1, <3>2, Untouched
    <3> QED BY <2>4, <2>8, <3>3 DEF AccountedNext
  <2> QED BY <2>7, <2>8 DEF AllNext
<1>8. CASE ~over /\ ~done
  <2>1. sess' = S /\ actived' = act /\ known' = known
    BY <1>1, <1>2, <1>8, <1>6 DEF Table
  <2>2. add /\ (r.router = NoRouter \/ o \notin P)
    BY <1>4, <1>8
  <2>3. ~AddsArrive
    BY <2>2, PostsSucceed DEF AddsArrive, Ready
  <2>4. AccountedNext(o)
    <3>0. Ready(o, r, Held(act), Held(cache'), Listed(idle), known)
      OBVIOUS
    <3>1. "REGISTERED" \notin r.flags
      BY <2>2
    <3>2. sess'[o] = r
      BY <2>1
    <3> HIDE DEF r, done, add, i, q
    <3>3. /\ Connection(o, r, Held(actived'), Listed(idle'))
          /\ Waiting(o, r, Held(actived'), Held(cache'), Listed(rtimer'))
          /\ Ended(o, r, Listed(rtimer'))
      BY <2>1, <3>0, <3>1 DEF Ready, Connection, Waiting, Ended
    <3>4. Reported(o, r, Listed(rtimer'), running') /\ Forwards(o, r, Held(actived'), known')
      BY <2>3, <3>1 DEF Reported, Forwards, Owes, Reg
    <3> QED BY <3>0, <3>2, <3>3, <3>4 DEF AccountedNext, Accounted, Closable, Ready
  <2> QED BY <2>1, <2>4 DEF AllNext, AccountedNext
<1> QED BY <1>7, <1>8, <1>5


(* What is known of a session in its handshake.                                    *)
LEMMA InHandshake ==
    ASSUME Books, NEW o \in Obj, Handshaking(o)
    PROVE  /\ SocketOK(sess[o]) /\ sess[o].uv = "open" /\ sess[o].owner = TRUE
           /\ "HAS_FD" \in sess[o].flags
           /\ "CLOSING" \notin sess[o].flags /\ "WAIT_RECONNECT" \notin sess[o].flags
           /\ "RECONNECTED" \notin sess[o].flags /\ "REGISTERED" \notin sess[o].flags
           /\ "HANDSHAKE_DONE" \notin sess[o].pflags /\ "CLOSED" \notin sess[o].pflags
           /\ "CLOSING" \notin sess[o].pflags
           /\ o \notin Held(actived) /\ o \notin Held(cache) /\ o \in Listed(idle)
           /\ AddsArrive => sess[o].router # NoRouter
<1>1. /\ sess[o].uv = "open" /\ sess[o].owner /\ "CLOSING" \notin sess[o].flags
      /\ "CLOSING" \notin sess[o].pflags /\ "HANDSHAKE_DONE" \notin sess[o].pflags
  BY DEF Handshaking, Receiving, Reading
<1>2. sess[o] \in Session /\ SessionOK(sess[o])
  BY BooksUse
<1>3. sess[o].owner = TRUE
  BY <1>1, <1>2 DEF Session
<1>4. /\ SocketOK(sess[o]) /\ Connection(o, sess[o], Held(actived), Listed(idle))
      /\ Ended(o, sess[o], Listed(rtimer)) /\ Forwards(o, sess[o], Held(actived), known)
  BY BooksUse DEF AccountedNow, Accounted, Closable
<1>5. "HAS_FD" \in sess[o].flags /\ "WAIT_RECONNECT" \notin sess[o].flags
  BY <1>1, <1>3, <1>4 DEF SocketOK
<1>6. "RECONNECTED" \notin sess[o].flags /\ "REGISTERED" \notin sess[o].flags
  BY <1>1, <1>2 DEF SessionOK
<1>7. o \notin Held(actived) /\ o \notin Held(cache)
  BY <1>1, BooksUse, HeldUnderId
<1>8. o \in Listed(idle) /\ "CLOSED" \notin sess[o].pflags
  BY <1>4, <1>5, <1>7 DEF Connection, Ended
<1>9. AddsArrive => sess[o].router # NoRouter
  BY <1>1, <1>4 DEF Forwards
<1> QED BY <1>1, <1>3, <1>4, <1>5, <1>6, <1>7, <1>8, <1>9

(* The start of a session, with or without encryption.                             *)
LEMMA StartReqAccounted ==
    ASSUME Books, NEW o \in Obj, StartReq(o)
    PROVE  AllNext
<1>1. PICK i \in Ids, plain \in BOOLEAN, P \in PostResults :
        LET S == [sess EXCEPT ![o].id = i, ![o].router = DefaultRouter,
                              ![o].flags = @ \cup {"INITED"},
                              ![o].pflags = @ \cup {"WRITING"}
                                 \cup (IF plain THEN {"HANDSHAKE_DONE"} ELSE {})]
        IN  /\ Handshaking(o)
            /\ \A p \in Obj : sess[p].id # i
            /\ \/ plain /\ Activate(o, S, actived, P) /\ UNCHANGED <<cache, rtimer>>
               \/ ~plain /\ sess' = S /\ UNCHANGED tables
            /\ UNCHANGED <<idle, ticked, running>>
  BY ZenonT(30) DEF StartReq
<1> DEFINE r == sess[o]
           q == [r EXCEPT !.id = i, !.router = DefaultRouter,
                          !.flags = @ \cup {"INITED"},
                          !.pflags = @ \cup {"WRITING"}
                             \cup (IF plain THEN {"HANDSHAKE_DONE"} ELSE {})]
           S == [sess EXCEPT ![o] = q]
<1>2. /\ \/ plain /\ Activate(o, S, actived, P) /\ UNCHANGED <<cache, rtimer>>
         \/ ~plain /\ sess' = S /\ UNCHANGED tables
      /\ UNCHANGED <<idle, ticked, running>>
  BY <1>1
<1>3. /\ r \in Session /\ SessionOK(r)
  BY BooksUse
<1>4. /\ q \in Session /\ q.id = i /\ q.router = DefaultRouter /\ q.uv = r.uv /\ q.owner = r.owner
      /\ q.flags = r.flags \cup {"INITED"}
      /\ q.pflags = r.pflags \cup {"WRITING"} \cup (IF plain THEN {"HANDSHAKE_DONE"} ELSE {})
  BY <1>3 DEF Session, SessionFlag, ProtoFlag
<1>5. /\ SocketOK(r) /\ r.uv = "open" /\ r.owner = TRUE /\ "HAS_FD" \in r.flags
      /\ "CLOSING" \notin r.flags /\ "WAIT_RECONNECT" \notin r.flags
      /\ "RECONNECTED" \notin r.flags /\ "REGISTERED" \notin r.flags
      /\ "HANDSHAKE_DONE" \notin r.pflags /\ "CLOSED" \notin r.pflags
      /\ o \notin Held(actived) /\ o \notin Held(cache) /\ o \in Listed(idle)
  BY <1>1, InHandshake
<1> HIDE DEF q
<1>6. SessionOK(q)
  BY <1>3, <1>4, <1>5 DEF SessionOK
<1>7. Good(S, actived, cache, known)
  BY <1>1, <1>4, <1>5, <1>6, BooksUse, FreshGood
<1>8. S[o] = q /\ \A p \in Obj : p # o => S[p] = sess[p]
  BY BooksUse
<1>9. SocketOK(q)
  BY <1>4, <1>5 DEF SocketOK
<1>10. CASE ~plain /\ sess' = S /\ UNCHANGED tables
  <2>0. "HANDSHAKE_DONE" \notin q.pflags /\ "CLOSED" \notin q.pflags
    BY <1>4, <1>5, <1>10
  <2> HIDE DEF r
  <2>1. /\ Connection(o, q, Held(actived), Listed(idle))
        /\ Waiting(o, q, Held(actived), Held(cache), Listed(rtimer))
        /\ Ended(o, q, Listed(rtimer))
    BY <1>4, <1>5, <2>0 DEF Connection, Waiting, Ended
  <2>2. Reported(o, q, Listed(rtimer), running) /\ Forwards(o, q, Held(actived), known)
    BY <1>4, <1>5, <2>0 DEF Reported, Forwards, Owes, Reg, AddsArrive
  <2>3. Accounted(o, q, Held(actived), Held(cache), Listed(rtimer), Listed(idle),
                  known, running)
    BY <1>9, <2>1, <2>2 DEF Accounted, Closable
  <2> QED BY <1>2, <1>10, <2>3, OneTouched
<1>11. CASE plain /\ Activate(o, S, actived, P) /\ UNCHANGED <<cache, rtimer>>
  <2>0. "HANDSHAKE_DONE" \in q.pflags /\ "CLOSED" \notin q.pflags
    BY <1>4, <1>5, <1>11
  <2> HIDE DEF r, S
  <2>1. Ready(o, S[o], Held(actived), Held(cache'), Listed(idle), known)
    BY <1>4, <1>5, <1>8, <1>9, <1>11, <2>0 DEF Ready, AddsArrive
  <2>2. \A p \in Obj : p # o => Accounted(p, S[p], Held(actived), Held(cache'), Listed(rtimer'),
                                          Listed(idle), known, running)
    BY <1>8, <1>11, BooksUse DEF AccountedNow
  <2>3. Good(S, actived, cache', known)
    BY <1>7, <1>11
  <2>4. Activate(o, S, actived, P) /\ idle' = idle /\ running' = running
    BY <1>2, <1>11
  <2> QED BY <2>1, <2>2, <2>3, <2>4, ActivateAccounted
<1> QED BY <1>2, <1>10, <1>11

(* The end of an encrypted handshake.                                              *)
LEMMA HandshakeDoneAccounted ==
    ASSUME Books, NEW o \in Obj, HandshakeDone(o)
    PROVE  AllNext
<1> DEFINE r == sess[o]
           q == [r EXCEPT !.pflags = @ \cup {"HANDSHAKE_DONE"}]
           S == [sess EXCEPT ![o] = q]
<1>1. PICK P \in PostResults : Activate(o, S, actived, P)
  BY DEF HandshakeDone
<1>2. /\ UNCHANGED <<cache, rtimer, idle, ticked, running>> /\ Handshaking(o)
      /\ "INITED" \in r.flags
  BY DEF HandshakeDone
<1>3. r \in Session /\ SessionOK(r)
  BY BooksUse
<1>4. /\ SocketOK(r) /\ r.uv = "open" /\ r.owner = TRUE /\ "HAS_FD" \in r.flags
      /\ "CLOSING" \notin r.flags /\ "WAIT_RECONNECT" \notin r.flags
      /\ "RECONNECTED" \notin r.flags /\ "REGISTERED" \notin r.flags
      /\ "HANDSHAKE_DONE" \notin r.pflags /\ "CLOSED" \notin r.pflags
      /\ o \notin Held(actived) /\ o \notin Held(cache) /\ o \in Listed(idle)
      /\ AddsArrive => r.router # NoRouter
  BY <1>2, InHandshake
<1>5. /\ q.flags = r.flags /\ q.owner = r.owner /\ q.id = r.id /\ q.router = r.router
      /\ q.uv = r.uv /\ q.pflags = r.pflags \cup {"HANDSHAKE_DONE"}
  BY <1>3 DEF Session
<1>6. Evolves(r, q) /\ (Reg(r) => Reg(q))
  BY <1>3, <1>4 DEF Evolves, SessionOK, Session, ProtoFlag, Reg
<1> HIDE DEF q
<1>7. Good(S, actived, cache', known)
  BY <1>2, <1>6, BooksUse, ReplaceGood
<1>8. S[o] = q /\ \A p \in Obj : p # o => S[p] = sess[p]
  BY BooksUse
<1>9. r.id \in Ids
  BY <1>2, <1>3 DEF SessionOK
<1> HIDE DEF r, S
<1>10. Ready(o, S[o], Held(actived), Held(cache'), Listed(idle), known)
  BY <1>2, <1>4, <1>5, <1>8, <1>9 DEF Ready, SocketOK
<1>11. \A p \in Obj : p # o => Accounted(p, S[p], Held(actived), Held(cache'), Listed(rtimer'),
                                         Listed(idle), known, running)
  BY <1>2, <1>8, BooksUse DEF AccountedNow
<1> QED BY <1>1, <1>2, <1>7, <1>10, <1>11, ActivateAccounted


(* init_reconnect and what follows: the old session is closed and forgotten by the *)
(* tables, the new one is activated with what the old one had.                     *)
LEMMA ResumeAccounted ==
    ASSUME Books, NEW n \in Obj, Handshaking(n),
           NEW x \in Obj, sess[x].id \in Ids, "HANDSHAKE_DONE" \in sess[x].pflags,
           NEW xr, Evolves(sess[x], xr), Reg(sess[x]) <=> Reg(xr),
           xr.flags \cap {"HAS_FD", "RECONNECTED"} = {}, SocketOK(xr),
           xr.router = sess[x].router, xr.uv = "none" <=> sess[x].uv = "none",
           NEW act \in Table, \A i \in Ids : act[i] \in {Nil, actived[i]},
           \A p : p \in Held(act) <=> p \in Held(actived) /\ p # x,
           NEW P \in PostResults, Resume(n, x, xr, act, P),
           \A p \in Obj : p \in Listed(rtimer) => p \in Listed(rtimer'),
           idle' = idle, running' = running
    PROVE  AllNext
<1> DEFINE i == sess[x].id
           new == [Inherited(sess[n], xr)
                     EXCEPT !.pflags = @ \cup {"HANDSHAKE_DONE", "WRITING"}]
           h == Handed(xr)
           mgr == FALSE
           ok == TRUE
           y == Close(h, mgr, ok)
           S == [sess EXCEPT ![x] = y, ![n] = new]
<1>1. xr \in Session /\ SessionOK(xr) /\ xr.id = i /\ "HANDSHAKE_DONE" \in xr.pflags
  BY DEF Evolves
<1>2. cache' = [cache EXCEPT ![i] = Nil] /\ Activate(n, S, act, P)
  BY <1>1 DEF Resume
<1>3. /\ cache' \in Table /\ \A j \in Ids : cache'[j] \in {Nil, actived[j], cache[j]}
      /\ cache \in Table
  BY <1>2, BooksUse DEF Holds, Table
<1>4. \A p : p \in Held(cache') => p \in Held(cache) /\ p # x
  <2>1. \A p : p \in Held(cache') <=> p \in Held(cache) /\ p # cache[i]
    BY <1>2, BooksUse, HeldErased, ZenonT(30)
  <2>2. x \in Held(cache) => cache[i] = x
    BY BooksUse, HeldUnderId
  <2> QED BY <2>1, <2>2
<1>5. Good(S, act, cache', known)
  <2>1. Quiet(sess, sess)
    BY BooksUse DEF Quiet, Evolves
  <2>2. Good(sess, act, cache', known)
    BY <1>3, <2>1, BooksUse, QuietGood
  <2>3. "HANDSHAKE_DONE" \notin sess[n].pflags /\ sess[n].uv = "open"
    BY InHandshake
  <2>4. Reg(sess[x]) => Reg(xr)
    OBVIOUS
  <2> HIDE DEF new
  <2> QED BY <2>2, <2>3, <2>4, HandoverGood DEF new
<1>6. mgr \in BOOLEAN /\ ok \in BOOLEAN /\ ok
  OBVIOUS
<1> HIDE DEF mgr, ok
<1>7. /\ h \in Session /\ SessionOK(h) /\ SocketOK(h) /\ h.id = i
      /\ h.router = sess[x].router /\ h.uv = xr.uv
      /\ "HAS_FD" \notin h.flags /\ "RECONNECTED" \in h.flags
  <2>1. /\ h \in Session /\ h.id = xr.id /\ h.router = xr.router /\ h.uv = xr.uv
        /\ h.owner = xr.owner /\ h.pflags = xr.pflags
        /\ h.flags = (xr.flags \cup {"RECONNECTED"}) \ {"WAIT_RECONNECT"}
    BY <1>1 DEF Handed, With, Without, Session, SessionFlag
  <2> HIDE DEF h
  <2>2. SessionOK(h)
    BY <1>1, <2>1 DEF SessionOK
  <2>3. SocketOK(h)
    BY <2>1 DEF SocketOK
  <2> QED BY <1>1, <2>1, <2>2, <2>3
<1>8. AddsArrive => /\ sess[x].uv # "none" => sess[x].router # NoRouter
                    /\ Owes(sess[x]) => i \in known
  BY BooksUse DEF AccountedNow, Accounted, Closable, Forwards
<1> HIDE DEF h
<1>9. Accounted(x, y, Held(act), Held(cache'), Listed(rtimer'), Listed(idle), known, running)
  <2>1. MayClose(x, h, mgr, Held(act), Held(cache'), Listed(rtimer'), running)
    BY <1>4, <1>7, <1>8 DEF MayClose, Waiting, Owes
  <2>2. ~Owes(y)
    BY <1>6, <1>7, CloseShuts DEF Shuts, Owes
  <2> QED BY <1>6, <1>7, <2>1, <2>2, CloseAccounted
<1> HIDE DEF y
<1>10. /\ new.id = i /\ new.router = xr.router /\ new.uv = sess[n].uv
       /\ new.owner = sess[n].owner
       /\ new.flags = sess[n].flags \cup {"INITED"} \cup (xr.flags \cap {"REGISTERED"})
       /\ new.pflags = sess[n].pflags \cup {"HANDSHAKE_DONE", "WRITING"}
  <2> DEFINE w == Inherited(sess[n], xr)
  <2>1. sess[n] \in Session /\ xr \in Session
    BY <1>1, BooksUse
  <2>2. /\ w \in Session /\ w.id = xr.id /\ w.uv = sess[n].uv /\ w.router = xr.router
        /\ w.owner = sess[n].owner /\ w.pflags = sess[n].pflags
        /\ w.flags = sess[n].flags \cup {"INITED"} \cup (xr.flags \cap {"REGISTERED"})
    BY <2>1 DEF Inherited, Session, SessionFlag
  <2>3. new = [w EXCEPT !.pflags = @ \cup {"HANDSHAKE_DONE", "WRITING"}]
    OBVIOUS
  <2> HIDE DEF w, new
  <2> QED BY <1>1, <2>2, <2>3 DEF Session
<1> HIDE DEF new
<1>11. Ready(n, new, Held(act), Held(cache'), Listed(idle), known)
  <2>1. /\ SocketOK(sess[n]) /\ sess[n].uv = "open" /\ sess[n].owner = TRUE
        /\ "HAS_FD" \in sess[n].flags
        /\ "CLOSING" \notin sess[n].flags /\ "WAIT_RECONNECT" \notin sess[n].flags
        /\ "RECONNECTED" \notin sess[n].flags /\ "REGISTERED" \notin sess[n].flags
        /\ "CLOSED" \notin sess[n].pflags
        /\ n \notin Held(actived) /\ n \notin Held(cache) /\ n \in Listed(idle)
    BY InHandshake
  <2>2. SocketOK(new)
    BY <1>10, <2>1 DEF SocketOK
  <2>3. AddsArrive => new.router # NoRouter
    <3>1. sess[x].uv # "none"
      BY BooksUse DEF SessionOK
    <3> QED BY <1>8, <1>10, <3>1
  <2>4. AddsArrive /\ "REGISTERED" \in new.flags => i \in known
    <3>1. "REGISTERED" \in new.flags => Reg(sess[x])
      BY <1>10, <2>1 DEF Reg
    <3>2. "RECONNECTED" \notin sess[x].flags
      BY DEF Evolves
    <3> QED BY <1>8, <3>1, <3>2 DEF Owes
  <2> QED BY <1>4, <1>10, <2>1, <2>2, <2>3, <2>4 DEF Ready
<1>12. /\ x # n /\ S[n] = new /\ S[x] = y /\ \A p \in Obj : p \notin {x, n} => S[p] = sess[p]
  BY BooksUse, InHandshake
<1> HIDE DEF S
<1>13. ASSUME NEW p \in Obj, p # n
       PROVE  Accounted(p, S[p], Held(act), Held(cache'), Listed(rtimer'), Listed(idle),
                        known, running)
  <2>1. CASE p = x
    BY <1>9, <1>12, <2>1
  <2>2. CASE p # x
    <3>1. Accounted(p, sess[p], Held(actived), Held(cache), Listed(rtimer), Listed(idle),
                    known, running)
      BY BooksUse DEF AccountedNow
    <3>2. /\ p \in Held(act) <=> p \in Held(actived)
          /\ p \in Held(cache') => p \in Held(cache)
          /\ p \in Listed(rtimer) => p \in Listed(rtimer')
      BY <1>4, <2>2
    <3>3. Accounted(p, sess[p], Held(act), Held(cache'), Listed(rtimer'), Listed(idle),
                    known, running)
      BY <3>1, <3>2, Untouched
    <3> QED BY <1>12, <1>13, <2>2, <3>3
  <2> QED BY <2>1, <2>2
<1>14. Ready(n, S[n], Held(act), Held(cache'), Listed(idle), known)
  BY <1>11, <1>12
<1> QED BY <1>2, <1>5, <1>13, <1>14, ActivateAccounted

(* A client resumes a session that waits in the cache.                             *)
LEMMA ReconnectAccounted ==
    ASSUME Books, NEW n \in Obj, Reconnect(n)
    PROVE  AllNext
<1>1. PICK i \in Ids, P \in PostResults :
        /\ Handshaking(n) /\ cache[i] # Nil
        /\ sess[cache[i]].flags \cap {"HAS_FD", "RECONNECTED"} = {}
        /\ Resume(n, cache[i], sess[cache[i]], actived, P)
        /\ UNCHANGED <<rtimer, idle, ticked, running>>
  BY DEF Reconnect
<1> DEFINE x == cache[i]
<1>2. x \in Held(cache)
  BY <1>1 DEF Held
<1>3. x \in Obj /\ sess[x].id \in Ids /\ "HANDSHAKE_DONE" \in sess[x].pflags
  BY <1>2, BooksUse, HeldUnderId
<1>4. /\ x \notin Held(actived) /\ SocketOK(sess[x]) /\ actived \in Table
  BY <1>2, <1>3, BooksUse DEF AccountedNow, Accounted, Closable, Waiting, Holds
<1>5. Evolves(sess[x], sess[x])
  BY <1>3, BooksUse DEF Evolves
<1>6. /\ Resume(n, x, sess[x], actived, P) /\ Handshaking(n)
      /\ sess[x].flags \cap {"HAS_FD", "RECONNECTED"} = {}
      /\ rtimer' = rtimer /\ idle' = idle /\ running' = running
  BY <1>1
<1> HIDE DEF x
<1> QED BY <1>3, <1>4, <1>5, <1>6, ResumeAccounted

(* A client resumes a session that is still active.                                *)
LEMMA TakeoverAccounted ==
    ASSUME Books, NEW n \in Obj, Takeover(n)
    PROVE  AllNext
<1>1. PICK i \in Ids, P \in PostResults :
        /\ Handshaking(n) /\ actived[i] # Nil
        /\ "RECONNECTED" \notin sess[actived[i]].flags
        /\ Resume(n, actived[i], Parked(sess[actived[i]]), [actived EXCEPT ![i] = Nil], P)
        /\ rtimer' = Append(rtimer, [s |-> actived[i], left |-> ReconnectTimeout])
        /\ UNCHANGED <<idle, ticked, running>>
  BY DEF Takeover
<1> DEFINE x == actived[i]
           xr == Parked(sess[x])
           act == [actived EXCEPT ![i] = Nil]
           t == [s |-> x, left |-> ReconnectTimeout]
<1>2. x \in Held(actived)
  BY <1>1 DEF Held
<1>3. x \in Obj /\ sess[x].id \in Ids /\ "HANDSHAKE_DONE" \in sess[x].pflags
  BY <1>2, BooksUse, HeldUnderId
<1>4. sess[x] \in Session /\ SessionOK(sess[x]) /\ SocketOK(sess[x])
  BY <1>3, BooksUse DEF AccountedNow, Accounted, Closable
<1>5. ParkedAs(sess[x], xr) /\ Evolves(sess[x], xr) /\ (Reg(sess[x]) <=> Reg(xr))
  BY <1>3, <1>4, ParkedDrops, ParkedEvolves
<1>6. act \in Table /\ \A j \in Ids : act[j] \in {Nil, actived[j]}
  BY BooksUse DEF Holds, Table
<1>7. \A p : p \in Held(act) <=> p \in Held(actived) /\ p # x
  BY BooksUse, HeldErased
<1>8. t \in Timer(ReconnectTimeout)
  BY <1>3, ConstantsAssumption DEF Timer
<1>9. Resume(n, x, xr, act, P) /\ rtimer' = Append(rtimer, t) /\ "RECONNECTED" \notin sess[x].flags
  BY <1>1
<1> HIDE DEF t
<1>10. \A p \in Obj : p \in Listed(rtimer) => p \in Listed(rtimer')
  BY <1>8, <1>9, BooksUse, ListedAppended DEF Lists
<1> HIDE DEF x, xr, act
<1>11. /\ xr.flags \cap {"HAS_FD", "RECONNECTED"} = {} /\ SocketOK(xr)
       /\ xr.router = sess[x].router /\ (xr.uv = "none" <=> sess[x].uv = "none")
  BY <1>5, <1>9 DEF ParkedAs, DropsFd
<1>12. Handshaking(n) /\ idle' = idle /\ running' = running
  BY <1>1
<1> QED BY <1>3, <1>5, <1>6, <1>7, <1>9, <1>10, <1>11, <1>12, ResumeAccounted


-----------------------------------------------------------------------------
(* The actions that close many sessions. *)

(* tick() expires the sessions whose reconnect time is up, out of the cache, and   *)
(* then closes those whose first idle time is up without a registration.           *)
LEMMA TickAccounted ==
    ASSUME Books, Tick
    PROVE  AllNext
<1>1. /\ Good(sess, actived, cache, known) /\ Lists /\ Holds(sess, cache)
      /\ \A o \in Obj : sess[o] \in Session /\ SessionOK(sess[o])
  BY BooksUse
<1> DEFINE E == {rtimer[k].s : k \in Expired(rtimer)}
           S == [o \in Obj |-> IF o \in E THEN Without(sess[o], {"WAIT_RECONNECT"})
                               ELSE sess[o]]
           cch == [i \in Ids |-> IF \E o \in E : sess[o].id = i THEN Nil ELSE cache[i]]
           m1 == TRUE
           m2 == FALSE
<1>2. PICK P \in PostResults :
        /\ sess' = CloseAll(CloseAll(S, E, m1, P),
                            IdleSessions(CloseAll(S, E, m1, P)), m2, P)
        /\ known' = known \ Removed(S, E, m1, P)
  BY DEF Tick
<1>3. /\ cache' = cch /\ rtimer' = Rest(rtimer) /\ idle' = Rest(idle)
      /\ UNCHANGED <<actived, running>>
  BY DEF Tick
<1>4. m1 \in BOOLEAN /\ m2 \in BOOLEAN /\ m1
  OBVIOUS
<1>5. E \subseteq Obj /\ IdleSessions(CloseAll(S, E, m1, P)) \subseteq Obj
  <2>1. IdleSessions(CloseAll(S, E, m1, P)) \subseteq {idle[k].s : k \in Expired(idle)}
    BY DEF IdleSessions
  <2> HIDE DEF S
  <2> QED BY <1>1, <2>1, ListedSessions DEF Lists
<1>6. ASSUME NEW o \in E
      PROVE  /\ S[o] \in Session /\ S[o].id = sess[o].id /\ S[o].router = sess[o].router
             /\ S[o].uv = sess[o].uv /\ S[o].owner = sess[o].owner
             /\ S[o].pflags = sess[o].pflags
             /\ S[o].flags = sess[o].flags \ {"WAIT_RECONNECT"}
  <2>1. S[o] = Without(sess[o], {"WAIT_RECONNECT"}) /\ sess[o] \in Session
    BY <1>1, <1>5
  <2> HIDE DEF S
  <2> QED BY <2>1 DEF Without, Session
<1>7. \A o \in Obj \ E : S[o] = sess[o]
  OBVIOUS
<1>8. Good(S, actived, cch, known)
  <2>1. ASSUME NEW o \in Obj
        PROVE  Evolves(sess[o], S[o]) /\ (Reg(sess[o]) => Reg(S[o]))
    <3>1. sess[o] \in Session /\ SessionOK(sess[o])
      BY <1>1
    <3>2. /\ Evolves(sess[o], Without(sess[o], {"WAIT_RECONNECT"}))
          /\ Reg(sess[o]) => Reg(Without(sess[o], {"WAIT_RECONNECT"}))
      BY <3>1, FlagsEvolve
    <3>3. Evolves(sess[o], sess[o])
      BY <3>1 DEF Evolves
    <3>4. S[o] \in {Without(sess[o], {"WAIT_RECONNECT"}), sess[o]}
      OBVIOUS
    <3> HIDE DEF S
    <3> QED BY <3>2, <3>3, <3>4
  <2>2. S = [o \in Obj |-> S[o]]
    OBVIOUS
  <2>3. /\ actived \in Table /\ cch \in Table
        /\ \A i \in Ids : cch[i] \in {Nil, actived[i], cache[i]}
    BY <1>1 DEF Good, Holds, Table
  <2> HIDE DEF S, cch
  <2>4. S \in [Obj -> Session]
    <3>1. \A o \in Obj : S[o] \in Session
      BY <2>1 DEF Evolves
    <3> QED BY <2>2, <3>1
  <2>5. Quiet(sess, S)
    BY <2>1, <2>4 DEF Quiet
  <2> QED BY <1>1, <2>1, <2>3, <2>5, QuietGood
<1>9. \A o : o \in Held(cch) => o \in Held(cache) /\ o \notin E
  <2> SUFFICES ASSUME NEW o, o \in Held(cch) PROVE o \in Held(cache) /\ o \notin E
    OBVIOUS
  <2>1. PICK i \in Ids : cch[i] = o /\ o # Nil
    BY DEF Held
  <2>2. cache[i] = o /\ ~(\E p \in E : sess[p].id = i)
    BY <2>1
  <2>3. sess[o].id = i
    BY <1>1, <2>1, <2>2 DEF Holds
  <2> QED BY <2>1, <2>2, <2>3 DEF Held
<1>10. \A o \in Obj : o \in Listed(rtimer) /\ o \notin E => o \in Listed(rtimer')
  BY <1>1, <1>3, ListedRest DEF Lists
<1>11. \A o \in Obj : o \in Listed(idle)
         /\ o \notin {idle[k].s : k \in Expired(idle)} => o \in Listed(idle')
  BY <1>1, <1>3, ListedRest DEF Lists
<1> HIDE DEF E, S, cch, m1, m2
<1> DEFINE A == Held(actived)
           C == Held(cch)
           W == Listed(rtimer')
           T == CloseAll(S, E, m1, P)
           K == known \ Removed(S, E, m1, P)
           F == IdleSessions(T)
<1>12. ASSUME NEW o \in Obj
       PROVE  Accounted(o, sess[o], A, Held(cache), Listed(rtimer), Listed(idle),
                        known, running)
  BY BooksUse DEF AccountedNow
<1>13. ASSUME NEW o \in E
       PROVE  /\ MayClose(o, S[o], m1, A, C, W, running)
              /\ AddsArrive /\ Owes(S[o]) => S[o].id \in known
  <2>1. /\ SocketOK(sess[o]) /\ Connection(o, sess[o], A, Listed(idle))
        /\ Forwards(o, sess[o], A, known)
    BY <1>5, <1>12 DEF Accounted, Closable
  <2>2. o \notin C
    BY <1>9
  <2> HIDE DEF A, C, W
  <2>3. SocketOK(S[o])
    BY <1>6, <2>1 DEF SocketOK
  <2>4. Waiting(o, S[o], A, C, W)
    BY <2>2 DEF Waiting
  <2>5. "WAIT_RECONNECT" \notin S[o].flags /\ m1
    BY <1>4, <1>6
  <2>6. AddsArrive => (S[o].uv # "none" => S[o].router # NoRouter)
    BY <1>6, <2>1 DEF Forwards
  <2>7. AddsArrive /\ Owes(S[o]) => S[o].id \in known
    BY <1>6, <2>1 DEF Forwards, Owes, Reg
  <2>8. /\ "HAS_FD" \in S[o].flags => "CLOSING" \notin S[o].flags
        /\ o \in A => "RECONNECTED" \notin S[o].flags
    BY <1>6, <2>1 DEF Connection
  <2> QED BY <2>3, <2>4, <2>5, <2>6, <2>7, <2>8 DEF MayClose
<1>14. ASSUME NEW o \in Obj \ E
       PROVE  Accounted(o, S[o], A, C, W, Listed(idle), known, running)
  <2>1. o \in C => o \in Held(cache)
    BY <1>9
  <2>2. o \in Listed(rtimer) => o \in W
    BY <1>10
  <2>3. S[o] = sess[o]
    BY <1>7
  <2>4. Accounted(o, sess[o], A, C, W, Listed(idle), known, running)
    BY <1>12, <2>1, <2>2, Untouched
  <2> QED BY <2>3, <2>4
<1>15. ASSUME NEW o \in Obj
       PROVE  Accounted(o, T[o], A, C, W, Listed(idle), K, running)
  BY <1>4, <1>5, <1>8, <1>13, <1>14, CloseAllAccounted
<1>16. Good(T, actived, cch, K)
  <2>1. /\ actived \in Table /\ cch \in Table
        /\ \A i \in Ids : actived[i] \in {Nil, actived[i]}
        /\ \A i \in Ids : cch[i] \in {Nil, actived[i], cch[i]}
    BY <1>8 DEF Good, Holds
  <2> QED BY <1>4, <1>8, <2>1, CloseAllGood
<1>17. sess' = CloseAll(T, F, m2, P) /\ known' = K /\ F \in SUBSET Obj
  BY <1>2, <1>5
<1>18. \A o \in F : "REGISTERED" \notin T[o].flags
  BY DEF IdleSessions
<1>19. \A o \in Obj \ F : o \in {idle[k].s : k \in Expired(idle)} =>
           "REGISTERED" \in T[o].flags \/ "CLOSING" \in T[o].flags
  BY DEF IdleSessions
<1> HIDE DEF T, K, F
<1>20. K \ Removed(T, F, m2, P) = K
  BY <1>18 DEF Removed, Notifies
<1>21. ASSUME NEW o \in F
       PROVE  /\ MayClose(o, T[o], m2, A, C, W, running)
              /\ AddsArrive /\ Owes(T[o]) => T[o].id \in K
  <2>1. Closable(o, T[o], A, C, W, Listed(idle), K, running)
    BY <1>15, <1>17 DEF Accounted
  <2>2. o \in C => o \in W
    BY <2>1 DEF Closable, Waiting
  <2>3. MayClose(o, T[o], m2, A, C, W, running)
    BY <2>1, <2>2, FoundMayClose
  <2> QED BY <1>18, <2>3 DEF Owes, Reg
<1>22. ASSUME NEW o \in Obj \ F
       PROVE  Accounted(o, T[o], A, C, W, Listed(idle'), K, running)
  <2>1. Accounted(o, T[o], A, C, W, Listed(idle), K, running)
    BY <1>15
  <2> HIDE DEF A, C, W
  <2>2. Connection(o, T[o], A, Listed(idle'))
    <3>1. Connection(o, T[o], A, Listed(idle))
      BY <2>1 DEF Accounted, Closable
    <3>2. \/ o \in Listed(idle) => o \in Listed(idle')
          \/ "REGISTERED" \in T[o].flags
          \/ "CLOSING" \in T[o].flags
      BY <1>11, <1>19
    <3> QED BY <3>1, <3>2 DEF Connection
  <2> QED BY <2>1, <2>2 DEF Accounted, Closable
<1>23. ASSUME NEW o \in Obj
       PROVE  Accounted(o, CloseAll(T, F, m2, P)[o], A, C, W, Listed(idle'),
                        K \ Removed(T, F, m2, P), running)
  BY <1>4, <1>16, <1>17, <1>21, <1>22, CloseAllAccounted
<1>24. ASSUME NEW o \in Obj PROVE AccountedNext(o)
  BY <1>3, <1>17, <1>20, <1>23 DEF AccountedNext
<1> QED BY <1>24 DEF AllNext

(* stop() closes every session in a table or a list; the others were closed before. *)
LEMMA StopAccounted ==
    ASSUME Books, Stop
    PROVE  AllNext
<1>1. Good(sess, actived, cache, known) /\ Lists
  BY BooksUse
<1> DEFINE X == Held(actived) \cup Held(cache) \cup Listed(rtimer) \cup Listed(idle)
           mgr == FALSE
           none == [i \in Ids |-> Nil]
<1>2. X = ({actived[i] : i \in Ids} \cup {cache[i] : i \in Ids}
             \cup {rtimer[k].s : k \in 1..Len(rtimer)}
             \cup {idle[k].s : k \in 1..Len(idle)}) \ {Nil}
  BY <1>1, ListedSessions, ConstantsAssumption DEF Held, Listed, Lists
<1>3. PICK P \in PostResults : /\ sess' = CloseAll(sess, X, mgr, P)
                               /\ known' = known \ Removed(sess, X, mgr, P)
  BY <1>2 DEF Stop
<1>4. /\ actived' = none /\ cache' = none /\ rtimer' = <<>> /\ idle' = <<>>
      /\ running' = FALSE
  BY DEF Stop
<1>5. mgr \in BOOLEAN /\ X \in SUBSET Obj
  <2>1. Held(actived) \subseteq Obj /\ Held(cache) \subseteq Obj
    BY <1>1 DEF Good, Holds, Table, Held
  <2> QED BY <1>1, <2>1, ListedSessions DEF Lists
<1>6. Held(actived') = {} /\ Held(cache') = {} /\ Listed(rtimer') = {} /\ Listed(idle') = {}
  <2>1. Held(none) = {}
    BY DEF Held
  <2>2. Listed(<<>>) = {}
    BY DEF Listed
  <2> QED BY <1>4, <2>1, <2>2
<1>7. ASSUME NEW o \in Obj
      PROVE  Accounted(o, sess[o], Held(actived), Held(cache), Listed(rtimer),
                       Listed(idle), known, running)
  BY BooksUse DEF AccountedNow
<1> HIDE DEF mgr
<1>8. ASSUME NEW o \in X
      PROVE  /\ MayClose(o, sess[o], mgr, {}, {}, {}, running')
             /\ AddsArrive /\ Owes(sess[o]) => sess[o].id \in known
  <2>1. Closable(o, sess[o], Held(actived), Held(cache), Listed(rtimer), Listed(idle),
                 known, running)
    BY <1>5, <1>7 DEF Accounted
  <2>2. ~running'
    BY <1>4
  <2>3. MayClose(o, sess[o], mgr, {}, {}, {}, running')
    BY <2>1, <2>2, FoundMayClose
  <2> QED BY <2>1, <2>3 DEF Closable, Forwards
<1>9. ASSUME NEW o \in Obj \ X
      PROVE  Accounted(o, sess[o], {}, {}, {}, {}, known, running')
  <2>1. Accounted(o, sess[o], Held(actived), Held(cache), Listed(rtimer), Listed(idle),
                  known, running)
    BY <1>7
  <2>2. /\ o \notin Held(actived) /\ o \notin Held(cache)
        /\ o \notin Listed(rtimer) /\ o \notin Listed(idle)
    OBVIOUS
  <2>3. ~running'
    BY <1>4
  <2> HIDE DEF X
  <2> QED BY <2>1, <2>2, <2>3, Untouched
<1> HIDE DEF X
<1>10. ASSUME NEW o \in Obj
       PROVE  Accounted(o, CloseAll(sess, X, mgr, P)[o], {}, {}, {}, {},
                        known \ Removed(sess, X, mgr, P), running')
  BY <1>1, <1>5, <1>8, <1>9, CloseAllAccounted
<1>11. ASSUME NEW o \in Obj PROVE AccountedNext(o)
  BY <1>3, <1>6, <1>10 DEF AccountedNext
<1> QED BY <1>11 DEF AllNext

-----------------------------------------------------------------------------
(* The theorems. *)

(* The gateway starts with nothing to account for.                                 *)
LEMMA InitAccounted == ASSUME Init PROVE Books
<1> SUFFICES ASSUME NEW o \in Obj PROVE AccountedNow(o, sess[o])
  BY InitInv DEF Books, AllAccounted
<1> DEFINE r == sess[o]
<1>1. r.flags = {} /\ r.pflags = {} /\ r.owner = FALSE /\ r.uv = "none"
  BY DEF Init, NoSession
<1>2. Held(actived) = {} /\ Held(cache) = {}
  BY DEF Init, Held
<1> HIDE DEF r
<1>3. SocketOK(r)
  BY <1>1 DEF SocketOK
<1>4. Connection(o, r, {}, Listed(idle)) /\ Waiting(o, r, {}, {}, Listed(rtimer))
        /\ Ended(o, r, Listed(rtimer))
  BY <1>1 DEF Connection, Waiting, Ended
<1>5. Reported(o, r, Listed(rtimer), running) /\ Forwards(o, r, {}, known)
  BY <1>1 DEF Reported, Forwards, Owes, Reg
<1>6. AccountedNow(o, r)
  BY <1>2, <1>3, <1>4, <1>5 DEF AccountedNow, Accounted, Closable
<1> QED BY <1>6 DEF r

(* Every step of the gateway keeps the books.                                      *)
LEMMA StepAccounted == ASSUME Books, [Next]_vars PROVE Books'
<1>0. IndInv'
  BY StepInv DEF Books
<1> SUFFICES AllNext
  BY <1>0 DEF Books, AllAccounted, AccountedNow, AllNext, AccountedNext
<1>1. CASE UNCHANGED vars
  BY <1>1, BooksUse DEF vars, AllNext, AccountedNext, AccountedNow
<1>2. ASSUME NEW o \in Obj, Accept(o) \/ AcceptBusy(o) \/ AcceptFails(o)
      PROVE  AllNext
  BY <1>2, AcceptAccounted
<1>3. ASSUME NEW o \in Obj, WriteDone(o) \/ OnEvtClosed(o) PROVE AllNext
  BY <1>3, WriteDoneAccounted, OnEvtClosedAccounted
<1>4. ASSUME NEW o \in Obj, StartReq(o) \/ HandshakeDone(o) PROVE AllNext
  BY <1>4, StartReqAccounted, HandshakeDoneAccounted
<1>5. ASSUME NEW o \in Obj, HandshakeFails(o) \/ ClientCloses(o) PROVE AllNext
  BY <1>5, ProtocolClosesAccounted
<1>6. ASSUME NEW o \in Obj, BadRead(o) \/ Answer(o) \/ AllocRead(o) PROVE AllNext
  BY <1>6, BadReadAccounted, AnswerAccounted, AllocReadAccounted
<1>7. ASSUME NEW o \in Obj, ReadError(o) PROVE AllNext
  BY <1>7, ManagerClosesAccounted
<1>8. ASSUME NEW o \in Obj, Reconnect(o) \/ Takeover(o) PROVE AllNext
  BY <1>8, ReconnectAccounted, TakeoverAccounted
<1>9. ASSUME NEW o \in Obj, ReconnectRefused(o) \/ TakeoverRefused(o) PROVE AllNext
  BY <1>9, RefusedAccounted
<1>10. ASSUME NEW i \in Ids, Kickoff(i) PROVE AllNext
  BY <1>10, ManagerClosesAccounted
<1>11. ASSUME NEW i \in Ids, PushMissing(i) \/ SetRouter(i) PROVE AllNext
  BY <1>11, PushMissingAccounted, SetRouterAccounted
<1>12. ASSUME NEW T \in SUBSET Active, Push(T) PROVE AllNext
  BY <1>12, PushAccounted
<1>13. CASE Second \/ Tick \/ Stop
  BY <1>13, SecondAccounted, TickAccounted, StopAccounted
<1> QED
  BY <1>1, <1>2, <1>3, <1>4, <1>5, <1>6, <1>7, <1>8, <1>9, <1>10, <1>11, <1>12, <1>13
  DEF Next

(* Whatever clients, servers and timers do, every session is accounted for.        *)
THEOREM BooksKept == Spec => []Books
<1>1. Init => Books
  BY InitAccounted
<1>2. Books /\ [Next]_vars => Books'
  BY StepAccounted
<1> QED BY <1>1, <1>2, PTL DEF Spec

(* What the reconnect cache offers can be resumed and will expire, whatever the     *)
(* clients, the servers and their posts do.                                        *)
THEOREM CacheIsConsistent == Spec => []CacheConsistent
<1>1. Books => CacheConsistent
  <2> SUFFICES ASSUME Books, NEW i \in Ids, cache[i] # Nil
               PROVE  /\ actived[i] = Nil
                      /\ sess[cache[i]].id = i
                      /\ "WAIT_RECONNECT" \in sess[cache[i]].flags
                      /\ sess[cache[i]].flags \cap {"HAS_FD", "RECONNECTED"} = {}
                      /\ Pending(cache[i])
    BY DEF CacheConsistent
  <2> DEFINE o == cache[i]
  <2>1. o \in Held(cache)
    BY DEF Held
  <2>2. o \in Obj /\ sess[o].id = i
    BY BooksUse DEF Holds, Table
  <2>3. Waiting(o, sess[o], Held(actived), Held(cache), Listed(rtimer))
    BY <2>2, BooksUse DEF ClosableNow, Closable
  <2>4. /\ o \notin Held(actived) /\ o \in Listed(rtimer)
        /\ "WAIT_RECONNECT" \in sess[o].flags
        /\ "HAS_FD" \notin sess[o].flags /\ "RECONNECTED" \notin sess[o].flags
    BY <2>1, <2>3 DEF Waiting
  <2>5. Pending(o)
    BY <2>4 DEF Pending, Listed
  <2>6. actived[i] = Nil
    <3> SUFFICES ASSUME actived[i] # Nil PROVE FALSE
      OBVIOUS
    <3> DEFINE p == actived[i]
    <3>1. p \in Held(actived)
      BY DEF Held
    <3>2. p \in Obj /\ sess[p].id = i
      BY BooksUse DEF Holds, Table
    <3>3. "RECONNECTED" \notin sess[p].flags
      BY <3>1, <3>2, BooksUse DEF ClosableNow, Closable, Connection
    <3>4. p = o
      BY <2>2, <2>4, <3>2, <3>3, BooksUse DEF Good, Heir
    <3> QED BY <2>4, <3>1, <3>4
  <2> QED BY <2>2, <2>4, <2>5, <2>6
<1> QED BY <1>1, BooksKept, PTL

(* A session nobody refers to any more is closed, and so is its libuv handle: no     *)
(* callback runs on a freed session, and ~session finds it closed.                 *)
THEOREM NoEarlyFree == Spec => []FreedAfterClose
<1>1. Books => FreedAfterClose
  <2> SUFFICES ASSUME Books, NEW o \in Obj, sess[o].uv # "none", ~Referenced(o)
               PROVE  "CLOSING" \in sess[o].flags /\ sess[o].uv = "closed"
    BY DEF FreedAfterClose
  <2>1. /\ o \notin Held(actived) /\ o \notin Listed(rtimer) /\ o \notin Listed(idle)
        /\ "CLOSING_FD" \notin sess[o].flags
    BY DEF Referenced, Pending, Held, Listed
  <2>2. /\ SocketOK(sess[o]) /\ Connection(o, sess[o], Held(actived), Listed(idle))
        /\ Ended(o, sess[o], Listed(rtimer))
    BY BooksUse DEF AccountedNow, Accounted, Closable
  <2>3. "HAS_FD" \notin sess[o].flags
    BY <2>1, <2>2 DEF Connection
  <2>4. "CLOSING" \in sess[o].flags
    BY <2>1, <2>2, <2>3 DEF Ended
  <2>5. sess[o].uv \in UvStage
    BY BooksUse DEF Session
  <2>6. sess[o].uv = "closed"
    BY <2>1, <2>2, <2>3, <2>5 DEF SocketOK, UvStage
  <2> QED BY <2>4, <2>6
<1> QED BY <1>1, BooksKept, PTL

(* No close loses the "remove" of a registered session, if posts arrive, routers     *)
(* are real and no data comes in while a closed connection drains (on_alloc_read    *)
(* then takes the connection from a session that close() has not seen).            *)
THEOREM NoRemoveLost == ASSUME RemovesArrive PROVE Spec => []RemoveNotLost
<1>1. Books => RemoveNotLost
  <2> SUFFICES ASSUME Books, running, NEW o \in Obj, "CLOSING" \in sess[o].flags,
                      Registrant(o)
               PROVE  Pending(o)
    BY DEF RemoveNotLost
  <2>1. /\ Connection(o, sess[o], Held(actived), Listed(idle))
        /\ Reported(o, sess[o], Listed(rtimer), running)
    BY BooksUse DEF ClosableNow, Closable
  <2>2. Owes(sess[o])
    BY DEF Registrant, Owes, Reg
  <2>3. o \in Listed(rtimer)
    BY <2>1, <2>2 DEF Reported, Connection
  <2> QED BY <2>3 DEF Pending, Listed
<1> QED BY <1>1, BooksKept, PTL

(* A client whose messages on_message forwards is the active session of its id, and  *)
(* the servers know the id, if posts arrive, servers do not have a waiting session  *)
(* removed by a push, and there is a router to tell.                               *)
THEOREM OnlyKnownForward == ASSUME AddsArrive PROVE Spec => []ForwardsOnlyKnown
<1>1. Books => ForwardsOnlyKnown
  <2> SUFFICES ASSUME Books, NEW o \in Obj, Receiving(o),
                      "HANDSHAKE_DONE" \in sess[o].pflags
               PROVE  actived[sess[o].id] = o /\ sess[o].id \in known
    BY DEF ForwardsOnlyKnown
  <2>1. /\ SocketOK(sess[o]) /\ Forwards(o, sess[o], Held(actived), known)
        /\ Connection(o, sess[o], Held(actived), Listed(idle))
    BY BooksUse DEF ClosableNow, Closable
  <2>2. "HAS_FD" \in sess[o].flags
    <3>1. sess[o].owner = TRUE
      BY BooksUse DEF Receiving, Reading, Session
    <3> QED BY <2>1, <3>1 DEF SocketOK
  <2>3. "CLOSING" \notin sess[o].pflags
    BY DEF Receiving
  <2>4. o \in Held(actived) /\ "REGISTERED" \in sess[o].flags
    BY <2>1, <2>2, <2>3 DEF Forwards
  <2>5. "RECONNECTED" \notin sess[o].flags
    BY <2>1, <2>4 DEF Connection
  <2>6. sess[o].id \in known
    BY <2>1, <2>4, <2>5 DEF Forwards, Owes, Reg
  <2>7. actived[sess[o].id] = o
    BY <2>4, BooksUse, HeldUnderId
  <2> QED BY <2>6, <2>7
<1> QED BY <1>1, BooksKept, PTL

=============================================================================
