------------------------ MODULE GatewaySessionProofs ------------------------
(***************************************************************************)
(* Proofs about GatewaySession, for every set of sessions and ids, every   *)
(* timeout and every behaviour of the environment.  IndInv is preserved by *)
(* every step; OneRegistrant and OneConnection follow from it.             *)
(*                                                                         *)
(* Most handlers leave ids where they are: their steps are quiet (every    *)
(* session evolves without changing its id or its RECONNECTED mark, and    *)
(* the tables only lose sessions or move them from actived to cache), and  *)
(* QuietStep deals with all of them.  The others end in active_session.    *)
(***************************************************************************)
EXTENDS GatewaySession, SequenceTheorems, FiniteSetTheorems, TLAPS

\* what every handler but the ones that assign an id does to a session
Evolves(r, q) ==
    /\ q \in Session
    /\ SessionOK(q)
    /\ q.id = r.id
    /\ "RECONNECTED" \in q.flags <=> "RECONNECTED" \in r.flags
    /\ "HANDSHAKE_DONE" \in r.pflags => "HANDSHAKE_DONE" \in q.pflags

Reg(r) == "REGISTERED" \in r.flags

Quiet(S, T) == T \in [Obj -> Session] /\ \A o \in Obj : Evolves(S[o], T[o])

Sound(S) == S \in [Obj -> Session] /\ \A o \in Obj : SessionOK(S[o])

Table == [Ids -> Obj \cup {Nil}]

\* IndInv without the lists, of sessions S, tables act and cch and known ids K
Holds(S, table) ==
    /\ table \in Table
    /\ \A i \in Ids : table[i] # Nil =>
          S[table[i]].id = i /\ "HANDSHAKE_DONE" \in S[table[i]].pflags
Heir(S) ==
    \A o, p \in Obj :
        /\ S[o].id \in Ids /\ S[o].id = S[p].id
        /\ "RECONNECTED" \notin S[o].flags /\ "RECONNECTED" \notin S[p].flags
        => o = p
Owes(r) == Reg(r) /\ "RECONNECTED" \notin r.flags
Good(S, act, cch, K) ==
    /\ Sound(S)
    /\ Holds(S, act) /\ Holds(S, cch)
    /\ Heir(S)
    /\ K \subseteq Ids
    /\ \A i \in K : \E o \in Obj : S[o].id = i /\ Owes(S[o])

Lists == rtimer \in Seq(Timer(ReconnectTimeout)) /\ idle \in Seq(Timer(FirstIdle)) /\ ticked \in BOOLEAN /\ running \in BOOLEAN

(* The configured seconds are natural numbers. *)
LEMMA TimeoutTypes == ReconnectTimeout \in Nat /\ FirstIdle \in Nat
  BY ConstantsAssumption DEF FirstIdle

(* The inductive invariant, in the form the proofs use. *)
LEMMA IndInvGood == IndInv <=> Good(sess, actived, cache, known) /\ Lists
  BY DEF IndInv, Good, Lists, TypeOK, SessionsOK, TableOK, OneHeir, HasRegistrant,
         Registrant, Sound, Holds, Heir, Owes, Reg, Table

-----------------------------------------------------------------------------
(* The functions on one session. *)

(* close_fd keeps a session's id, marks and registration. *)
LEMMA CloseFdEvolves ==
    ASSUME NEW r \in Session, SessionOK(r)
    PROVE  Evolves(r, CloseFd(r)) /\ (Reg(CloseFd(r)) <=> Reg(r))
                /\ "HAS_FD" \notin CloseFd(r).flags
<1>1. CASE "CLOSING_FD" \in r.flags \/ "HAS_FD" \notin r.flags
  BY <1>1 DEF CloseFd, Evolves, SessionOK, Reg
<1>2. CASE "CLOSING_FD" \notin r.flags /\ "HAS_FD" \in r.flags
  <2> DEFINE p == ProtoClose(r)
             q == [p EXCEPT !.flags = (@ \ {"HAS_FD"}) \cup {"CLOSING_FD"},
                            !.owner = FALSE]
  <2>1. /\ p \in Session /\ p.id = r.id /\ p.flags = r.flags /\ p.uv = r.uv
        /\ "HANDSHAKE_DONE" \in p.pflags <=> "HANDSHAKE_DONE" \in r.pflags
    BY DEF ProtoClose, Session, ProtoFlag
  <2>2. /\ q \in Session /\ q.id = r.id /\ q.uv = r.uv
        /\ q.flags = (r.flags \ {"HAS_FD"}) \cup {"CLOSING_FD"}
        /\ q.pflags = p.pflags
    BY <2>1 DEF Session, SessionFlag
  <2>3. /\ Shutdown(q) \in Session /\ Shutdown(q).id = q.id
        /\ Shutdown(q).flags = q.flags /\ Shutdown(q).pflags = q.pflags
        /\ Shutdown(q).uv = "none" <=> q.uv = "none"
    BY <2>2, ZenonT(30) DEF Shutdown, Session, UvStage
  <2>4. CloseFd(r) = IF "CLOSED" \in p.pflags THEN Shutdown(q) ELSE q
    BY <1>2 DEF CloseFd
  <2> HIDE DEF p, q
  <2>5. CloseFd(r) \in {q, Shutdown(q)}
    BY <2>4
  <2> QED
    BY <1>2, <2>1, <2>2, <2>3, <2>5 DEF Evolves, SessionOK, Reg
<1> QED BY <1>1, <1>2

(* close_with_manager keeps a session's id and marks, and drops its registration *)
(* exactly when the "remove" was sent.                                           *)
LEMMA CloseEvolves ==
    ASSUME NEW r \in Session, SessionOK(r), NEW mgr \in BOOLEAN, NEW ok \in BOOLEAN
    PROVE  /\ Evolves(r, Close(r, mgr, ok))
           /\ Reg(Close(r, mgr, ok)) => Reg(r)
           /\ Reg(r) /\ ~Reg(Close(r, mgr, ok)) => Notifies(r) /\ CanPost(r, mgr) /\ ok
           /\ "RECONNECTED" \in r.flags => (Reg(Close(r, mgr, ok)) <=> Reg(r))
<1> DEFINE n == IF Notifies(r) /\ CanPost(r, mgr) /\ ok
                THEN Without(r, {"REGISTERED"}) ELSE r
           c == With(n, {"CLOSING"})
<1>1. /\ n \in Session /\ SessionOK(n) /\ Evolves(r, n)
      /\ Reg(n) => Reg(r)
      /\ Reg(r) /\ ~Reg(n) => Notifies(r) /\ CanPost(r, mgr) /\ ok
      /\ "RECONNECTED" \in r.flags => n = r
  BY DEF Without, Evolves, SessionOK, Session, Reg, Notifies
<1>2. /\ c \in Session /\ SessionOK(c) /\ Evolves(n, c) /\ (Reg(c) <=> Reg(n))
  <2> HIDE DEF n
  <2> QED BY <1>1 DEF With, Evolves, SessionOK, Session, SessionFlag, Reg
<1>3. Close(r, mgr, ok) = IF "CLOSING" \in n.flags THEN n ELSE CloseFd(c)
  BY DEF Close
<1>4. Evolves(c, CloseFd(c)) /\ (Reg(CloseFd(c)) <=> Reg(c))
  BY <1>2, CloseFdEvolves
<1> HIDE DEF n, c
<1> QED BY <1>1, <1>2, <1>3, <1>4 DEF Evolves

(* Closing several sessions is quiet, and every registration that ends is among *)
(* the ids the router is told to remove.                                        *)
LEMMA CloseAllQuiet ==
    ASSUME NEW S, Sound(S), NEW C, NEW mgr \in BOOLEAN, NEW P
    PROVE  LET T == CloseAll(S, C, mgr, P) IN
           /\ Quiet(S, T)
           /\ \A o \in Obj : /\ Reg(T[o]) => Reg(S[o])
                             /\ Reg(S[o]) /\ ~Reg(T[o]) => S[o].id \in Removed(S, C, mgr, P)
<1> DEFINE T == CloseAll(S, C, mgr, P)
<1>1. ASSUME NEW o \in Obj
      PROVE  /\ Evolves(S[o], T[o])
             /\ Reg(T[o]) => Reg(S[o])
             /\ Reg(S[o]) /\ ~Reg(T[o]) => S[o].id \in Removed(S, C, mgr, P)
  <2>1. S[o] \in Session /\ SessionOK(S[o])
    BY DEF Sound
  <2>2. CASE o \in C
    <3>1. T[o] = Close(S[o], mgr, o \in P)
      BY <2>2 DEF CloseAll
    <3> DEFINE ok == o \in P
    <3>2. ok \in BOOLEAN
      OBVIOUS
    <3>3. T[o] = Close(S[o], mgr, ok)
      BY <3>1
    <3>4. ok => o \in P
      OBVIOUS
    <3> HIDE DEF ok, T
    <3>5. /\ Evolves(S[o], T[o])
          /\ Reg(T[o]) => Reg(S[o])
          /\ Reg(S[o]) /\ ~Reg(T[o]) => Notifies(S[o]) /\ CanPost(S[o], mgr) /\ ok
      BY <2>1, <3>2, <3>3, CloseEvolves
    <3>6. Notifies(S[o]) /\ CanPost(S[o], mgr) /\ o \in P
              => S[o].id \in Removed(S, C, mgr, P)
      BY <2>2 DEF Removed
    <3> QED
      BY <3>4, <3>5, <3>6
  <2>3. CASE o \notin C
    <3>1. T[o] = S[o]
      BY <2>3 DEF CloseAll
    <3> QED
      BY <2>1, <3>1 DEF Evolves
  <2> QED BY <2>2, <2>3
<1>2. T \in [Obj -> Session]
  <2>1. T = [o \in Obj |-> T[o]]
    BY DEF CloseAll
  <2> QED BY <1>1, <2>1 DEF Evolves
<1> QED BY <1>1, <1>2 DEF Quiet

-----------------------------------------------------------------------------
(* Steps that assign no id. *)

(* If sessions only evolve, the tables only lose sessions or pass them from     *)
(* actived to the cache, and every registration that ends is one the servers    *)
(* were told of, then the invariant is kept.                                    *)
LEMMA QuietGood ==
    ASSUME NEW S, NEW act, NEW cch, NEW K, Good(S, act, cch, K),
           NEW T, Quiet(S, T),
           NEW act2 \in Table, NEW cch2 \in Table, NEW K2, K2 \subseteq K,
           \A i \in Ids : act2[i] \in {Nil, act[i]},
           \A i \in Ids : cch2[i] \in {Nil, act[i], cch[i]},
           \A o \in Obj : Reg(S[o]) /\ ~Reg(T[o]) => S[o].id \notin K2
    PROVE  Good(T, act2, cch2, K2)
<1>1. Sound(T)
  BY DEF Quiet, Evolves, Sound
<1>2. ASSUME NEW table \in Table,
             \A i \in Ids : table[i] \in {Nil, act[i], cch[i]}
      PROVE  Holds(T, table)
  <2> SUFFICES ASSUME NEW i \in Ids, table[i] # Nil
               PROVE  T[table[i]].id = i /\ "HANDSHAKE_DONE" \in T[table[i]].pflags
    BY DEF Holds
  <2>1. table[i] \in Obj
    BY DEF Table
  <2>2. S[table[i]].id = i /\ "HANDSHAKE_DONE" \in S[table[i]].pflags
    BY <1>2 DEF Good, Holds
  <2> QED BY <2>1, <2>2 DEF Quiet, Evolves
<1>3. Holds(T, act2) /\ Holds(T, cch2)
  BY <1>2
<1>4. Heir(T)
  BY DEF Good, Heir, Quiet, Evolves
<1>5. \A i \in K2 : \E o \in Obj : T[o].id = i /\ Owes(T[o])
  BY DEF Good, Owes, Quiet, Evolves
<1>6. K2 \subseteq Ids
  BY DEF Good
<1> QED BY <1>1, <1>3, <1>4, <1>5, <1>6 DEF Good

(* Replacing one session by one that evolved from it and kept its registration. *)
LEMMA ReplaceGood ==
    ASSUME NEW S, NEW act, NEW cch, NEW K, Good(S, act, cch, K),
           NEW o \in Obj, NEW q, Evolves(S[o], q), Reg(S[o]) => Reg(q)
    PROVE  Good([S EXCEPT ![o] = q], act, cch, K)
<1> DEFINE T == [S EXCEPT ![o] = q]
<1>1. S \in [Obj -> Session] /\ q \in Session
  BY DEF Good, Sound, Evolves
<1>2. T \in [Obj -> Session] /\ T[o] = q /\ \A p \in Obj \ {o} : T[p] = S[p]
  BY <1>1
<1>3. Quiet(S, T)
  BY <1>1, <1>2 DEF Quiet, Evolves, Good, Sound
<1>4. \A p \in Obj : Reg(S[p]) => Reg(T[p])
  BY <1>2
<1>5. act \in Table /\ cch \in Table
  BY DEF Good, Holds
<1> HIDE DEF T
<1>6. Good(T, act, cch, K)
  BY <1>3, <1>4, <1>5, QuietGood
<1> QED BY <1>6 DEF T

(* Closing sessions and telling their routers. *)
LEMMA CloseAllGood ==
    ASSUME NEW S, NEW act, NEW cch, NEW K, Good(S, act, cch, K),
           NEW C, NEW mgr \in BOOLEAN, NEW P,
           NEW act2 \in Table, NEW cch2 \in Table,
           \A i \in Ids : act2[i] \in {Nil, act[i]},
           \A i \in Ids : cch2[i] \in {Nil, act[i], cch[i]}
    PROVE  Good(CloseAll(S, C, mgr, P), act2, cch2, K \ Removed(S, C, mgr, P))
<1> DEFINE T == CloseAll(S, C, mgr, P)
           R == Removed(S, C, mgr, P)
<1>1. Sound(S)
  BY DEF Good
<1>2. /\ Quiet(S, T)
      /\ \A o \in Obj : Reg(S[o]) /\ ~Reg(T[o]) => S[o].id \in R
  BY <1>1, CloseAllQuiet
<1>3. K \ R \subseteq K
  OBVIOUS
<1>4. \A o \in Obj : Reg(S[o]) /\ ~Reg(T[o]) => S[o].id \notin K \ R
  BY <1>2
<1> HIDE DEF T, R
<1>5. Good(T, act2, cch2, K \ R)
  BY <1>2, <1>3, <1>4, QuietGood
<1> QED BY <1>5 DEF T, R

GoodNext == Good(sess', actived', cache', known') /\ rtimer' \in Seq(Timer(ReconnectTimeout))

(* Setting or resetting flags that the invariant does not speak of. *)
LEMMA FlagsEvolve ==
    ASSUME NEW r \in Session, SessionOK(r),
           NEW F \in SUBSET {"WAIT_RECONNECT", "CLOSING"}
    PROVE  /\ Evolves(r, With(r, F)) /\ (Reg(With(r, F)) <=> Reg(r))
           /\ Evolves(r, Without(r, F)) /\ (Reg(Without(r, F)) <=> Reg(r))
  BY DEF With, Without, Evolves, SessionOK, Session, SessionFlag, Reg

(* A parked session has no connection and keeps its registration. *)
LEMMA ParkedEvolves ==
    ASSUME NEW r \in Session, SessionOK(r)
    PROVE  /\ Evolves(r, Parked(r)) /\ (Reg(Parked(r)) <=> Reg(r))
           /\ "HAS_FD" \notin Parked(r).flags
<1> DEFINE w == With(r, {"WAIT_RECONNECT"})
<1>1. Evolves(r, w) /\ (Reg(w) <=> Reg(r))
  BY FlagsEvolve
<1>2. w \in Session /\ SessionOK(w)
  BY <1>1 DEF Evolves
<1> HIDE DEF w
<1>3. /\ Evolves(w, CloseFd(w)) /\ (Reg(CloseFd(w)) <=> Reg(w))
      /\ "HAS_FD" \notin CloseFd(w).flags
  BY <1>2, CloseFdEvolves
<1> QED BY <1>1, <1>3 DEF Parked, Evolves, w

(* session_manager::close keeps the invariant in each of its three cases. *)
LEMMA MgrParkGood ==
    ASSUME NEW S, Good(S, actived, cache, known), rtimer \in Seq(Timer(ReconnectTimeout)),
           NEW i \in Ids, actived[i] # Nil, MgrPark(i, S)
    PROVE  GoodNext
<1> DEFINE o == actived[i]
           T == [S EXCEPT ![o] = Parked(S[o])]
<1>1. o \in Obj /\ S[o].id = i
  BY DEF Good, Holds, Table
<1>2. S[o] \in Session /\ SessionOK(S[o]) /\ S \in [Obj -> Session]
  BY <1>1 DEF Good, Sound
<1>3. Good(T, actived, cache, known)
  BY <1>1, <1>2, ParkedEvolves, ReplaceGood
<1>4. sess' = T
  BY DEF MgrPark
<1>5. /\ actived' = [actived EXCEPT ![i] = Nil]
      /\ cache' = [cache EXCEPT ![i] = o]
      /\ known' = known
  BY <1>1 DEF MgrPark
<1>6. /\ actived' \in Table /\ cache' \in Table
      /\ \A j \in Ids : actived'[j] \in {Nil, actived[j]}
      /\ \A j \in Ids : cache'[j] \in {Nil, actived[j], cache[j]}
  BY <1>1, <1>5 DEF Good, Holds, Table
<1>7. [s |-> o, left |-> ReconnectTimeout] \in Timer(ReconnectTimeout)
  BY <1>1, ConstantsAssumption DEF Timer
<1>8. rtimer' \in Seq(Timer(ReconnectTimeout))
  BY <1>7, AppendProperties DEF MgrPark
<1> HIDE DEF T, o
<1>9. Quiet(T, T)
  BY <1>3 DEF Good, Sound, Quiet, Evolves
<1>10. Good(T, actived', cache', known)
  BY <1>3, <1>6, <1>9, QuietGood
<1> QED BY <1>4, <1>5, <1>8, <1>10 DEF GoodNext

(* Closing an active session for good keeps it. *)
LEMMA MgrDropGood ==
    ASSUME NEW S, Good(S, actived, cache, known), rtimer \in Seq(Timer(ReconnectTimeout)),
           NEW i \in Ids, NEW P, MgrDrop(i, S, P)
    PROVE  GoodNext
<1>1. /\ sess' = CloseAll(S, {actived[i]}, FALSE, P)
      /\ known' = known \ Removed(S, {actived[i]}, FALSE, P)
      /\ actived' = [actived EXCEPT ![i] = Nil]
      /\ cache' = cache /\ rtimer' = rtimer
  BY DEF MgrDrop
<1>2. /\ actived' \in Table /\ cache' \in Table
      /\ \A j \in Ids : actived'[j] \in {Nil, actived[j]}
      /\ \A j \in Ids : cache'[j] \in {Nil, actived[j], cache[j]}
  BY <1>1 DEF Good, Holds, Table
<1> QED BY <1>1, <1>2, CloseAllGood DEF GoodNext

(* Closing a session that waits in the reconnect cache keeps it. *)
LEMMA MgrEvictGood ==
    ASSUME NEW S, Good(S, actived, cache, known), rtimer \in Seq(Timer(ReconnectTimeout)),
           NEW i \in Ids, cache[i] # Nil, NEW P, MgrEvict(i, S, P)
    PROVE  GoodNext
<1> DEFINE o == cache[i]
           T == CloseAll(S, {o}, FALSE, P)
<1>1. /\ sess' = [T EXCEPT ![o] = Without(T[o], {"WAIT_RECONNECT"})]
      /\ known' = known \ Removed(S, {o}, FALSE, P)
      /\ cache' = [cache EXCEPT ![i] = Nil]
      /\ actived' = actived /\ rtimer' = rtimer
  BY DEF MgrEvict
<1>2. o \in Obj
  BY DEF Good, Holds, Table
<1>3. /\ actived' \in Table /\ cache' \in Table
      /\ \A j \in Ids : actived'[j] \in {Nil, actived[j]}
      /\ \A j \in Ids : cache'[j] \in {Nil, actived[j], cache[j]}
  BY <1>1 DEF Good, Holds, Table
<1>4. Good(T, actived', cache', known')
  BY <1>1, <1>3, CloseAllGood
<1>5. T[o] \in Session /\ SessionOK(T[o])
  BY <1>2, <1>4 DEF Good, Sound
<1> HIDE DEF T, o
<1>6. Evolves(T[o], Without(T[o], {"WAIT_RECONNECT"}))
        /\ (Reg(T[o]) => Reg(Without(T[o], {"WAIT_RECONNECT"})))
  BY <1>5, FlagsEvolve
<1>7. Good([T EXCEPT ![o] = Without(T[o], {"WAIT_RECONNECT"})], actived', cache', known')
  BY <1>2, <1>4, <1>6, ReplaceGood
<1> QED BY <1>1, <1>7 DEF GoodNext

(* So does session_manager::close, whichever case applies. *)
LEMMA MgrCloseGood ==
    ASSUME NEW S, Good(S, actived, cache, known), rtimer \in Seq(Timer(ReconnectTimeout)),
           NEW i \in Ids, NEW allow, NEW P, MgrClose(i, allow, S, P)
    PROVE  GoodNext
  BY MgrParkGood, MgrDropGood, MgrEvictGood DEF MgrClose

(* The close callback keeps it, whatever session the manager finds. *)
LEMMA OnCloseGood ==
    ASSUME NEW S, Good(S, actived, cache, known), rtimer \in Seq(Timer(ReconnectTimeout)),
           NEW o \in Obj, OnClose(o, S)
    PROVE  GoodNext
<1> DEFINE allow == S[o].why = "resumable"
<1>1. PICK P \in PostResults :
        \/ sess' = S /\ UNCHANGED tables
        \/ MgrFinds(S[o].id, allow) /\ MgrClose(S[o].id, allow, S, P)
        \/ /\ sess' = CloseAll(S, {o}, FALSE, P)
           /\ known' = known \ Removed(S, {o}, FALSE, P)
           /\ UNCHANGED <<actived, cache, rtimer>>
  BY DEF OnClose
<1>2. CASE sess' = S /\ UNCHANGED tables
  BY <1>2 DEF tables, GoodNext
<1>3. CASE MgrFinds(S[o].id, allow) /\ MgrClose(S[o].id, allow, S, P)
  <2>1. S[o].id \in Ids
    BY <1>3 DEF MgrFinds, Find
  <2> QED BY <1>3, <2>1, MgrCloseGood
<1>4. CASE /\ sess' = CloseAll(S, {o}, FALSE, P)
           /\ known' = known \ Removed(S, {o}, FALSE, P)
           /\ UNCHANGED <<actived, cache, rtimer>>
  <2>1. actived \in Table /\ cache \in Table
    BY DEF Good, Holds
  <2> QED BY <1>4, <2>1, CloseAllGood DEF GoodNext
<1> QED BY <1>1, <1>2, <1>3, <1>4

(* The protocol closes itself: directly, or once its write is done. *)
LEMMA ProtoClosesGood ==
    ASSUME NEW S, Good(S, actived, cache, known), rtimer \in Seq(Timer(ReconnectTimeout)),
           NEW o \in Obj, NEW why \in Reason, NEW kick \in BOOLEAN,
           ProtoCloses(o, S, why, kick)
    PROVE  GoodNext
<1> DEFINE r == [S[o] EXCEPT !.why = why,
                   !.pflags = @ \cup {"CLOSING"} \cup (IF kick THEN {"WRITING"} ELSE {})]
           c == [r EXCEPT !.pflags = @ \cup {"CLOSED"}]
<1>1. S[o] \in Session /\ SessionOK(S[o])
  BY DEF Good, Sound
<1>2. Evolves(S[o], r) /\ (Reg(S[o]) => Reg(r))
  BY <1>1 DEF Evolves, SessionOK, Session, ProtoFlag, Reg
<1>3. Evolves(S[o], c) /\ (Reg(S[o]) => Reg(c))
  BY <1>1 DEF Evolves, SessionOK, Session, ProtoFlag, Reg
<1>4. Good([S EXCEPT ![o] = r], actived, cache, known)
  <2> HIDE DEF r
  <2> QED BY <1>2, ReplaceGood
<1>5. Good([S EXCEPT ![o] = c], actived, cache, known)
  <2> HIDE DEF c
  <2> QED BY <1>3, ReplaceGood
<1>6. \/ sess' = [S EXCEPT ![o] = r] /\ UNCHANGED tables
      \/ OnClose(o, [S EXCEPT ![o] = c])
  BY DEF ProtoCloses
<1> HIDE DEF r, c
<1>7. CASE sess' = [S EXCEPT ![o] = r] /\ UNCHANGED tables
  BY <1>4, <1>7 DEF tables, GoodNext
<1>8. CASE OnClose(o, [S EXCEPT ![o] = c])
  BY <1>5, <1>8, OnCloseGood
<1> QED BY <1>6, <1>7, <1>8

-----------------------------------------------------------------------------
(* Steps that assign an id. *)

(* The receive limits close a session and leave its registration alone.           *)
LEMMA LimitedEvolves ==
    ASSUME NEW r \in Session, SessionOK(r)
    PROVE  Evolves(r, Limited(r)) /\ (Reg(Limited(r)) <=> Reg(r))
<1> DEFINE c == With(r, {"CLOSING"})
<1>1. c \in Session /\ SessionOK(c) /\ Evolves(r, c) /\ (Reg(c) <=> Reg(r))
  BY DEF With, Session, SessionFlag, SessionOK, Evolves, Reg
<1>2. Limited(r) = CloseFd(c)
  BY DEF Limited
<1> HIDE DEF c
<1> QED BY <1>1, <1>2, CloseFdEvolves DEF Evolves

(* active_session: closing whoever is active under the id loses no registration,  *)
(* and the id is reported "add" only together with the session's own flag.        *)
LEMMA ActivateGood ==
    ASSUME NEW S, NEW act, Good(S, act, cache', known), NEW o \in Obj, NEW P,
           S[o].id \in Ids, "HANDSHAKE_DONE" \in S[o].pflags,
           "RECONNECTED" \notin S[o].flags,
           Activate(o, S, act, P)
    PROVE  Good(sess', actived', cache', known')
<1> DEFINE i == S[o].id
           C == IF act[i] = Nil THEN {} ELSE {act[i]}
           T == CloseAll(S, C, FALSE, P)
           K == known \ Removed(S, C, FALSE, P)
           add == "REGISTERED" \notin T[o].flags
           done == add => CanPost(T[o], FALSE) /\ o \in P
<1>1. PICK over \in BOOLEAN :
        LET U == IF over THEN [T EXCEPT ![o] = Limited(@)] ELSE T
        IN  /\ sess' = IF done THEN [U EXCEPT ![o] = With(@, {"REGISTERED"})] ELSE U
            /\ actived' = [act EXCEPT ![i] = IF done THEN o ELSE Nil]
            /\ known' = K \cup (IF add /\ done THEN {i} ELSE {})
  BY DEF Activate
<1> DEFINE u == IF over THEN Limited(T[o]) ELSE T[o]
           U == [T EXCEPT ![o] = u]
           q == With(u, {"REGISTERED"})
<1>2. act \in Table /\ cache' \in Table
  BY DEF Good, Holds
<1>3. Good(T, act, cache', K)
  BY <1>2, CloseAllGood
<1>4. T[o] \in Session /\ SessionOK(T[o]) /\ T \in [Obj -> Session]
  BY <1>3 DEF Good, Sound
<1>5. Evolves(S[o], T[o])
  <2>1. Sound(S)
    BY DEF Good
  <2> QED BY <2>1, CloseAllQuiet DEF Quiet
<1>6. T[o].id = i /\ "HANDSHAKE_DONE" \in T[o].pflags /\ "RECONNECTED" \notin T[o].flags
  BY <1>5 DEF Evolves
<1>7. /\ sess' = IF done THEN [U EXCEPT ![o] = q] ELSE U
      /\ actived' = [act EXCEPT ![i] = IF done THEN o ELSE Nil]
      /\ known' = K \cup (IF add /\ done THEN {i} ELSE {})
  BY <1>1, <1>4
<1> HIDE DEF T, K, C
<1>8. Evolves(T[o], u) /\ (Reg(u) <=> Reg(T[o]))
  BY <1>4, LimitedEvolves DEF Evolves
<1> HIDE DEF u
<1>9. Good(U, act, cache', K) /\ U[o] = u
  BY <1>3, <1>4, <1>8, ReplaceGood
<1>10. /\ Evolves(u, q) /\ Owes(q) /\ q.id = i /\ "HANDSHAKE_DONE" \in q.pflags
  BY <1>6, <1>8 DEF With, Evolves, SessionOK, Session, SessionFlag, Owes, Reg
<1> HIDE DEF U, q
<1>11. CASE ~done
  <2>1. sess' = U /\ actived' = [act EXCEPT ![i] = Nil] /\ known' = K
    BY <1>7, <1>11
  <2>2. actived' \in Table /\ \A j \in Ids : actived'[j] \in {Nil, act[j]}
    BY <1>2, <2>1 DEF Table
  <2>3. Quiet(U, U)
    BY <1>9 DEF Good, Sound, Quiet, Evolves
  <2>4. Good(U, actived', cache', K)
    BY <1>2, <1>9, <2>2, <2>3, QuietGood
  <2> QED BY <2>1, <2>4
<1>12. CASE done
  <2> DEFINE V == [U EXCEPT ![o] = q]
  <2>1. sess' = V /\ actived' = [act EXCEPT ![i] = o] /\ known' \subseteq K \cup {i}
    BY <1>7, <1>12
  <2>2. Good(V, act, cache', K)
    BY <1>9, <1>10, ReplaceGood DEF Owes
  <2>3. V[o] = q
    BY <1>9 DEF Good, Sound
  <2> HIDE DEF V
  <2>4. Holds(V, actived')
    BY <1>10, <2>1, <2>2, <2>3, ConstantsAssumption DEF Good, Holds, Table
  <2>5. known' \subseteq Ids /\ \A j \in known' : \E p \in Obj : V[p].id = j /\ Owes(V[p])
    BY <1>10, <2>1, <2>2, <2>3 DEF Good
  <2> QED BY <2>1, <2>2, <2>4, <2>5 DEF Good
<1> QED BY <1>11, <1>12

(* init_reconnect: the session x that has the id, as xr, gives it to the session  *)
(* n, which had no handshake yet.  x is marked, so n is the only heir, and it has *)
(* the registration if x had it.                                                  *)
LEMMA HandoverGood ==
    ASSUME NEW act, NEW cch, Good(sess, act, cch, known),
           NEW n \in Obj, "HANDSHAKE_DONE" \notin sess[n].pflags, sess[n].uv = "open",
           NEW x \in Obj, sess[x].id \in Ids, "HANDSHAKE_DONE" \in sess[x].pflags,
           NEW xr, Evolves(sess[x], xr), Reg(sess[x]) => Reg(xr),
           xr.flags \cap {"HAS_FD", "RECONNECTED"} = {},
           NEW new, new = [Inherited(sess[n], xr)
                             EXCEPT !.pflags = @ \cup {"HANDSHAKE_DONE", "WRITING"}]
    PROVE  /\ Good([sess EXCEPT ![x] = Close(Handed(xr), FALSE, TRUE), ![n] = new],
                   act, cch, known)
           /\ new.id = sess[x].id
           /\ "HANDSHAKE_DONE" \in new.pflags /\ "RECONNECTED" \notin new.flags
<1> DEFINE i == sess[x].id
           h == Handed(xr)
           y == Close(h, FALSE, TRUE)
           T == [sess EXCEPT ![x] = y, ![n] = new]
<1>1. sess \in [Obj -> Session] /\ \A o \in Obj : sess[o] \in Session /\ SessionOK(sess[o])
  BY DEF Good, Sound
<1>2. x # n
  OBVIOUS
<1>3. xr \in Session /\ SessionOK(xr) /\ xr.id = i /\ "HANDSHAKE_DONE" \in xr.pflags
  BY DEF Evolves
<1>4. /\ h \in Session /\ SessionOK(h) /\ h.id = i
      /\ "HANDSHAKE_DONE" \in h.pflags /\ "RECONNECTED" \in h.flags
  BY <1>3 DEF Handed, With, Without, SessionOK, Session, SessionFlag
<1>5. Evolves(h, y)
  <2> HIDE DEF h
  <2> QED BY <1>4, CloseEvolves
<1>6. /\ y \in Session /\ SessionOK(y) /\ y.id = i
      /\ "HANDSHAKE_DONE" \in y.pflags /\ "RECONNECTED" \in y.flags
  <2> HIDE DEF h, y
  <2> QED BY <1>4, <1>5 DEF Evolves
<1>7. /\ new \in Session /\ new.id = i /\ "HANDSHAKE_DONE" \in new.pflags
      /\ new.flags = sess[n].flags \cup {"INITED"} \cup (xr.flags \cap {"REGISTERED"})
      /\ new.uv = "open"
  <2> DEFINE w == Inherited(sess[n], xr)
  <2>1. sess[n] \in Session /\ xr \in Session
    BY <1>1, <1>3
  <2>2. /\ w \in Session /\ w.id = xr.id /\ w.uv = sess[n].uv
        /\ w.flags = sess[n].flags \cup {"INITED"} \cup (xr.flags \cap {"REGISTERED"})
    BY <2>1 DEF Inherited, Session, SessionFlag
  <2>3. new = [w EXCEPT !.pflags = @ \cup {"HANDSHAKE_DONE", "WRITING"}]
    OBVIOUS
  <2> HIDE DEF w
  <2> QED BY <1>3, <2>2, <2>3 DEF Session, ProtoFlag
<1>8. "RECONNECTED" \notin sess[n].flags /\ ~Reg(sess[n])
  BY <1>1 DEF SessionOK, Reg
<1>9. SessionOK(new) /\ "RECONNECTED" \notin new.flags /\ (Reg(xr) => Reg(new))
  BY <1>1, <1>7, <1>8 DEF SessionOK, Reg
<1> HIDE DEF y, h
<1>10. /\ T \in [Obj -> Session] /\ T[x] = y /\ T[n] = new
       /\ \A o \in Obj \ {x, n} : T[o] = sess[o]
  BY <1>1, <1>2, <1>6, <1>7
<1> HIDE DEF T
<1>11. Sound(T)
  BY <1>1, <1>6, <1>9, <1>10 DEF Sound
<1>12. ASSUME NEW table, Holds(sess, table)
       PROVE  Holds(T, table)
  <2> SUFFICES ASSUME NEW j \in Ids, table[j] # Nil
               PROVE  T[table[j]].id = j /\ "HANDSHAKE_DONE" \in T[table[j]].pflags
    BY <1>12 DEF Holds
  <2>1. /\ table[j] \in Obj
        /\ sess[table[j]].id = j /\ "HANDSHAKE_DONE" \in sess[table[j]].pflags
    BY <1>12 DEF Holds, Table
  <2>2. table[j] # n
    BY <2>1
  <2> QED BY <1>6, <1>10, <2>1, <2>2
<1>13. \A o \in Obj : o # n /\ T[o].id = i => "RECONNECTED" \in T[o].flags
  <2> SUFFICES ASSUME NEW o \in Obj, o # n, T[o].id = i, o # x
               PROVE  "RECONNECTED" \in T[o].flags
    BY <1>6, <1>10
  <2>1. T[o] = sess[o]
    BY <1>10
  <2>2. "RECONNECTED" \notin sess[x].flags
    BY DEF Evolves
  <2> QED BY <2>1, <2>2 DEF Good, Heir
<1>14. Heir(T)
  <2> SUFFICES ASSUME NEW o \in Obj, NEW p \in Obj,
                      T[o].id \in Ids, T[o].id = T[p].id,
                      "RECONNECTED" \notin T[o].flags, "RECONNECTED" \notin T[p].flags
               PROVE  o = p
    BY DEF Heir
  <2>1. CASE T[o].id = i
    BY <1>13, <2>1
  <2>2. CASE T[o].id # i
    <3>1. o \notin {x, n} /\ p \notin {x, n}
      BY <1>6, <1>7, <1>10, <2>2
    <3> QED BY <1>10, <3>1 DEF Good, Heir
  <2> QED BY <2>1, <2>2
<1>15. ASSUME NEW j \in known
       PROVE  \E o \in Obj : T[o].id = j /\ Owes(T[o])
  <2>1. PICK o \in Obj : sess[o].id = j /\ Owes(sess[o])
    BY DEF Good
  <2>2. o # n
    BY <1>8, <2>1 DEF Owes
  <2>3. CASE o = x
    <3>1. T[n].id = j /\ Owes(T[n])
      BY <1>7, <1>9, <1>10, <2>1, <2>3 DEF Owes
    <3> QED BY <3>1
  <2>4. CASE o # x
    <3>1. T[o] = sess[o]
      BY <1>10, <2>2, <2>4
    <3> QED BY <2>1, <3>1
  <2> QED BY <2>3, <2>4
<1>16. Good(T, act, cch, known)
  BY <1>11, <1>12, <1>14, <1>15 DEF Good
<1> QED BY <1>7, <1>9, <1>16 DEF T, y, h

(* START_REQ: a session without a handshake takes an id nobody has. *)
LEMMA FreshGood ==
    ASSUME NEW act, NEW cch, Good(sess, act, cch, known),
           NEW n \in Obj, "HANDSHAKE_DONE" \notin sess[n].pflags,
           NEW q \in Session, SessionOK(q),
           \A p \in Obj : sess[p].id # q.id
    PROVE  Good([sess EXCEPT ![n] = q], act, cch, known)
<1> DEFINE T == [sess EXCEPT ![n] = q]
<1>1. sess \in [Obj -> Session] /\ \A o \in Obj : SessionOK(sess[o])
  BY DEF Good, Sound
<1>2. T \in [Obj -> Session] /\ T[n] = q /\ \A o \in Obj \ {n} : T[o] = sess[o]
  BY <1>1
<1>3. ~Reg(sess[n])
  BY <1>1 DEF SessionOK, Reg
<1> HIDE DEF T
<1>4. Sound(T)
  BY <1>1, <1>2 DEF Sound
<1>5. Holds(T, act) /\ Holds(T, cch)
  BY <1>2 DEF Good, Holds, Table
<1>6. Heir(T)
  BY <1>2 DEF Good, Heir
<1>7. \A i \in known : \E o \in Obj : T[o].id = i /\ Owes(T[o])
  BY <1>2, <1>3 DEF Good, Owes
<1>8. Good(T, act, cch, known)
  BY <1>4, <1>5, <1>6, <1>7 DEF Good
<1> QED BY <1>8 DEF T

-----------------------------------------------------------------------------
(* The timer lists. *)

(* Counting the timers down gives a list of timers. *)
LEMMA ElapsedType == ASSUME NEW lim \in Nat, NEW q \in Seq(Timer(lim)) PROVE Elapsed(q) \in Seq(Timer(lim))
<1>1. Elapsed(q) = [k \in 1..Len(q) |-> [q[k] EXCEPT !.left = IF @ > 0 THEN @ - 1 ELSE 0]]
  BY DEF Elapsed
<1>2. \A k \in 1..Len(q) : [q[k] EXCEPT !.left = IF @ > 0 THEN @ - 1 ELSE 0] \in Timer(lim)
  <2> TAKE k \in 1..Len(q)
  <2>1. q[k] \in Timer(lim)
    OBVIOUS
  <2> QED BY <2>1 DEF Timer
<1>3. Len(q) \in Nat
  OBVIOUS
<1> QED BY <1>1, <1>2, <1>3, IsASeq

(* What tick() leaves of a list of timers is a list of timers. *)
LEMMA RestType == ASSUME NEW lim, NEW q \in Seq(Timer(lim)) PROVE Rest(q) \in Seq(Timer(lim))
<1>1. Len(q) \in Nat
  OBVIOUS
<1>2. IsFiniteSet(1..Len(q)) /\ Cardinality(1..Len(q)) = Len(q)
  BY <1>1, FS_Interval, SMTT(30)
<1>3. Expired(q) \subseteq 1..Len(q)
  BY DEF Expired
<1>4. Cardinality(Expired(q)) \in Nat /\ Cardinality(Expired(q)) <= Len(q)
  BY <1>2, <1>3, FS_Subset, FS_CardinalityType
<1> QED BY <1>1, <1>4, SubSeqProperties DEF Rest

(* The primed inductive invariant, in the form the proofs use. *)
LEMMA IndInvNext ==
    IndInv' <=> Good(sess', actived', cache', known') /\ Lists'
  BY DEF IndInv, Good, Lists, TypeOK, SessionsOK, TableOK, OneHeir, HasRegistrant,
         Registrant, Sound, Holds, Heir, Owes, Reg, Table

-----------------------------------------------------------------------------
(* The actions.  Each keeps the invariant: GoodNext, and the lists their types. *)

Keeps == GoodNext /\ idle' \in Seq(Timer(FirstIdle)) /\ ticked' \in BOOLEAN /\ running' \in BOOLEAN

(* A step that keeps every part keeps the inductive invariant. *)
LEMMA KeepsInv == ASSUME Keeps PROVE IndInv'
  BY IndInvNext DEF Keeps, GoodNext, Lists

(* A step of one session that evolves and keeps its registration. *)
LEMMA OneSessionKeeps ==
    ASSUME IndInv, NEW o \in Obj, NEW q, Evolves(sess[o], q), Reg(sess[o]) => Reg(q),
           sess' = [sess EXCEPT ![o] = q], UNCHANGED tables,
           idle' \in Seq(Timer(FirstIdle)), UNCHANGED <<ticked, running>>
    PROVE  Keeps
<1>1. Good(sess, actived, cache, known) /\ Lists
  BY IndInvGood
<1>2. Good(sess', actived, cache, known)
  BY <1>1, ReplaceGood
<1> QED BY <1>1, <1>2 DEF Keeps, GoodNext, Lists, tables

(* Accepting a connection, or failing to. *)
LEMMA AcceptKeeps ==
    ASSUME IndInv, NEW o \in Obj, Accept(o) \/ AcceptBusy(o) \/ AcceptFails(o)
    PROVE  Keeps
<1>1. Good(sess, actived, cache, known) /\ Lists
  BY IndInvGood
<1>2. sess[o] \in Session /\ SessionOK(sess[o]) /\ sess[o].uv = "none"
  BY <1>1 DEF Good, Sound, Accept, AcceptBusy, AcceptFails
<1>3. sess[o].id = NoId /\ "RECONNECTED" \notin sess[o].flags
        /\ "HANDSHAKE_DONE" \notin sess[o].pflags /\ ~Reg(sess[o])
  BY <1>2 DEF SessionOK, Reg
<1>4. ASSUME NEW a \in {Accepted, [Accepted EXCEPT !.uv = "broken"]}
      PROVE  /\ a \in Session /\ SessionOK(a) /\ a.id = NoId
             /\ "RECONNECTED" \notin a.flags
  <2>1. PICK u \in {"open", "broken"} :
          a = [id |-> NoId, router |-> DefaultRouter, owner |-> TRUE, flags |-> {"HAS_FD"},
               pflags |-> {}, why |-> "final", uv |-> u]
    BY DEF Accepted, NoSession
  <2> QED
    BY <2>1 DEF Session, SessionFlag, ProtoFlag, Reason, UvStage, SessionOK
<1>5. ASSUME NEW a \in {Accepted, [Accepted EXCEPT !.uv = "broken"]}
      PROVE  Evolves(sess[o], a) /\ Evolves(sess[o], Close(a, FALSE, TRUE))
  <2>1. a \in Session /\ SessionOK(a) /\ a.id = NoId /\ "RECONNECTED" \notin a.flags
    BY <1>4
  <2>2. Evolves(a, Close(a, FALSE, TRUE))
    BY <2>1, CloseEvolves
  <2> QED BY <1>3, <2>1, <2>2 DEF Evolves
<1>6. CASE Accept(o)
  <2>1. [s |-> o, left |-> FirstIdle] \in Timer(FirstIdle)
    BY TimeoutTypes DEF Timer
  <2>2. idle' \in Seq(Timer(FirstIdle))
    BY <1>1, <1>6, <2>1, AppendProperties DEF Accept, Lists
  <2> QED BY <1>3, <1>5, <1>6, <2>2, OneSessionKeeps DEF Accept
<1>7. CASE AcceptBusy(o) \/ AcceptFails(o)
  <2>1. idle' \in Seq(Timer(FirstIdle))
    BY <1>1, <1>7 DEF AcceptBusy, AcceptFails, Lists
  <2> QED BY <1>3, <1>5, <1>7, <2>1, OneSessionKeeps DEF AcceptBusy, AcceptFails
<1> QED BY <1>6, <1>7

(* The completion of a write. *)
LEMMA WriteDoneKeeps ==
    ASSUME IndInv, NEW o \in Obj, WriteDone(o) PROVE Keeps
<1>1. Good(sess, actived, cache, known) /\ Lists
  BY IndInvGood
<1>2. sess[o] \in Session /\ SessionOK(sess[o])
  BY <1>1 DEF Good, Sound
<1>3. CASE sess' = [sess EXCEPT ![o].pflags = @ \ {"WRITING"}] /\ UNCHANGED tables
  <2> DEFINE q == [sess[o] EXCEPT !.pflags = @ \ {"WRITING"}]
  <2>1. sess' = [sess EXCEPT ![o] = q]
    BY <1>3
  <2>2. Evolves(sess[o], q) /\ (Reg(sess[o]) => Reg(q))
    BY <1>2 DEF Evolves, SessionOK, Session, Reg
  <2> HIDE DEF q
  <2>3. idle' \in Seq(Timer(FirstIdle)) /\ UNCHANGED <<ticked, running>>
    BY <1>1 DEF WriteDone, Lists
  <2> QED BY <1>3, <2>1, <2>2, <2>3, OneSessionKeeps
<1>4. CASE OnClose(o, [sess EXCEPT ![o] = Drained(@)])
  <2> DEFINE q == Drained(sess[o])
  <2>1. Evolves(sess[o], q) /\ (Reg(sess[o]) => Reg(q))
    <3> DEFINE c == [sess[o] EXCEPT !.pflags = (@ \ {"WRITING"}) \cup {"CLOSED"}]
    <3>1. /\ c \in Session /\ SessionOK(c) /\ c.id = sess[o].id /\ c.flags = sess[o].flags
          /\ "HANDSHAKE_DONE" \in sess[o].pflags <=> "HANDSHAKE_DONE" \in c.pflags
      BY <1>2 DEF SessionOK, Session, ProtoFlag
    <3>2. q \in {c, Shutdown(c)}
      BY DEF Drained
    <3> HIDE DEF c, q
    <3>3. /\ Shutdown(c) \in Session /\ Shutdown(c).id = c.id /\ Shutdown(c).flags = c.flags
          /\ Shutdown(c).pflags = c.pflags /\ (Shutdown(c).uv = "none" <=> c.uv = "none")
      BY <3>1 DEF Shutdown, Session, UvStage
    <3> QED BY <3>1, <3>2, <3>3 DEF Evolves, SessionOK, Reg
  <2>2. OnClose(o, [sess EXCEPT ![o] = q])
    BY <1>4
  <2> HIDE DEF q
  <2>3. Good([sess EXCEPT ![o] = q], actived, cache, known)
    BY <1>1, <2>1, ReplaceGood
  <2>4. GoodNext
    BY <1>1, <2>2, <2>3, OnCloseGood DEF Lists
  <2> QED BY <1>1, <2>4 DEF Keeps, WriteDone, Lists
<1> QED BY <1>3, <1>4 DEF WriteDone

(* The completion of a shutdown. *)
LEMMA OnEvtClosedKeeps ==
    ASSUME IndInv, NEW o \in Obj, OnEvtClosed(o) PROVE Keeps
<1> DEFINE q == [Without(sess[o], {"CLOSING_FD"}) EXCEPT !.uv = "closed"]
<1>1. Good(sess, actived, cache, known) /\ Lists
  BY IndInvGood
<1>2. sess[o] \in Session /\ SessionOK(sess[o]) /\ sess[o].uv = "shutdown"
  BY <1>1 DEF Good, Sound, OnEvtClosed
<1>3. Evolves(sess[o], q) /\ (Reg(sess[o]) => Reg(q))
  BY <1>2 DEF Evolves, SessionOK, Session, SessionFlag, UvStage, Without, Reg
<1>4. sess' = [sess EXCEPT ![o] = q] /\ UNCHANGED <<tables, idle, ticked, running>>
  BY DEF OnEvtClosed
<1> HIDE DEF q
<1> QED BY <1>1, <1>3, <1>4, OneSessionKeeps DEF Lists

(* The start of a session: session::init_new_session and perhaps its activation. *)
LEMMA StartReqKeeps ==
    ASSUME IndInv, NEW o \in Obj, StartReq(o) PROVE Keeps
<1>1. Good(sess, actived, cache, known) /\ Lists
  BY IndInvGood
<1>2. PICK i \in Ids, plain \in BOOLEAN, P \in PostResults :
        LET S == [sess EXCEPT ![o].id = i, ![o].router = DefaultRouter,
                              ![o].flags = @ \cup {"INITED"},
                              ![o].pflags = @ \cup {"WRITING"}
                                 \cup (IF plain THEN {"HANDSHAKE_DONE"} ELSE {})]
        IN  /\ Handshaking(o)
            /\ \A p \in Obj : sess[p].id # i
            /\ \/ plain /\ Activate(o, S, actived, P) /\ UNCHANGED <<cache, rtimer>>
               \/ sess' = S /\ UNCHANGED tables
            /\ UNCHANGED <<idle, ticked, running>>
  BY ZenonT(30) DEF StartReq
<1> DEFINE q == [sess[o] EXCEPT !.id = i, !.router = DefaultRouter,
                                !.flags = @ \cup {"INITED"},
                                !.pflags = @ \cup {"WRITING"}
                                   \cup (IF plain THEN {"HANDSHAKE_DONE"} ELSE {})]
           S == [sess EXCEPT ![o] = q]
<1>3. /\ \/ plain /\ Activate(o, S, actived, P) /\ UNCHANGED <<cache, rtimer>>
         \/ sess' = S /\ UNCHANGED tables
      /\ UNCHANGED <<idle, ticked, running>>
  BY <1>2
<1>4. /\ sess[o] \in Session /\ SessionOK(sess[o])
      /\ "HANDSHAKE_DONE" \notin sess[o].pflags /\ sess[o].uv = "open"
  BY <1>1, <1>2 DEF Good, Sound, Handshaking, Receiving, Reading
<1>5. /\ q.id = i /\ q.uv = "open"
      /\ q.flags = sess[o].flags \cup {"INITED"}
      /\ q.pflags = sess[o].pflags \cup {"WRITING"}
                      \cup (IF plain THEN {"HANDSHAKE_DONE"} ELSE {})
      /\ q \in Session
  BY <1>4 DEF Session, SessionFlag, ProtoFlag
<1>6. SessionOK(q) /\ "RECONNECTED" \notin q.flags
  BY <1>4, <1>5 DEF SessionOK
<1> HIDE DEF q
<1>7. Good(S, actived, cache, known)
  BY <1>1, <1>2, <1>4, <1>5, <1>6, FreshGood
<1>8. S[o] = q
  BY <1>1 DEF Good, Sound
<1> HIDE DEF S
<1>9. GoodNext
  <2>1. CASE sess' = S /\ UNCHANGED tables
    BY <1>1, <1>7, <2>1 DEF GoodNext, tables, Lists
  <2>2. CASE plain /\ Activate(o, S, actived, P) /\ UNCHANGED <<cache, rtimer>>
    <3>1. "HANDSHAKE_DONE" \in q.pflags
      BY <1>5, <2>2
    <3>2. Good(S, actived, cache', known)
      BY <1>7, <2>2
    <3>3. S[o].id \in Ids /\ "HANDSHAKE_DONE" \in S[o].pflags /\ "RECONNECTED" \notin S[o].flags
      BY <1>5, <1>6, <1>8, <3>1
    <3>4. Good(sess', actived', cache', known')
      BY <2>2, <3>2, <3>3, ActivateGood
    <3> QED BY <1>1, <2>2, <3>4 DEF GoodNext, Lists
  <2> QED BY <1>3, <2>1, <2>2
<1> QED BY <1>1, <1>3, <1>9 DEF Keeps, Lists

(* The end of an encrypted handshake activates the session. *)
LEMMA HandshakeDoneKeeps ==
    ASSUME IndInv, NEW o \in Obj, HandshakeDone(o) PROVE Keeps
<1> DEFINE q == [sess[o] EXCEPT !.pflags = @ \cup {"HANDSHAKE_DONE"}]
           S == [sess EXCEPT ![o] = q]
<1>1. Good(sess, actived, cache, known) /\ Lists
  BY IndInvGood
<1>2. PICK P \in PostResults : Activate(o, S, actived, P)
  BY DEF HandshakeDone
<1>3. /\ sess[o] \in Session /\ SessionOK(sess[o])
      /\ "HANDSHAKE_DONE" \notin sess[o].pflags /\ "INITED" \in sess[o].flags
      /\ sess[o].uv = "open"
  BY <1>1 DEF Good, Sound, HandshakeDone, Handshaking, Receiving, Reading
<1>4. /\ Evolves(sess[o], q) /\ (Reg(sess[o]) => Reg(q))
      /\ q.id \in Ids /\ "HANDSHAKE_DONE" \in q.pflags /\ "RECONNECTED" \notin q.flags
  BY <1>3 DEF Evolves, SessionOK, Session, ProtoFlag, Reg
<1> HIDE DEF q
<1>5. UNCHANGED <<cache, rtimer, idle, ticked, running>>
  BY DEF HandshakeDone
<1>6. Good(S, actived, cache', known)
  BY <1>1, <1>4, <1>5, ReplaceGood
<1>7. S[o] = q
  BY <1>1 DEF Good, Sound
<1> HIDE DEF S
<1>8. Good(sess', actived', cache', known')
  BY <1>2, <1>4, <1>6, <1>7, ActivateGood
<1> QED BY <1>1, <1>5, <1>8 DEF Keeps, GoodNext, Lists

(* The steps in which the protocol closes itself. *)
LEMMA ProtoClosesKeeps ==
    ASSUME IndInv, NEW o \in Obj, HandshakeFails(o) \/ ClientCloses(o) PROVE Keeps
<1>1. Good(sess, actived, cache, known) /\ Lists
  BY IndInvGood
<1>2. CASE HandshakeFails(o)
  <2> DEFINE q == [sess[o] EXCEPT !.pflags = @ \cup {"HANDSHAKE_DONE"}]
  <2>1. PICK kick \in BOOLEAN : ProtoCloses(o, [sess EXCEPT ![o] = q], "final", kick)
    BY <1>2 DEF HandshakeFails
  <2>2. sess[o] \in Session /\ SessionOK(sess[o]) /\ sess[o].uv = "open"
    BY <1>1, <1>2 DEF Good, Sound, HandshakeFails, Handshaking, Receiving, Reading
  <2>3. Evolves(sess[o], q) /\ (Reg(sess[o]) => Reg(q))
    BY <2>2 DEF Evolves, SessionOK, Session, ProtoFlag, Reg
  <2> HIDE DEF q
  <2>4. Good([sess EXCEPT ![o] = q], actived, cache, known)
    BY <1>1, <2>3, ReplaceGood
  <2>5. GoodNext
    BY <1>1, <2>1, <2>4, ProtoClosesGood DEF Lists, Reason
  <2> QED BY <1>1, <1>2, <2>5 DEF Keeps, HandshakeFails, Lists
<1>3. CASE ClientCloses(o)
  <2>1. GoodNext
    BY <1>1, <1>3, ProtoClosesGood DEF ClientCloses, Lists
  <2> QED BY <1>1, <1>3, <2>1 DEF Keeps, ClientCloses, Lists
<1> QED BY <1>2, <1>3

(* The steps of the socket's read callbacks. *)
LEMMA ReadKeeps ==
    ASSUME IndInv, NEW o \in Obj, BadRead(o) \/ ReadError(o) \/ Answer(o) \/ AllocRead(o)
    PROVE  Keeps
<1>1. Good(sess, actived, cache, known) /\ Lists
  BY IndInvGood
<1>2. sess[o] \in Session /\ SessionOK(sess[o])
  BY <1>1 DEF Good, Sound
<1>3. CASE BadRead(o)
  <2>1. actived \in Table /\ cache \in Table
    BY <1>1 DEF Good, Holds
  <2>2. PICK P \in PostResults : /\ sess' = CloseAll(sess, {o}, FALSE, P)
                                 /\ known' = known \ Removed(sess, {o}, FALSE, P)
    BY <1>3 DEF BadRead
  <2>3. UNCHANGED <<actived, cache, rtimer, idle, ticked, running>>
    BY <1>3 DEF BadRead
  <2>4. Good(sess', actived', cache', known')
    BY <1>1, <2>1, <2>2, <2>3, CloseAllGood
  <2> QED BY <1>1, <2>3, <2>4 DEF Keeps, GoodNext, Lists
<1>4. CASE ReadError(o)
  <2>1. sess[o].id \in Ids
    BY <1>4 DEF ReadError, MgrFinds, Find
  <2>2. GoodNext
    BY <1>1, <1>4, <2>1, MgrCloseGood DEF ReadError, Lists
  <2> QED BY <1>1, <1>4, <2>2 DEF Keeps, ReadError, Lists
<1>5. CASE Answer(o)
  <2> DEFINE q == [sess[o] EXCEPT !.pflags = @ \cup {"WRITING"}]
  <2>1. Evolves(sess[o], q) /\ (Reg(sess[o]) => Reg(q))
    BY <1>2 DEF Evolves, SessionOK, Session, ProtoFlag, Reg
  <2>2. sess' = [sess EXCEPT ![o] = q] /\ UNCHANGED <<tables, idle, ticked, running>>
    BY <1>5 DEF Answer
  <2> HIDE DEF q
  <2> QED BY <1>1, <2>1, <2>2, OneSessionKeeps DEF Lists
<1>6. CASE AllocRead(o)
  <2>1. sess' = [sess EXCEPT ![o] = CloseFd(sess[o])]
          /\ UNCHANGED <<tables, idle, ticked, running>>
    BY <1>6 DEF AllocRead
  <2> QED BY <1>1, <1>2, <2>1, CloseFdEvolves, OneSessionKeeps DEF Lists
<1> QED BY <1>3, <1>4, <1>5, <1>6

(* Reconnect and takeover. *)
LEMMA ResumeGood ==
    ASSUME IndInv, NEW n \in Obj, Handshaking(n),
           NEW x \in Obj, sess[x].id \in Ids, "HANDSHAKE_DONE" \in sess[x].pflags,
           NEW xr, Evolves(sess[x], xr), Reg(sess[x]) => Reg(xr),
           xr.flags \cap {"HAS_FD", "RECONNECTED"} = {},
           NEW act \in Table, \A i \in Ids : act[i] \in {Nil, actived[i]},
           NEW P, Resume(n, x, xr, act, P)
    PROVE  Good(sess', actived', cache', known')
<1> DEFINE new == [Inherited(sess[n], xr)
                     EXCEPT !.pflags = @ \cup {"HANDSHAKE_DONE", "WRITING"}]
           S == [sess EXCEPT ![x] = Close(Handed(xr), FALSE, TRUE), ![n] = new]
<1>1. Good(sess, actived, cache, known)
  BY IndInvGood
<1>2. "HANDSHAKE_DONE" \notin sess[n].pflags /\ sess[n].uv = "open"
  BY DEF Handshaking, Receiving, Reading
<1>3. cache' = [cache EXCEPT ![xr.id] = Nil] /\ Activate(n, S, act, P)
  BY DEF Resume
<1>4. cache' \in Table /\ \A i \in Ids : cache'[i] \in {Nil, actived[i], cache[i]}
  BY <1>1, <1>3 DEF Good, Holds, Table
<1>5. Good(sess, act, cache', known)
  <2>1. Quiet(sess, sess)
    BY <1>1 DEF Good, Sound, Quiet, Evolves
  <2> QED BY <1>1, <1>4, <2>1, QuietGood
<1> HIDE DEF new
<1>6. /\ Good(S, act, cache', known)
      /\ new.id = sess[x].id
      /\ "HANDSHAKE_DONE" \in new.pflags /\ "RECONNECTED" \notin new.flags
  BY <1>2, <1>5, HandoverGood DEF new
<1>7. S[n] = new
  BY <1>1 DEF Good, Sound
<1> HIDE DEF S
<1> QED BY <1>3, <1>6, <1>7, ActivateGood

(* A client resumes a session that waits in the cache. *)
LEMMA ReconnectKeeps ==
    ASSUME IndInv, NEW n \in Obj, Reconnect(n) PROVE Keeps
<1>1. Good(sess, actived, cache, known) /\ Lists
  BY IndInvGood
<1>2. PICK i \in Ids, P \in PostResults :
        /\ Handshaking(n) /\ cache[i] # Nil
        /\ sess[cache[i]].flags \cap {"HAS_FD", "RECONNECTED"} = {}
        /\ Resume(n, cache[i], sess[cache[i]], actived, P)
  BY DEF Reconnect
<1>3. /\ cache[i] \in Obj /\ sess[cache[i]].id \in Ids
      /\ "HANDSHAKE_DONE" \in sess[cache[i]].pflags
      /\ actived \in Table
  BY <1>1, <1>2 DEF Good, Holds, Table
<1>4. Evolves(sess[cache[i]], sess[cache[i]])
  BY <1>1, <1>3 DEF Good, Sound, Evolves
<1>5. Good(sess', actived', cache', known')
  BY <1>2, <1>3, <1>4, ResumeGood
<1> QED BY <1>1, <1>5 DEF Keeps, GoodNext, Reconnect, Lists

(* A client resumes a session that is still active. *)
LEMMA TakeoverKeeps ==
    ASSUME IndInv, NEW n \in Obj, Takeover(n) PROVE Keeps
<1>1. Good(sess, actived, cache, known) /\ Lists
  BY IndInvGood
<1>2. PICK i \in Ids, P \in PostResults :
        /\ Handshaking(n) /\ actived[i] # Nil
        /\ "RECONNECTED" \notin sess[actived[i]].flags
        /\ Resume(n, actived[i], Parked(sess[actived[i]]), [actived EXCEPT ![i] = Nil], P)
        /\ rtimer' = Append(rtimer, [s |-> actived[i], left |-> ReconnectTimeout])
        /\ UNCHANGED <<idle, ticked, running>>
  BY DEF Takeover
<1> DEFINE x == actived[i]
           xr == Parked(sess[x])
           act == [actived EXCEPT ![i] = Nil]
<1>3. /\ x \in Obj /\ sess[x].id \in Ids /\ "HANDSHAKE_DONE" \in sess[x].pflags
      /\ sess[x] \in Session /\ SessionOK(sess[x])
  BY <1>1, <1>2 DEF Good, Holds, Table, Sound
<1>4. /\ Evolves(sess[x], xr) /\ (Reg(sess[x]) => Reg(xr))
      /\ "HAS_FD" \notin xr.flags
  BY <1>3, ParkedEvolves
<1>5. xr.flags \cap {"HAS_FD", "RECONNECTED"} = {}
  BY <1>2, <1>4 DEF Evolves
<1>6. act \in Table /\ \A j \in Ids : act[j] \in {Nil, actived[j]}
  BY <1>1 DEF Good, Holds, Table
<1>7. Handshaking(n) /\ Resume(n, x, xr, act, P)
  BY <1>2
<1>8. [s |-> x, left |-> ReconnectTimeout] \in Timer(ReconnectTimeout)
  BY <1>3, ConstantsAssumption DEF Timer
<1>9. rtimer' \in Seq(Timer(ReconnectTimeout))
  BY <1>1, <1>2, <1>8, AppendProperties DEF Lists
<1> HIDE DEF x, xr, act
<1>10. Good(sess', actived', cache', known')
  BY <1>3, <1>4, <1>5, <1>6, <1>7, ResumeGood
<1> QED BY <1>1, <1>2, <1>9, <1>10 DEF Keeps, GoodNext, Lists

(* A reconnect that is refused. *)
LEMMA RefusedKeeps ==
    ASSUME IndInv, NEW n \in Obj, ReconnectRefused(n) \/ TakeoverRefused(n) PROVE Keeps
<1> DEFINE q == [sess[n] EXCEPT !.pflags = @ \cup {"HANDSHAKE_DONE", "CLOSING", "WRITING"},
                                !.why = "resumable"]
<1>1. Good(sess, actived, cache, known) /\ Lists
  BY IndInvGood
<1>2. sess[n] \in Session /\ SessionOK(sess[n]) /\ sess[n].uv = "open"
  BY <1>1 DEF Good, Sound, ReconnectRefused, TakeoverRefused, Handshaking, Receiving, Reading
<1>3. Evolves(sess[n], q) /\ (Reg(sess[n]) => Reg(q))
  BY <1>2 DEF Evolves, SessionOK, Session, ProtoFlag, Reason, Reg
<1>4. Refused(n, sess) = [sess EXCEPT ![n] = q]
  BY <1>1 DEF Refused, Good, Sound
<1> HIDE DEF q
<1>5. CASE ReconnectRefused(n)
  BY <1>1, <1>3, <1>4, <1>5, OneSessionKeeps DEF ReconnectRefused, Lists
<1>6. CASE TakeoverRefused(n)
  <2>0. Good([sess EXCEPT ![n] = q], actived, cache, known)
    BY <1>1, <1>3, ReplaceGood
  <2>1. Good(Refused(n, sess), actived, cache, known)
    BY <1>4, <2>0
  <2>2. GoodNext
    BY <1>1, <1>6, <2>1, MgrDropGood DEF TakeoverRefused, Lists
  <2> QED BY <1>1, <1>6, <2>2 DEF Keeps, TakeoverRefused, Lists
<1> QED BY <1>5, <1>6

(* A server or an operator kicks a session. *)
LEMMA KickoffKeeps ==
    ASSUME IndInv, NEW i \in Ids, Kickoff(i) PROVE Keeps
<1>1. Good(sess, actived, cache, known) /\ Lists
  BY IndInvGood
<1>2. GoodNext
  BY <1>1, MgrCloseGood DEF Kickoff, Lists
<1> QED BY <1>1, <1>2 DEF Keeps, Kickoff, Lists

(* Data pushed to active sessions, some of which exceed a limit. *)
LEMMA PushKeeps ==
    ASSUME IndInv, NEW T, Push(T) PROVE Keeps
<1>1. Good(sess, actived, cache, known) /\ Lists
  BY IndInvGood
<1>2. PICK over \in SUBSET T, P \in PostResults :
        LET open == {o \in T : /\ "HAS_FD" \in sess[o].flags
                               /\ "CLOSING" \notin sess[o].flags}
            S == [o \in Obj |-> IF o \in open /\ "CLOSING" \notin sess[o].pflags
                                THEN [sess[o] EXCEPT !.pflags = @ \cup {"WRITING"}]
                                ELSE sess[o]]
        IN  /\ sess' = CloseAll(S, over, FALSE, P)
            /\ known' = known \ Removed(S, over, FALSE, P)
            /\ UNCHANGED <<actived, cache, rtimer, idle, ticked, running>>
  BY DEF Push
<1> DEFINE w(o) == [sess[o] EXCEPT !.pflags = @ \cup {"WRITING"}]
           open == {o \in T : "HAS_FD" \in sess[o].flags /\ "CLOSING" \notin sess[o].flags}
           S == [o \in Obj |-> IF o \in open /\ "CLOSING" \notin sess[o].pflags
                               THEN w(o) ELSE sess[o]]
<1>3. /\ sess' = CloseAll(S, over, FALSE, P)
      /\ known' = known \ Removed(S, over, FALSE, P)
      /\ UNCHANGED <<actived, cache, rtimer, idle, ticked, running>>
  BY <1>2
<1>4. ASSUME NEW o \in Obj
      PROVE  Evolves(sess[o], S[o]) /\ (Reg(sess[o]) => Reg(S[o]))
  <2>1. sess[o] \in Session /\ SessionOK(sess[o])
    BY <1>1 DEF Good, Sound
  <2>2. Evolves(sess[o], w(o)) /\ (Reg(sess[o]) => Reg(w(o)))
    BY <2>1 DEF Evolves, SessionOK, Session, ProtoFlag, Reg
  <2>3. Evolves(sess[o], sess[o])
    BY <2>1 DEF Evolves
  <2>4. S[o] \in {w(o), sess[o]}
    OBVIOUS
  <2> HIDE DEF S, w
  <2> QED BY <2>2, <2>3, <2>4
<1>5. S \in [Obj -> Session]
  <2>1. S = [o \in Obj |-> S[o]]
    OBVIOUS
  <2>2. \A o \in Obj : S[o] \in Session
    BY <1>4 DEF Evolves
  <2> HIDE DEF S
  <2> QED BY <2>1, <2>2
<1>6. Quiet(sess, S)
  BY <1>4, <1>5 DEF Quiet
<1>7. actived \in Table /\ cache \in Table
  BY <1>1 DEF Good, Holds
<1> HIDE DEF S
<1>8. Good(S, actived, cache, known)
  BY <1>1, <1>4, <1>6, <1>7, QuietGood
<1>9. Good(sess', actived', cache', known')
  BY <1>3, <1>7, <1>8, CloseAllGood
<1> QED BY <1>1, <1>3, <1>9 DEF Keeps, GoodNext, Lists

(* Data pushed to a session that is not active. *)
LEMMA PushMissingKeeps ==
    ASSUME IndInv, NEW i \in Ids, PushMissing(i) PROVE Keeps
<1>1. Good(sess, actived, cache, known) /\ Lists
  BY IndInvGood
<1>2. known' \subseteq known /\ UNCHANGED <<sess, actived, cache, rtimer, idle, ticked, running>>
  BY DEF PushMissing
<1>3. Good(sess', actived', cache', known')
  BY <1>1, <1>2 DEF Good
<1> QED BY <1>1, <1>2, <1>3 DEF Keeps, GoodNext, Lists

(* A server sets the router of a session. *)
LEMMA SetRouterKeeps ==
    ASSUME IndInv, NEW i \in Ids, SetRouter(i) PROVE Keeps
<1>1. Good(sess, actived, cache, known) /\ Lists
  BY IndInvGood
<1>2. PICK r \in Routers : /\ actived[i] # Nil
                           /\ sess' = [sess EXCEPT ![actived[i]].router = r]
                           /\ UNCHANGED <<tables, idle, ticked, running>>
  BY DEF SetRouter
<1> DEFINE o == actived[i]
           q == [sess[o] EXCEPT !.router = r]
<1>3. o \in Obj /\ sess[o] \in Session /\ SessionOK(sess[o])
  BY <1>1, <1>2 DEF Good, Holds, Table, Sound
<1>4. Evolves(sess[o], q) /\ (Reg(sess[o]) => Reg(q))
  BY <1>3 DEF Evolves, SessionOK, Session, Reg
<1>5. sess' = [sess EXCEPT ![o] = q]
  BY <1>2
<1> HIDE DEF o, q
<1> QED BY <1>1, <1>2, <1>3, <1>4, <1>5, OneSessionKeeps DEF Lists

(* The clock reaches the next second. *)
LEMMA SecondKeeps == ASSUME IndInv, Second PROVE Keeps
<1>1. Good(sess, actived, cache, known) /\ Lists
  BY IndInvGood
<1>2. rtimer' \in Seq(Timer(ReconnectTimeout)) /\ idle' \in Seq(Timer(FirstIdle))
  BY <1>1, TimeoutTypes, ElapsedType DEF Second, Lists
<1> QED BY <1>1, <1>2 DEF Keeps, GoodNext, Second, Lists

(* session_manager::tick. *)
LEMMA TickKeeps == ASSUME IndInv, Tick PROVE Keeps
<1>1. Good(sess, actived, cache, known) /\ Lists
  BY IndInvGood
<1> DEFINE E == {rtimer[k].s : k \in Expired(rtimer)}
           S == [o \in Obj |-> IF o \in E THEN Without(sess[o], {"WAIT_RECONNECT"})
                               ELSE sess[o]]
           cch == [i \in Ids |-> IF \E o \in E : sess[o].id = i THEN Nil ELSE cache[i]]
<1>2. PICK P \in PostResults :
        /\ sess' = CloseAll(CloseAll(S, E, TRUE, P),
                            IdleSessions(CloseAll(S, E, TRUE, P)), FALSE, P)
        /\ known' = known \ Removed(S, E, TRUE, P)
  BY DEF Tick
<1>3. /\ ticked' = TRUE /\ cache' = cch /\ rtimer' = Rest(rtimer) /\ idle' = Rest(idle)
      /\ UNCHANGED <<actived, running>>
  BY DEF Tick
<1>4. ASSUME NEW o \in Obj
      PROVE  Evolves(sess[o], S[o]) /\ (Reg(sess[o]) => Reg(S[o]))
  <2>1. sess[o] \in Session /\ SessionOK(sess[o])
    BY <1>1 DEF Good, Sound
  <2>2. /\ Evolves(sess[o], Without(sess[o], {"WAIT_RECONNECT"}))
        /\ Reg(sess[o]) => Reg(Without(sess[o], {"WAIT_RECONNECT"}))
    BY <2>1, FlagsEvolve
  <2>3. Evolves(sess[o], sess[o])
    BY <2>1 DEF Evolves
  <2>4. S[o] \in {Without(sess[o], {"WAIT_RECONNECT"}), sess[o]}
    OBVIOUS
  <2> HIDE DEF S
  <2> QED BY <2>2, <2>3, <2>4
<1>5. S \in [Obj -> Session]
  <2>1. S = [o \in Obj |-> S[o]]
    OBVIOUS
  <2>2. \A o \in Obj : S[o] \in Session
    BY <1>4 DEF Evolves
  <2> HIDE DEF S
  <2> QED BY <2>1, <2>2
<1>6. Quiet(sess, S)
  BY <1>4, <1>5 DEF Quiet
<1>7. /\ actived \in Table /\ cch \in Table
      /\ \A i \in Ids : cch[i] \in {Nil, actived[i], cache[i]}
  BY <1>1 DEF Good, Holds, Table
<1> HIDE DEF S, E, cch
<1>8. Good(S, actived, cch, known)
  BY <1>1, <1>4, <1>6, <1>7, QuietGood
<1> DEFINE T == CloseAll(S, E, TRUE, P)
           K == known \ Removed(S, E, TRUE, P)
           F == IdleSessions(T)
<1>9. Good(T, actived, cch, K)
  BY <1>7, <1>8, CloseAllGood
<1>10. sess' = CloseAll(T, F, FALSE, P) /\ known' = K
  BY <1>2
<1> HIDE DEF T, K, F
<1>11. Removed(T, F, FALSE, P) = {}
  BY DEF Removed, F, IdleSessions, Notifies
<1>12. Good(CloseAll(T, F, FALSE, P), actived, cch, K \ Removed(T, F, FALSE, P))
  BY <1>7, <1>9, CloseAllGood
<1>13. K \ Removed(T, F, FALSE, P) = K
  BY <1>11
<1>14. Good(sess', actived', cache', known')
  BY <1>3, <1>10, <1>12, <1>13
<1>15. rtimer' \in Seq(Timer(ReconnectTimeout)) /\ idle' \in Seq(Timer(FirstIdle))
  BY <1>1, <1>3, RestType DEF Lists
<1> QED BY <1>1, <1>3, <1>14, <1>15 DEF Keeps, GoodNext, Lists

(* session_manager::reset. *)
LEMMA StopKeeps == ASSUME IndInv, Stop PROVE Keeps
<1>1. Good(sess, actived, cache, known) /\ Lists
  BY IndInvGood
<1>2. PICK P, C : /\ sess' = CloseAll(sess, C, FALSE, P)
                  /\ known' = known \ Removed(sess, C, FALSE, P)
  BY DEF Stop
<1>3. /\ actived' = [i \in Ids |-> Nil] /\ cache' = [i \in Ids |-> Nil]
      /\ rtimer' = <<>> /\ idle' = <<>> /\ running' = FALSE /\ ticked' = ticked
  BY DEF Stop
<1>4. /\ actived' \in Table /\ cache' \in Table
      /\ \A i \in Ids : actived'[i] \in {Nil, actived[i]}
      /\ \A i \in Ids : cache'[i] \in {Nil, actived[i], cache[i]}
  BY <1>3 DEF Table
<1>5. Good(sess', actived', cache', known')
  BY <1>1, <1>2, <1>4, CloseAllGood
<1>6. rtimer' \in Seq(Timer(ReconnectTimeout)) /\ idle' \in Seq(Timer(FirstIdle))
  BY <1>3
<1> QED BY <1>1, <1>3, <1>5, <1>6 DEF Keeps, GoodNext, Lists

-----------------------------------------------------------------------------
(* The theorems. *)

(* The gateway starts in the inductive invariant. *)
LEMMA InitInv == ASSUME Init PROVE IndInv
<1>1. NoSession \in Session /\ SessionOK(NoSession) /\ NoSession.flags = {}
        /\ NoSession.id = NoId
  BY DEF NoSession, Session, SessionFlag, ProtoFlag, Reason, UvStage, SessionOK
<1>2. sess \in [Obj -> Session] /\ \A o \in Obj : sess[o] = NoSession
  BY <1>1 DEF Init
<1>3. TypeOK
  <2>1. actived \in [Ids -> Obj \cup {Nil}] /\ cache \in [Ids -> Obj \cup {Nil}]
    BY DEF Init
  <2>2. rtimer \in Seq(Timer(ReconnectTimeout)) /\ idle \in Seq(Timer(FirstIdle))
    BY DEF Init
  <2>3. ticked \in BOOLEAN /\ running \in BOOLEAN /\ known \subseteq Ids
    BY DEF Init
  <2> QED BY <1>2, <2>1, <2>2, <2>3 DEF TypeOK
<1>4. SessionsOK
  BY <1>1, <1>2 DEF SessionsOK
<1>5. TableOK(actived) /\ TableOK(cache)
  BY DEF Init, TableOK
<1>6. OneHeir
  BY <1>1, <1>2, ConstantsAssumption DEF OneHeir
<1>7. HasRegistrant
  BY DEF Init, HasRegistrant
<1> QED BY <1>3, <1>4, <1>5, <1>6, <1>7 DEF IndInv

(* Every step of the gateway keeps the inductive invariant. *)
LEMMA StepInv == ASSUME IndInv, [Next]_vars PROVE IndInv'
<1>1. CASE UNCHANGED vars
  <2>1. IndInv <=> Good(sess, actived, cache, known) /\ Lists
    BY IndInvGood
  <2> QED BY <1>1, <2>1, IndInvNext DEF vars, Lists
<1>2. ASSUME NEW o \in Obj, Accept(o) \/ AcceptBusy(o) \/ AcceptFails(o)
      PROVE  IndInv'
  BY <1>2, AcceptKeeps, KeepsInv
<1>3. ASSUME NEW o \in Obj, WriteDone(o) PROVE IndInv'
  BY <1>3, WriteDoneKeeps, KeepsInv
<1>4. ASSUME NEW o \in Obj, OnEvtClosed(o) PROVE IndInv'
  BY <1>4, OnEvtClosedKeeps, KeepsInv
<1>5. ASSUME NEW o \in Obj, StartReq(o) PROVE IndInv'
  BY <1>5, StartReqKeeps, KeepsInv
<1>6. ASSUME NEW o \in Obj, HandshakeDone(o) PROVE IndInv'
  BY <1>6, HandshakeDoneKeeps, KeepsInv
<1>7. ASSUME NEW o \in Obj, HandshakeFails(o) \/ ClientCloses(o) PROVE IndInv'
  BY <1>7, ProtoClosesKeeps, KeepsInv
<1>8. ASSUME NEW o \in Obj, BadRead(o) \/ ReadError(o) \/ Answer(o) \/ AllocRead(o)
      PROVE  IndInv'
  BY <1>8, ReadKeeps, KeepsInv
<1>9. ASSUME NEW o \in Obj, Reconnect(o) PROVE IndInv'
  BY <1>9, ReconnectKeeps, KeepsInv
<1>10. ASSUME NEW o \in Obj, Takeover(o) PROVE IndInv'
  BY <1>10, TakeoverKeeps, KeepsInv
<1>11. ASSUME NEW o \in Obj, ReconnectRefused(o) \/ TakeoverRefused(o) PROVE IndInv'
  BY <1>11, RefusedKeeps, KeepsInv
<1>12. ASSUME NEW i \in Ids, Kickoff(i) PROVE IndInv'
  BY <1>12, KickoffKeeps, KeepsInv
<1>13. ASSUME NEW i \in Ids, PushMissing(i) PROVE IndInv'
  BY <1>13, PushMissingKeeps, KeepsInv
<1>14. ASSUME NEW i \in Ids, SetRouter(i) PROVE IndInv'
  BY <1>14, SetRouterKeeps, KeepsInv
<1>15. ASSUME NEW T \in SUBSET Active, Push(T) PROVE IndInv'
  BY <1>15, PushKeeps, KeepsInv
<1>16. CASE Second
  BY <1>16, SecondKeeps, KeepsInv
<1>17. CASE Tick
  BY <1>17, TickKeeps, KeepsInv
<1>18. CASE Stop
  BY <1>18, StopKeeps, KeepsInv
<1> QED
  BY <1>1, <1>2, <1>3, <1>4, <1>5, <1>6, <1>7, <1>8, <1>9, <1>10, <1>11, <1>12,
     <1>13, <1>14, <1>15, <1>16, <1>17, <1>18
  DEF Next

(* IndInv holds in every state: no handler, in whatever order clients, servers   *)
(* and timers call it, breaks the books the gateway keeps on its session ids.    *)
THEOREM Invariance == Spec => []IndInv
<1>1. Init => IndInv
  BY InitInv
<1>2. IndInv /\ [Next]_vars => IndInv'
  BY StepInv
<1> QED BY <1>1, <1>2, PTL DEF Spec

(* The state always has its type. *)
THEOREM TypeCorrect == Spec => []TypeOK
<1>1. IndInv => TypeOK
  BY DEF IndInv
<1> QED BY <1>1, Invariance, PTL

(* Every id the servers believe connected has exactly one session left that owes *)
(* them its "remove": a registration is neither lost nor doubled by reconnects,  *)
(* takeovers, kicks, timeouts and failed posts.                                  *)
THEOREM RegistrationUnique == Spec => []OneRegistrant
<1>1. IndInv => OneRegistrant
  BY DEF IndInv, OneRegistrant, HasRegistrant, OneHeir, Registrant, TypeOK
<1> QED BY <1>1, Invariance, PTL

(* No session id ever has two open connections. *)
THEOREM ConnectionUnique == Spec => []OneConnection
<1>1. IndInv => OneConnection
  BY DEF IndInv, OneConnection, SessionsOK, SessionOK, OneHeir
<1> QED BY <1>1, Invariance, PTL

-----------------------------------------------------------------------------
(* The router of an id. *)

\* a session that goes on with its id and its router
Stays(r, q) ==
    /\ q \in Session
    /\ q.id = r.id /\ q.router = r.router
    /\ "RECONNECTED" \in q.flags <=> "RECONNECTED" \in r.flags
    /\ "HANDSHAKE_DONE" \in r.pflags => "HANDSHAKE_DONE" \in q.pflags

Sessions == [Obj -> Session]

AllStay(S, T) == T \in Sessions /\ \A o \in Obj : Stays(S[o], T[o])

\* the session that has id i at present
Has(r, i) == r.id = i /\ "RECONNECTED" \notin r.flags /\ "HANDSHAKE_DONE" \in r.pflags

\* who has id i in T has the router of who has it in S
Follows(S, T, i) ==
    \A o \in Obj : Has(S[o], i) => \E p \in Obj : Has(T[p], i) /\ T[p].router = S[o].router

(* If all sessions stay, so does the router of an id.                          *)
LEMMA StayFollows ==
    ASSUME NEW S, NEW T, AllStay(S, T), NEW i PROVE Follows(S, T, i)
  BY DEF AllStay, Stays, Has, Follows

(* Sessions that stay and stay again, stay.                                    *)
LEMMA StayAgain ==
    ASSUME NEW S, NEW T, NEW U, AllStay(S, T), AllStay(T, U) PROVE AllStay(S, U)
  BY DEF AllStay, Stays

(* Followed and then staying.                                                  *)
LEMMA FollowsStay ==
    ASSUME NEW S, NEW T, NEW U, NEW i, Follows(S, T, i), AllStay(T, U)
    PROVE  Follows(S, U, i)
<1> SUFFICES ASSUME NEW o \in Obj, Has(S[o], i)
             PROVE  \E p \in Obj : Has(U[p], i) /\ U[p].router = S[o].router
  BY DEF Follows
<1>1. PICK p \in Obj : Has(T[p], i) /\ T[p].router = S[o].router
  BY DEF Follows
<1>2. Stays(T[p], U[p])
  BY DEF AllStay
<1> QED BY <1>1, <1>2 DEF Stays, Has

(* Flags other than those of the handover.                                     *)
LEMMA FlagsStay ==
    ASSUME NEW r \in Session,
           NEW F \in SUBSET {"WAIT_RECONNECT", "CLOSING", "REGISTERED", "CLOSING_FD"}
    PROVE  Stays(r, With(r, F)) /\ Stays(r, Without(r, F))
  BY DEF With, Without, Stays, Session, SessionFlag

(* close_fd keeps id and router.                                               *)
LEMMA CloseFdStays ==
    ASSUME NEW r \in Session PROVE Stays(r, CloseFd(r))
<1>1. CASE "CLOSING_FD" \in r.flags \/ "HAS_FD" \notin r.flags
  BY <1>1 DEF CloseFd, Stays
<1>2. CASE "CLOSING_FD" \notin r.flags /\ "HAS_FD" \in r.flags
  <2> DEFINE p == ProtoClose(r)
             q == [p EXCEPT !.flags = (@ \ {"HAS_FD"}) \cup {"CLOSING_FD"},
                            !.owner = FALSE]
  <2>1. /\ p \in Session /\ p.id = r.id /\ p.flags = r.flags /\ p.router = r.router
        /\ "HANDSHAKE_DONE" \in r.pflags => "HANDSHAKE_DONE" \in p.pflags
    BY DEF ProtoClose, Session, ProtoFlag
  <2>2. /\ q \in Session /\ q.id = r.id /\ q.router = r.router
        /\ q.flags = (r.flags \ {"HAS_FD"}) \cup {"CLOSING_FD"}
        /\ q.pflags = p.pflags
    BY <2>1 DEF Session, SessionFlag
  <2>3. /\ Shutdown(q) \in Session /\ Shutdown(q).id = q.id /\ Shutdown(q).router = q.router
        /\ Shutdown(q).flags = q.flags /\ Shutdown(q).pflags = q.pflags
    BY <2>2 DEF Shutdown, Session, UvStage
  <2>4. CloseFd(r) = IF "CLOSED" \in p.pflags THEN Shutdown(q) ELSE q
    BY <1>2 DEF CloseFd
  <2> HIDE DEF p, q
  <2>5. CloseFd(r) \in {q, Shutdown(q)}
    BY <2>4
  <2> QED
    BY <1>2, <2>1, <2>2, <2>3, <2>5 DEF Stays
<1> QED BY <1>1, <1>2

(* So does close_with_manager.                                                 *)
LEMMA CloseStays ==
    ASSUME NEW r \in Session, NEW mgr, NEW ok PROVE Stays(r, Close(r, mgr, ok))
<1> DEFINE n == IF Notifies(r) /\ CanPost(r, mgr) /\ ok
                THEN Without(r, {"REGISTERED"}) ELSE r
           c == With(n, {"CLOSING"})
<1>1. n \in Session /\ Stays(r, n)
  <2>1. Stays(r, Without(r, {"REGISTERED"})) /\ Stays(r, r)
    BY FlagsStay DEF Stays
  <2>2. n \in {r, Without(r, {"REGISTERED"})}
    OBVIOUS
  <2> HIDE DEF n
  <2> QED BY <2>1, <2>2 DEF Stays
<1>2. Close(r, mgr, ok) = IF "CLOSING" \in n.flags THEN n ELSE CloseFd(c)
  BY DEF Close
<1> HIDE DEF n
<1>3. Stays(n, c) /\ c \in Session
  BY <1>1, FlagsStay DEF Stays
<1>4. Stays(c, CloseFd(c))
  BY <1>3, CloseFdStays
<1> HIDE DEF c
<1> QED BY <1>1, <1>2, <1>3, <1>4 DEF Stays

(* ... and the closing of several sessions.                                    *)
LEMMA CloseAllStays ==
    ASSUME NEW S \in Sessions, NEW C, NEW mgr, NEW P
    PROVE  AllStay(S, CloseAll(S, C, mgr, P))
<1> DEFINE T == CloseAll(S, C, mgr, P)
<1>1. ASSUME NEW o \in Obj PROVE Stays(S[o], T[o])
  <2>1. S[o] \in Session
    BY DEF Sessions
  <2>2. CASE o \in C
    <3> DEFINE ok == o \in P
    <3>1. T[o] = Close(S[o], mgr, ok)
      BY <2>2 DEF CloseAll
    <3> HIDE DEF ok, T
    <3> QED BY <2>1, <3>1, CloseStays
  <2>3. CASE o \notin C
    <3>1. T[o] = S[o]
      BY <2>3 DEF CloseAll
    <3> QED BY <2>1, <3>1 DEF Stays
  <2> QED BY <2>2, <2>3
<1>2. T \in Sessions
  <2>1. T = [o \in Obj |-> T[o]]
    BY DEF CloseAll
  <2> QED BY <1>1, <2>1 DEF Stays, Sessions
<1> QED BY <1>1, <1>2 DEF AllStay

(* A step of one session.                                                      *)
LEMMA ReplaceStays ==
    ASSUME NEW S \in Sessions, NEW o \in Obj, NEW q, Stays(S[o], q)
    PROVE  AllStay(S, [S EXCEPT ![o] = q])
<1>1. q \in Session
  BY DEF Stays
<1>2. [S EXCEPT ![o] = q] \in Sessions
  BY <1>1 DEF Sessions
<1>3. ASSUME NEW p \in Obj PROVE Stays(S[p], [S EXCEPT ![o] = q][p])
  <2>1. CASE p = o
    BY <2>1 DEF Sessions
  <2>2. CASE p # o
    <3>1. [S EXCEPT ![o] = q][p] = S[p] /\ S[p] \in Session
      BY <2>2 DEF Sessions
    <3> QED BY <3>1 DEF Stays
  <2> QED BY <2>1, <2>2
<1> QED BY <1>2, <1>3 DEF AllStay

(* session_manager::close.                                                     *)
LEMMA MgrCloseStays ==
    ASSUME NEW S \in Sessions, actived \in Table, cache \in Table,
           NEW i \in Ids, NEW allow, NEW P, MgrClose(i, allow, S, P)
    PROVE  AllStay(S, sess')
<1>1. CASE actived[i] # Nil /\ MgrPark(i, S)
  <2> DEFINE o == actived[i]
  <2>1. o \in Obj /\ S[o] \in Session
    BY <1>1 DEF Table, Sessions
  <2>2. sess' = [S EXCEPT ![o] = Parked(S[o])]
    BY <1>1 DEF MgrPark
  <2> DEFINE w == With(S[o], {"WAIT_RECONNECT"})
  <2>3. Stays(S[o], w) /\ w \in Session
    BY <2>1, FlagsStay DEF Stays
  <2>4. Parked(S[o]) = CloseFd(w)
    BY DEF Parked
  <2> HIDE DEF w, o
  <2>5. Stays(w, CloseFd(w))
    BY <2>3, CloseFdStays
  <2>6. Stays(S[o], Parked(S[o]))
    BY <2>3, <2>4, <2>5 DEF Stays
  <2> QED BY <2>1, <2>2, <2>6, ReplaceStays
<1>2. CASE MgrDrop(i, S, P)
  BY <1>2, CloseAllStays DEF MgrDrop
<1>3. CASE cache[i] # Nil /\ MgrEvict(i, S, P)
  <2> DEFINE o == cache[i]
             T == CloseAll(S, {o}, FALSE, P)
  <2>1. AllStay(S, T)
    BY CloseAllStays
  <2>2. sess' = [T EXCEPT ![o] = Without(T[o], {"WAIT_RECONNECT"})]
    BY <1>3 DEF MgrEvict
  <2> HIDE DEF T
  <2>3. o \in Obj /\ T \in Sessions /\ T[o] \in Session
    BY <1>3, <2>1 DEF Table, Sessions, AllStay
  <2> HIDE DEF o
  <2>4. Stays(T[o], Without(T[o], {"WAIT_RECONNECT"}))
    BY <2>3, FlagsStay
  <2>5. AllStay(T, sess')
    BY <2>2, <2>3, <2>4, ReplaceStays
  <2> QED BY <2>1, <2>5, StayAgain
<1> QED BY <1>1, <1>2, <1>3 DEF MgrClose

(* The close callback.                                                         *)
LEMMA OnCloseStays ==
    ASSUME NEW S \in Sessions, actived \in Table, cache \in Table,
           NEW o \in Obj, OnClose(o, S)
    PROVE  AllStay(S, sess')
<1> DEFINE allow == S[o].why = "resumable"
<1>1. PICK P \in PostResults :
        \/ sess' = S
        \/ MgrFinds(S[o].id, allow) /\ MgrClose(S[o].id, allow, S, P)
        \/ sess' = CloseAll(S, {o}, FALSE, P)
  BY DEF OnClose
<1>2. CASE sess' = S
  BY <1>2 DEF AllStay, Stays, Sessions
<1>3. CASE MgrFinds(S[o].id, allow) /\ MgrClose(S[o].id, allow, S, P)
  <2>1. S[o].id \in Ids
    BY <1>3 DEF MgrFinds, Find
  <2> QED BY <1>3, <2>1, MgrCloseStays
<1>4. CASE sess' = CloseAll(S, {o}, FALSE, P)
  BY <1>4, CloseAllStays
<1> QED BY <1>1, <1>2, <1>3, <1>4

(* The protocol closes itself.                                                 *)
LEMMA ProtoClosesStays ==
    ASSUME NEW S \in Sessions, actived \in Table, cache \in Table,
           NEW o \in Obj, NEW why \in Reason, NEW kick \in BOOLEAN,
           ProtoCloses(o, S, why, kick)
    PROVE  AllStay(S, sess')
<1> DEFINE r == [S[o] EXCEPT !.why = why,
                   !.pflags = @ \cup {"CLOSING"} \cup (IF kick THEN {"WRITING"} ELSE {})]
           c == [r EXCEPT !.pflags = @ \cup {"CLOSED"}]
<1>1. S[o] \in Session
  BY DEF Sessions
<1>2. Stays(S[o], r)
  BY <1>1 DEF Stays, Session, ProtoFlag
<1>3. Stays(S[o], c)
  BY <1>1 DEF Stays, Session, ProtoFlag
<1>4. sess' = [S EXCEPT ![o] = r] \/ OnClose(o, [S EXCEPT ![o] = c])
  BY DEF ProtoCloses
<1> HIDE DEF r, c
<1>5. AllStay(S, [S EXCEPT ![o] = r]) /\ AllStay(S, [S EXCEPT ![o] = c])
  BY <1>2, <1>3, ReplaceStays
<1>6. CASE OnClose(o, [S EXCEPT ![o] = c])
  <2> DEFINE T == [S EXCEPT ![o] = c]
  <2>1. T \in Sessions /\ AllStay(S, T) /\ OnClose(o, T)
    BY <1>5, <1>6 DEF AllStay
  <2> HIDE DEF T
  <2>2. AllStay(T, sess')
    BY <2>1, OnCloseStays
  <2> QED BY <2>1, <2>2, StayAgain
<1> QED BY <1>4, <1>5, <1>6

(* active_session.                                                             *)
LEMMA ActivateStays ==
    ASSUME NEW S \in Sessions, NEW act, NEW o \in Obj, NEW P, Activate(o, S, act, P)
    PROVE  AllStay(S, sess')
<1> DEFINE C == IF act[S[o].id] = Nil THEN {} ELSE {act[S[o].id]}
           T == CloseAll(S, C, FALSE, P)
<1>1. PICK over \in BOOLEAN :
        LET U == IF over THEN [T EXCEPT ![o] = Limited(@)] ELSE T
        IN  sess' = U \/ sess' = [U EXCEPT ![o] = With(@, {"REGISTERED"})]
  BY DEF Activate
<1> DEFINE
           U == IF over THEN [T EXCEPT ![o] = Limited(T[o])] ELSE T
<1>2. AllStay(S, T)
  BY CloseAllStays
<1>3. sess' = U \/ sess' = [U EXCEPT ![o] = With(U[o], {"REGISTERED"})]
  BY <1>1
<1> HIDE DEF T
<1>4. T \in Sessions /\ T[o] \in Session
  BY <1>2 DEF AllStay, Sessions
<1>5. AllStay(T, [T EXCEPT ![o] = Limited(T[o])])
  <2> DEFINE c == With(T[o], {"CLOSING"})
  <2>1. Stays(T[o], c)
    BY <1>4, FlagsStay
  <2>2. Limited(T[o]) = CloseFd(c)
    BY DEF Limited
  <2> HIDE DEF c
  <2>3. Stays(c, CloseFd(c))
    BY <2>1, CloseFdStays DEF Stays
  <2>4. Stays(T[o], CloseFd(c))
    BY <2>1, <2>3 DEF Stays
  <2> QED BY <1>4, <2>2, <2>4, ReplaceStays
<1>6. AllStay(S, U)
  <2>1. CASE over
    BY <1>2, <1>5, <2>1, StayAgain
  <2>2. CASE ~over
    BY <1>2, <2>2
  <2> QED BY <2>1, <2>2
<1> HIDE DEF U
<1>7. U \in Sessions /\ U[o] \in Session
  BY <1>6 DEF AllStay, Sessions
<1>8. AllStay(U, [U EXCEPT ![o] = With(U[o], {"REGISTERED"})])
  BY <1>7, FlagsStay, ReplaceStays
<1> QED BY <1>3, <1>6, <1>8, StayAgain


(* init_reconnect: n takes the id over together with the router of x, and x is  *)
(* marked.                                                                     *)
LEMMA ResumeFollows ==
    ASSUME sess \in Sessions, NEW n \in Obj, Handshaking(n),
           NEW x \in Obj, "HANDSHAKE_DONE" \in sess[x].pflags,
           "RECONNECTED" \notin sess[x].flags, sess[x].id \in Ids,
           "RECONNECTED" \notin sess[n].flags,
           NEW xr, Stays(sess[x], xr), NEW act, NEW P, Resume(n, x, xr, act, P),
           NEW i, \A o, p \in Obj : Has(sess[o], i) /\ Has(sess[p], i) => o = p
    PROVE  Follows(sess, sess', i)
<1> DEFINE new == [Inherited(sess[n], xr)
                     EXCEPT !.pflags = @ \cup {"HANDSHAKE_DONE", "WRITING"}]
           old == Close(Handed(xr), FALSE, TRUE)
           S == [sess EXCEPT ![x] = old, ![n] = new]
<1>1. sess[n] \in Session /\ sess[x] \in Session /\ n # x
  BY DEF Sessions, Handshaking
<1>2. /\ xr \in Session /\ xr.id = sess[x].id /\ xr.router = sess[x].router
  BY DEF Stays
<1>3. /\ new \in Session /\ new.id = sess[x].id /\ new.router = sess[x].router
      /\ "HANDSHAKE_DONE" \in new.pflags /\ "RECONNECTED" \notin new.flags
  <2> DEFINE h == Inherited(sess[n], xr)
  <2>1. /\ h \in Session /\ h.id = xr.id /\ h.router = xr.router
        /\ h.flags = sess[n].flags \cup {"INITED"} \cup (xr.flags \cap {"REGISTERED"})
    BY <1>1, <1>2 DEF Inherited, Session, SessionFlag
  <2>2. "RECONNECTED" \notin h.flags
    BY <2>1
  <2> HIDE DEF h
  <2>3. /\ new \in Session /\ new.id = h.id /\ new.router = h.router /\ new.flags = h.flags
        /\ "HANDSHAKE_DONE" \in new.pflags
    BY <2>1 DEF Session, ProtoFlag, h
  <2> HIDE DEF new
  <2> QED BY <1>2, <2>1, <2>2, <2>3
<1>4. old \in Session
  <2>1. Handed(xr) \in Session
    BY <1>2 DEF Handed, With, Without, Session, SessionFlag
  <2> QED BY <2>1, CloseStays DEF Stays
<1>5. Activate(n, S, act, P)
  BY DEF Resume
<1> HIDE DEF new, old
<1>6. /\ S \in Sessions /\ S[n] = new
      /\ \A o \in Obj \ {n, x} : S[o] = sess[o]
  BY <1>1, <1>3, <1>4 DEF Sessions
<1>7. AllStay(S, sess')
  BY <1>5, <1>6, ActivateStays
<1> HIDE DEF S
<1>8. Follows(sess, S, i)
  <2> SUFFICES ASSUME NEW o \in Obj, Has(sess[o], i)
               PROVE  \E p \in Obj : Has(S[p], i) /\ S[p].router = sess[o].router
    BY DEF Follows
  <2>1. o # n
    BY DEF Has, Handshaking
  <2>2. CASE o = x
    <3>1. Has(S[n], i) /\ S[n].router = sess[o].router
      BY <1>3, <1>6, <2>2 DEF Has
    <3> QED BY <3>1
  <2>3. CASE o # x
    BY <1>6, <2>1, <2>3
  <2> QED BY <2>2, <2>3
<1> QED BY <1>7, <1>8, FollowsStay

(* Every step but a change of an id's router leaves the id's session its router, *)
(* or hands it on with the id.                                                 *)
LEMMA StepFollows ==
    ASSUME IndInv, [Next]_vars, NEW i \in Ids, ~SetRouter(i)
    PROVE  Follows(sess, sess', i)
<1>1. /\ sess \in Sessions /\ actived \in Table /\ cache \in Table
      /\ \A o \in Obj : sess[o] \in Session /\ SessionOK(sess[o])
      /\ Holds(sess, actived) /\ Holds(sess, cache)
  BY IndInvGood DEF Good, Sound, Holds, Sessions
<1> DEFINE Stay == AllStay(sess, sess')
<1>2. ASSUME Stay PROVE Follows(sess, sess', i)
  BY <1>2, StayFollows
<1>3. ASSUME NEW o \in Obj, NEW q, Stays(sess[o], q), sess' = [sess EXCEPT ![o] = q]
      PROVE  Follows(sess, sess', i)
  BY <1>1, <1>3, <1>2, ReplaceStays
<1>4. CASE UNCHANGED vars
  BY <1>1, <1>2, <1>4 DEF vars, AllStay, Stays, Sessions
<1>5. ASSUME NEW o \in Obj, Accept(o) \/ AcceptBusy(o) \/ AcceptFails(o)
      PROVE  Follows(sess, sess', i)
  <2>1. ~Has(sess[o], i)
    BY <1>1, <1>5 DEF Accept, AcceptBusy, AcceptFails, SessionOK, Has
  <2>2. \A p \in Obj \ {o} : sess'[p] = sess[p]
    BY <1>1, <1>5 DEF Accept, AcceptBusy, AcceptFails, Sessions
  <2> QED BY <2>1, <2>2 DEF Follows
<1>6. ASSUME NEW o \in Obj, WriteDone(o) PROVE Follows(sess, sess', i)
  <2>1. CASE sess' = [sess EXCEPT ![o].pflags = @ \ {"WRITING"}]
    <3> DEFINE q == [sess[o] EXCEPT !.pflags = @ \ {"WRITING"}]
    <3>1. Stays(sess[o], q)
      BY <1>1 DEF Stays, Session
    <3>2. sess' = [sess EXCEPT ![o] = q]
      BY <2>1
    <3> HIDE DEF q
    <3> QED BY <1>3, <3>1, <3>2
  <2>2. CASE OnClose(o, [sess EXCEPT ![o] = Drained(@)])
    <3> DEFINE q == Drained(sess[o])
               c == [sess[o] EXCEPT !.pflags = (@ \ {"WRITING"}) \cup {"CLOSED"}]
    <3>1. Stays(sess[o], c)
      BY <1>1 DEF Stays, Session, ProtoFlag
    <3>2. q \in {c, Shutdown(c)}
      BY DEF Drained
    <3>3. OnClose(o, [sess EXCEPT ![o] = q])
      BY <2>2
    <3> HIDE DEF c, q
    <3>4. Stays(c, Shutdown(c))
      BY <3>1 DEF Shutdown, Stays, Session, UvStage
    <3>5. Stays(sess[o], q)
      BY <3>1, <3>2, <3>4 DEF Stays
    <3> DEFINE S == [sess EXCEPT ![o] = q]
    <3>6. AllStay(sess, S)
      BY <1>1, <3>5, ReplaceStays
    <3> HIDE DEF S
    <3>7. AllStay(S, sess')
      BY <1>1, <3>3, <3>6, OnCloseStays DEF S, AllStay
    <3> QED BY <1>2, <3>6, <3>7, StayAgain
  <2> QED BY <1>6, <2>1, <2>2 DEF WriteDone
<1>7. ASSUME NEW o \in Obj, OnEvtClosed(o) PROVE Follows(sess, sess', i)
  <2> DEFINE w == Without(sess[o], {"CLOSING_FD"})
             q == [w EXCEPT !.uv = "closed"]
  <2>1. Stays(sess[o], w)
    BY <1>1, FlagsStay
  <2>2. sess' = [sess EXCEPT ![o] = q]
    BY <1>7 DEF OnEvtClosed
  <2> HIDE DEF w
  <2>3. Stays(sess[o], q)
    BY <2>1 DEF Stays, Session, UvStage
  <2> HIDE DEF q
  <2> QED BY <1>3, <2>2, <2>3
<1>8. ASSUME NEW o \in Obj, StartReq(o) PROVE Follows(sess, sess', i)
  <2>1. PICK j \in Ids, plain \in BOOLEAN, P \in PostResults :
          LET S == [sess EXCEPT ![o].id = j, ![o].router = DefaultRouter,
                                ![o].flags = @ \cup {"INITED"},
                                ![o].pflags = @ \cup {"WRITING"}
                                   \cup (IF plain THEN {"HANDSHAKE_DONE"} ELSE {})]
          IN  Handshaking(o) /\ (sess' = S \/ Activate(o, S, actived, P))
    BY <1>8, ZenonT(30) DEF StartReq
  <2> DEFINE q == [sess[o] EXCEPT !.id = j, !.router = DefaultRouter,
                                  !.flags = @ \cup {"INITED"},
                                  !.pflags = @ \cup {"WRITING"}
                                     \cup (IF plain THEN {"HANDSHAKE_DONE"} ELSE {})]
             S == [sess EXCEPT ![o] = q]
  <2>2. Handshaking(o) /\ (sess' = S \/ Activate(o, S, actived, P))
    BY <2>1
  <2>3. q \in Session
    BY <1>1 DEF Session, SessionFlag, ProtoFlag
  <2> HIDE DEF q
  <2>4. S \in Sessions /\ \A p \in Obj \ {o} : S[p] = sess[p]
    BY <1>1, <2>3 DEF Sessions
  <2> HIDE DEF S
  <2>5. ~Has(sess[o], i)
    BY <2>2 DEF Has, Handshaking
  <2>6. Follows(sess, S, i)
    BY <2>4, <2>5 DEF Follows
  <2>7. CASE Activate(o, S, actived, P)
    BY <2>4, <2>6, <2>7, ActivateStays, FollowsStay
  <2> QED BY <2>2, <2>6, <2>7
<1>9. ASSUME NEW o \in Obj, Answer(o) PROVE Follows(sess, sess', i)
  <2> DEFINE q == [sess[o] EXCEPT !.pflags = @ \cup {"WRITING"}]
  <2>1. Stays(sess[o], q) /\ sess' = [sess EXCEPT ![o] = q]
    BY <1>1, <1>9 DEF Answer, Stays, Session, ProtoFlag
  <2> HIDE DEF q
  <2> QED BY <1>3, <2>1
<1>10. ASSUME NEW o \in Obj, HandshakeDone(o) \/ HandshakeFails(o)
       PROVE  Follows(sess, sess', i)
  <2> DEFINE q == [sess[o] EXCEPT !.pflags = @ \cup {"HANDSHAKE_DONE"}]
             S == [sess EXCEPT ![o] = q]
  <2>1. Stays(sess[o], q)
    BY <1>1 DEF Stays, Session, ProtoFlag
  <2>2. (\E P : Activate(o, S, actived, P)) \/ (\E kick \in BOOLEAN : ProtoCloses(o, S, "final", kick))
    BY <1>10 DEF HandshakeDone, HandshakeFails
  <2> HIDE DEF q
  <2>3. AllStay(sess, S)
    BY <1>1, <2>1, ReplaceStays
  <2> HIDE DEF S
  <2>4. AllStay(S, sess')
    BY <1>1, <2>2, <2>3, ActivateStays, ProtoClosesStays DEF AllStay, Reason
  <2> QED BY <1>2, <2>3, <2>4, StayAgain
<1>11. ASSUME NEW o \in Obj, ClientCloses(o) PROVE Follows(sess, sess', i)
  BY <1>1, <1>2, <1>11, ProtoClosesStays DEF ClientCloses
<1>12. ASSUME NEW o \in Obj, BadRead(o) PROVE Follows(sess, sess', i)
  <2>1. PICK P : sess' = CloseAll(sess, {o}, FALSE, P)
    BY <1>12 DEF BadRead
  <2> QED BY <1>1, <1>2, <2>1, CloseAllStays
<1>13. ASSUME NEW o \in Obj, ReadError(o) PROVE Follows(sess, sess', i)
  <2>1. PICK P : sess[o].id \in Ids /\ MgrClose(sess[o].id, TRUE, sess, P)
    BY <1>13 DEF ReadError, MgrFinds, Find
  <2> DEFINE yes == TRUE
  <2>2. MgrClose(sess[o].id, yes, sess, P)
    BY <2>1
  <2> HIDE DEF yes
  <2> QED BY <1>1, <1>2, <2>1, <2>2, MgrCloseStays
<1>14. ASSUME NEW o \in Obj, AllocRead(o) PROVE Follows(sess, sess', i)
  <2>1. sess' = [sess EXCEPT ![o] = CloseFd(sess[o])]
    BY <1>14 DEF AllocRead
  <2> QED BY <1>1, <1>3, <2>1, CloseFdStays
<1>15. \A o, p \in Obj : Has(sess[o], i) /\ Has(sess[p], i) => o = p
  BY IndInvGood DEF Good, Heir, Has
<1>16. ASSUME NEW o \in Obj, Handshaking(o) PROVE "RECONNECTED" \notin sess[o].flags
  BY <1>1, <1>16 DEF SessionOK, Handshaking
<1>17. ASSUME NEW n \in Obj, Reconnect(n) PROVE Follows(sess, sess', i)
  <2>1. PICK j \in Ids, P \in PostResults :
          /\ Handshaking(n) /\ cache[j] # Nil
          /\ sess[cache[j]].flags \cap {"HAS_FD", "RECONNECTED"} = {}
          /\ Resume(n, cache[j], sess[cache[j]], actived, P)
    BY <1>17 DEF Reconnect
  <2> DEFINE x == cache[j]
  <2>2. /\ x \in Obj /\ sess[x].id \in Ids /\ "HANDSHAKE_DONE" \in sess[x].pflags
        /\ "RECONNECTED" \notin sess[x].flags
    BY <1>1, <2>1 DEF Holds, Table
  <2>3. Stays(sess[x], sess[x])
    BY <1>1, <2>2 DEF Stays
  <2>4. Handshaking(n) /\ Resume(n, x, sess[x], actived, P)
    BY <2>1
  <2> HIDE DEF x
  <2> QED BY <1>1, <1>15, <1>16, <2>2, <2>3, <2>4, ResumeFollows
<1>18. ASSUME NEW n \in Obj, Takeover(n) PROVE Follows(sess, sess', i)
  <2>1. PICK j \in Ids, P \in PostResults :
          /\ Handshaking(n) /\ actived[j] # Nil
          /\ "RECONNECTED" \notin sess[actived[j]].flags
          /\ Resume(n, actived[j], Parked(sess[actived[j]]), [actived EXCEPT ![j] = Nil], P)
    BY <1>18 DEF Takeover
  <2> DEFINE x == actived[j]
             w == With(sess[x], {"WAIT_RECONNECT"})
             xr == Parked(sess[x])
             act == [actived EXCEPT ![j] = Nil]
  <2>2. /\ x \in Obj /\ sess[x].id \in Ids /\ "HANDSHAKE_DONE" \in sess[x].pflags
        /\ "RECONNECTED" \notin sess[x].flags
    BY <1>1, <2>1 DEF Holds, Table
  <2>3. Stays(sess[x], w) /\ w \in Session
    BY <1>1, <2>2, FlagsStay DEF Stays
  <2>4. xr = CloseFd(w)
    BY DEF Parked
  <2>5. Handshaking(n) /\ Resume(n, x, xr, act, P)
    BY <2>1
  <2> HIDE DEF x, w, xr, act
  <2>6. Stays(w, CloseFd(w))
    BY <2>3, CloseFdStays
  <2>7. Stays(sess[x], xr)
    BY <2>3, <2>4, <2>6 DEF Stays
  <2> QED BY <1>1, <1>15, <1>16, <2>2, <2>5, <2>7, ResumeFollows
<1>19. ASSUME NEW n \in Obj, ReconnectRefused(n) \/ TakeoverRefused(n)
       PROVE  Follows(sess, sess', i)
  <2> DEFINE q == [sess[n] EXCEPT !.pflags = @ \cup {"HANDSHAKE_DONE", "CLOSING", "WRITING"},
                                  !.why = "resumable"]
             S == [sess EXCEPT ![n] = q]
  <2>1. Stays(sess[n], q)
    BY <1>1 DEF Stays, Session, ProtoFlag, Reason
  <2>2. Refused(n, sess) = S
    BY <1>1 DEF Refused, Sessions
  <2> HIDE DEF q
  <2>3. AllStay(sess, S)
    BY <1>1, <2>1, ReplaceStays
  <2>4. sess' = S \/ \E j, P : sess' = CloseAll(S, {actived[j]}, FALSE, P)
    BY <1>19, <2>2 DEF ReconnectRefused, TakeoverRefused, MgrDrop
  <2> HIDE DEF S
  <2>5. CASE sess' = S
    BY <1>2, <2>3, <2>5
  <2>6. CASE \E j, P : sess' = CloseAll(S, {actived[j]}, FALSE, P)
    <3>1. AllStay(S, sess')
      BY <2>3, <2>6, CloseAllStays DEF AllStay
    <3> QED BY <1>2, <2>3, <3>1, StayAgain
  <2> QED BY <2>4, <2>5, <2>6
<1>20. ASSUME NEW j \in Ids, Kickoff(j) PROVE Follows(sess, sess', i)
  BY <1>1, <1>2, <1>20, MgrCloseStays DEF Kickoff
<1>21. ASSUME NEW j \in Ids, PushMissing(j) PROVE Follows(sess, sess', i)
  BY <1>1, <1>2, <1>21 DEF PushMissing, AllStay, Stays
<1>22. ASSUME NEW j \in Ids, SetRouter(j) PROVE Follows(sess, sess', i)
  <2>1. j # i
    BY <1>22
  <2>2. PICK r \in Routers : /\ actived[j] # Nil
                             /\ sess' = [sess EXCEPT ![actived[j]].router = r]
    BY <1>22 DEF SetRouter
  <2>3. ASSUME NEW o \in Obj, Has(sess[o], i) PROVE sess'[o] = sess[o]
    <3>1. o # actived[j]
      BY <1>1, <2>1, <2>2, <2>3 DEF Holds, Has
    <3> QED BY <1>1, <2>2, <3>1 DEF Sessions
  <2> QED BY <2>3 DEF Follows
<1>23. ASSUME NEW T, Push(T) PROVE Follows(sess, sess', i)
  <2> DEFINE w(o) == [sess[o] EXCEPT !.pflags = @ \cup {"WRITING"}]
             open == {o \in T : "HAS_FD" \in sess[o].flags /\ "CLOSING" \notin sess[o].flags}
             S == [o \in Obj |-> IF o \in open /\ "CLOSING" \notin sess[o].pflags
                                 THEN w(o) ELSE sess[o]]
  <2>1. PICK C, P : sess' = CloseAll(S, C, FALSE, P)
    BY <1>23 DEF Push
  <2>2. ASSUME NEW o \in Obj PROVE Stays(sess[o], S[o])
    <3>1. Stays(sess[o], w(o)) /\ Stays(sess[o], sess[o])
      BY <1>1 DEF Stays, Session, ProtoFlag
    <3>2. S[o] \in {w(o), sess[o]}
      OBVIOUS
    <3> HIDE DEF S, w
    <3> QED BY <3>1, <3>2
  <2>3. S \in Sessions
    <3>1. S = [o \in Obj |-> S[o]]
      OBVIOUS
    <3> HIDE DEF S
    <3> QED BY <2>2, <3>1 DEF Stays, Sessions
  <2> HIDE DEF S
  <2>4. AllStay(sess, S) /\ AllStay(S, sess')
    BY <2>1, <2>2, <2>3, CloseAllStays DEF AllStay
  <2> QED BY <1>2, <2>4, StayAgain
<1>24. CASE Second
  BY <1>1, <1>2, <1>24 DEF Second, AllStay, Stays
<1>25. CASE Tick
  <2> DEFINE E == {rtimer[k].s : k \in Expired(rtimer)}
             S == [o \in Obj |-> IF o \in E THEN Without(sess[o], {"WAIT_RECONNECT"})
                                 ELSE sess[o]]
  <2>1. PICK P, F : sess' = CloseAll(CloseAll(S, E, TRUE, P), F, FALSE, P)
    BY <1>25 DEF Tick
  <2>2. ASSUME NEW o \in Obj PROVE Stays(sess[o], S[o])
    <3>1. Stays(sess[o], Without(sess[o], {"WAIT_RECONNECT"})) /\ Stays(sess[o], sess[o])
      BY <1>1, FlagsStay DEF Stays
    <3>2. S[o] \in {Without(sess[o], {"WAIT_RECONNECT"}), sess[o]}
      OBVIOUS
    <3> HIDE DEF S
    <3> QED BY <3>1, <3>2
  <2>3. S \in Sessions
    <3>1. S = [o \in Obj |-> S[o]]
      OBVIOUS
    <3> HIDE DEF S
    <3> QED BY <2>2, <3>1 DEF Stays, Sessions
  <2> DEFINE T == CloseAll(S, E, TRUE, P)
  <2>4. sess' = CloseAll(T, F, FALSE, P)
    BY <2>1
  <2> HIDE DEF S, E
  <2>5. AllStay(S, T)
    BY <2>3, CloseAllStays
  <2> HIDE DEF T
  <2>6. AllStay(sess, S) /\ AllStay(T, sess')
    BY <2>2, <2>3, <2>4, <2>5, CloseAllStays DEF AllStay
  <2> QED BY <1>2, <2>5, <2>6, StayAgain
<1>26. CASE Stop
  <2>1. PICK P, C : sess' = CloseAll(sess, C, FALSE, P)
    BY <1>26 DEF Stop
  <2> QED BY <1>1, <1>2, <2>1, CloseAllStays
<1> QED BY <1>4, <1>5, <1>6, <1>7, <1>8, <1>9, <1>10, <1>11, <1>12, <1>13, <1>14, <1>17,
           <1>18, <1>19, <1>20, <1>21, <1>22, <1>23, <1>24, <1>25, <1>26 DEF Next

(* RouterOf in the sessions S.                                                  *)
RouterIn(S, i) == S[CHOOSE o \in Obj : /\ S[o].id = i
                                       /\ "REGISTERED" \in S[o].flags
                                       /\ "RECONNECTED" \notin S[o].flags].router

(* The router of an id is that of the one session that has it.                  *)
LEMMA RouterInHas ==
    ASSUME NEW S, NEW i, NEW o \in Obj, Has(S[o], i),
           \A p, q \in Obj : Has(S[p], i) /\ Has(S[q], i) => p = q,
           \A p \in Obj : "REGISTERED" \in S[p].flags => "HANDSHAKE_DONE" \in S[p].pflags,
           \E p \in Obj : /\ S[p].id = i /\ "REGISTERED" \in S[p].flags
                          /\ "RECONNECTED" \notin S[p].flags
    PROVE  RouterIn(S, i) = S[o].router
<1> DEFINE Is(p) == /\ S[p].id = i /\ "REGISTERED" \in S[p].flags
                    /\ "RECONNECTED" \notin S[p].flags
           c == CHOOSE p \in Obj : Is(p)
<1>1. \E p \in Obj : Is(p)
  OBVIOUS
<1>2. RouterIn(S, i) = S[c].router
  BY DEF RouterIn
<1>3. \A p \in Obj : Is(p) => Has(S[p], i)
  BY DEF Has
<1> HIDE DEF Is
<1>4. c \in Obj /\ Is(c)
  BY <1>1
<1> HIDE DEF c
<1>5. c = o
  BY <1>3, <1>4
<1> QED BY <1>2, <1>5

(* A step leaves every id its router.                                           *)
LEMMA RouterStep ==
    ASSUME IndInv, IndInv', [Next]_vars, NEW i \in known \cap known', ~SetRouter(i)
    PROVE  RouterOf(i)' = RouterOf(i)
<1>1. /\ i \in Ids
      /\ \A p, q \in Obj : Has(sess[p], i) /\ Has(sess[q], i) => p = q
      /\ \A p \in Obj : "REGISTERED" \in sess[p].flags => "HANDSHAKE_DONE" \in sess[p].pflags
      /\ \E p \in Obj : /\ sess[p].id = i /\ "REGISTERED" \in sess[p].flags
                         /\ "RECONNECTED" \notin sess[p].flags
  BY IndInvGood DEF Good, Sound, SessionOK, Heir, Has, Owes, Reg
<1>2. /\ \A p, q \in Obj : Has(sess'[p], i) /\ Has(sess'[q], i) => p = q
      /\ \A p \in Obj : "REGISTERED" \in sess'[p].flags => "HANDSHAKE_DONE" \in sess'[p].pflags
      /\ \E p \in Obj : /\ sess'[p].id = i /\ "REGISTERED" \in sess'[p].flags
                         /\ "RECONNECTED" \notin sess'[p].flags
  BY <1>1, IndInvNext DEF Good, Sound, SessionOK, Heir, Has, Owes, Reg
<1>3. PICK o \in Obj : Has(sess[o], i)
  BY <1>1 DEF Has
<1>4. PICK p \in Obj : Has(sess'[p], i) /\ sess'[p].router = sess[o].router
  BY <1>1, <1>3, StepFollows DEF Follows
<1>5. RouterOf(i) = RouterIn(sess, i) /\ RouterOf(i)' = RouterIn(sess', i)
  BY DEF RouterOf, RouterIn, Registrant
<1>6. RouterIn(sess, i) = sess[o].router
  BY <1>1, <1>3, RouterInHas
<1>7. RouterIn(sess', i) = sess'[p].router
  BY <1>2, <1>4, RouterInHas
<1> QED BY <1>4, <1>5, <1>6, <1>7

(* The router a server chose for a session stays with its id: init_reconnect     *)
(* hands it from session to session, and only a SetRouter message changes it.    *)
THEOREM RouterStays == Spec => RouterKept
<1>1. ASSUME IndInv, IndInv', [Next]_vars
      PROVE  [\A i \in known \cap known' : RouterOf(i)' = RouterOf(i) \/ SetRouter(i)]_vars
  BY <1>1, RouterStep
<1> QED BY <1>1, Invariance, PTL DEF Spec, RouterKept


=============================================================================
