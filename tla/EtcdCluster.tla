---------------------------- MODULE EtcdCluster ----------------------------
(***************************************************************************)
(* etcd_cluster.cpp, etcd_keepalive.cpp and the life of etcd_module.cpp:    *)
(* a process finds the members of an etcd cluster, logs in, keeps a lease   *)
(* alive and keeps the values of its keepalives in etcd under that lease.   *)
(*                                                                         *)
(* Everything of the client runs in callbacks of one loop, each to its end; *)
(* cl is its state and the operators below are its functions.  etcd is the  *)
(* server.  A put and a delete are answered in two steps, so that the        *)
(* answer may be late or lost after the server has done its part; what      *)
(* happens between the two steps of the other requests makes no difference.  *)
(* Whether an interval is over is a choice: the timers in D are due ("auth"  *)
(* is the one of authenticate without a token, the one of user_get with it). *)
(***************************************************************************)
EXTENDS Naturals, FiniteSets

CONSTANTS
    Keepalive,        \* objects of etcd_keepalive
    Boot,             \* those that etcd_module::init adds
    Path, PathOf,     \* the keys in etcd; each object's
    Under,            \* Under[p]: the keys that begin with p
    Host,             \* conf_.conf_hosts, and the members of the cluster
    MaxValue,         \* bound: set_value gives a keepalive the values 2..MaxValue
    Auth,             \* conf_.authorization is not empty
    Foreign, Nil,
    DeleteRetries,    \* how often a delete is tried
    AddWhileDeleting, \* a path may be used again while its delete request runs
    Rivals,           \* other processes take and leave keys
    MaxNet,           \* bounds on requests that fail because of the network,
    MaxHttp,          \* on requests the server fails to execute,
    MaxExpire,        \* on leases and tokens that expire while they are in use,
    MaxRefuse,        \* on times when libcurl refuses to start requests,
    MaxLate           \* on requests executed after the client has given them up

ASSUME ConstantsAssumption ==
    /\ Boot \subseteq Keepalive /\ PathOf \in [Keepalive -> Path]
    /\ \A j, k \in Boot : PathOf[j] = PathOf[k] => j = k  \* by_id, by_name, a tag each
    /\ Host # {} /\ Nil \notin Host
    /\ Under \in [Path -> SUBSET Path] /\ \A p \in Path : p \in Under[p]
    /\ {Auth, AddWhileDeleting, Rivals} \subseteq BOOLEAN
    /\ {MaxValue, DeleteRetries, MaxNet, MaxHttp, MaxExpire, MaxRefuse, MaxLate} \subseteq Nat
    /\ MaxValue > 0 /\ Foreign # Nil /\ {Foreign, Nil} \cap 1..MaxValue = {}

VARIABLES
    cl,      \* the client, see Client
    etcd,    \* the server: store, leases, last lease granted, valid token, late requests
    phase,   \* of the module: "init", "running", "stopping", "stopped"
    revoke,  \* the lease that cleanup_request_ revokes, or Nil
    faults   \* how many faults of each kind there were

vars == <<cl, etcd, phase, revoke, faults>>

First == 1          \* the value that the checker and set_value get
Value == First..MaxValue

MayRefuse == MaxRefuse > 0
MayLinger == MaxLate > 0

Timers == {"members", "lease"} \cup (IF Auth THEN {"auth"} ELSE {})

NoRpc == [op |-> "none"]
NoDel == [st |-> "none"]

NewKeepalive == [in |-> FALSE, value |-> First, changed |-> TRUE, data |-> FALSE,
                 fn |-> TRUE, run |-> FALSE, passed |-> FALSE, rpc |-> NoRpc]

Actors(c) == {k \in Keepalive : c.ka[k].in}

\* a request can be created
Can(c) == c.node # Nil /\ ~c.closing

\* ... and start() of it succeeds; libcurl refuses either every request of a callback or none
Starts(c) == Can(c) /\ ~c.refused

-----------------------------------------------------------------------------
(* etcd_keepalive *)

\* add_retry_keepalive: refused if it is in the list, which a set does not show
AddRetry(c, k) == IF c.closing THEN c ELSE [c EXCEPT !.retry = @ \cup {k}]

\* etcd_keepalive::process, which active() calls; a value whose put does not start
\* is not marked as changed any more
Process(c, k) ==
    LET r == c.ka[k]
        u == IF r.fn THEN r ELSE [r EXCEPT !.run = TRUE, !.passed = TRUE]
        get == ~u.run
        put == u.run /\ u.passed /\ u.changed
        w == [c EXCEPT !.ka[k] = u]
    IN  CASE r.rpc # NoRpc -> c
          [] r.rpc = NoRpc /\ get /\ Starts(c) ->
                [w EXCEPT !.ka[k].rpc = [op |-> "get", tok |-> c.token]]
          [] r.rpc = NoRpc /\ put /\ Can(c) /\ c.lease # 0 /\ c.refused ->
                AddRetry([w EXCEPT !.ka[k].changed = FALSE], k)
          [] r.rpc = NoRpc /\ put /\ Starts(c) /\ c.lease # 0 ->
                [w EXCEPT !.ka[k].changed = FALSE,
                          !.ka[k].rpc = [op |-> "put", tok |-> c.token, value |-> r.value,
                                         lease |-> c.lease, reply |-> "none"]]
          [] r.rpc = NoRpc /\ ~get /\ ~put -> w
          [] OTHER -> AddRetry(w, k)

\* etcd_keepalive::close
Closed(r, reset) ==
    [r EXCEPT !.rpc = NoRpc, !.changed = TRUE, !.data = @ /\ ~reset,
              !.run = FALSE, !.passed = FALSE, !.fn = FALSE]

\* reset_value_changed() and active() of every keepalive in S
ActiveAll(c, S) ==
    LET After(k) == Process([c EXCEPT !.ka[k].changed = TRUE], k)
    IN  [c EXCEPT !.ka = [k \in Keepalive |-> IF k \in S THEN After(k).ka[k] ELSE @[k]],
                  !.retry = @ \cup {k \in S : k \in After(k).retry}]

-----------------------------------------------------------------------------
(* The deletors of removed keepalives, one for each object. *)

\* remove_keepalive_path without delay
Sent(c, tries) ==
    CASE tries + 1 > DeleteRetries -> NoDel
      [] tries + 1 <= DeleteRetries /\ ~Starts(c) -> [st |-> "pending", tries |-> tries + 1]
      [] OTHER -> [st |-> "sent", tries |-> tries + 1, tok |-> c.token, host |-> c.node,
                   reply |-> "none"]

\* keepalive_deletors_ has one deletor of a path: another one of it is deleted
Dropped(c, p) ==
    [c EXCEPT !.del = [k \in Keepalive |-> IF PathOf[k] = p /\ @[k].st = "pending"
                                           THEN NoDel ELSE @[k]]]

RetryDeletors(c) ==
    [c EXCEPT !.del = [k \in Keepalive |-> IF @[k].st = "pending"
                                           THEN Sent(c, @[k].tries) ELSE @[k]]]

-----------------------------------------------------------------------------
(* etcd_cluster *)

\* Mutant of RetryPending: the list is not cleared for a lease.
RetryPending_NoReset(c) ==
    RetryDeletors(IF c.lease = 0 THEN c ELSE [c EXCEPT !.retry = {}])

\* retry_pending_actions: a keepalive that fails again while the list is walked is
\* refused, because it still is in the list, and then the list is cleared
RetryPending(c) ==
    RetryDeletors(IF c.lease = 0 THEN c ELSE [ActiveAll(c, c.retry) EXCEPT !.retry = {}])

\* set_lease
SetLease(c, l, force) ==
    CASE l = 0 -> [c EXCEPT !.lease = l]
      [] l # 0 /\ l = c.lease /\ ~force -> RetryPending(c)
      [] OTHER -> RetryPending(ActiveAll([c EXCEPT !.lease = l, !.retry = {}], Actors(c)))

\* create_request_lease_grant
CreateGrant(c) ==
    IF Starts(c) /\ c.enabled /\ c.rpc.lease = NoRpc
    THEN [c EXCEPT !.rpc.lease = [op |-> "grant", host |-> c.node]]
    ELSE c

\* create_request_lease_keepalive
CreateKeepalive(c) ==
    IF Starts(c) /\ c.enabled /\ c.rpc.lease = NoRpc /\ c.lease # 0
    THEN [c EXCEPT !.rpc.lease = [op |-> "keepalive", host |-> c.node]]
    ELSE c

\* create_request_member_update, of a host that hosts or conf_hosts has
CreateMembers(c, h) ==
    IF ~c.closing /\ ~c.refused /\ c.rpc.members = NoRpc
    THEN [c EXCEPT !.rpc.members = [op |-> "members", host |-> h]]
    ELSE c

\* create_request_auth_authenticate, create_request_auth_user_get
CreateAuth(c, op) ==
    IF Starts(c) /\ c.rpc.auth = NoRpc
    THEN [c EXCEPT !.rpc.auth = [op |-> op, host |-> c.node, tok |-> c.token]]
    ELSE c

CheckAuthorization(c) == ~Auth \/ c.token # 0

MembersToAsk(c) == IF c.hosts = {} THEN Host ELSE c.hosts
NodeToUse(hosts) == IF hosts = {} THEN {Nil} ELSE hosts

\* etcd_cluster::tick after the members
TickRest(c, D) ==
    LET u == IF Auth /\ "auth" \in D THEN CreateAuth(c, "user_get") ELSE c
    IN  CASE c.node = Nil -> c
          [] c.node # Nil /\ ~CheckAuthorization(c) ->
                IF "auth" \in D THEN CreateAuth(c, "authenticate") ELSE c
          [] c.node # Nil /\ CheckAuthorization(c) /\ c.enabled /\ c.lease = 0 -> CreateGrant(u)
          [] c.node # Nil /\ CheckAuthorization(c) /\ c.enabled /\ c.lease # 0 ->
                RetryPending(IF "lease" \in D THEN CreateKeepalive(u) ELSE u)
          [] OTHER -> RetryPending([u EXCEPT !.running = TRUE])

\* etcd_cluster::tick, h is asked for the members if they are due
DoTick(c, D, h) ==
    IF c.closing THEN c
    ELSE TickRest(IF "members" \in D THEN CreateMembers(c, h) ELSE c, D)

\* retry_request_member_update: the host is given up, n is used from now on, h is
\* asked for the members if they are due
Failover(c, host, n) ==
    IF c.node # Nil /\ c.node = host
    THEN [c EXCEPT !.hosts = @ \ {host}, !.node = n]
    ELSE c

\* check_authorization_expired
Denied(c) == [c EXCEPT !.token = 0]

-----------------------------------------------------------------------------
(* Replies, and what the callbacks do with them. *)

Authorized(tok) == ~Auth \/ tok = etcd.token

Fault(kind, max) == faults[kind] < max /\ faults' = [faults EXCEPT ![kind] = @ + 1]

\* only a network error makes the client give up the host
NetError(c, host) ==
    /\ Fault("net", MaxNet)
    /\ \E n \in NodeToUse(c.hosts \ {host}), due \in BOOLEAN :
          LET f == Failover(c, host, n)
          IN  \E h \in MembersToAsk(f) : cl' = IF due THEN CreateMembers(f, h) ELSE f

\* default_checker_t: there is no value, or the one that this process starts with
CheckPassed(r, v) == r.fn => v \in {Nil, First}

\* libcurl_callback_on_get_data
GetDone(k) ==
    LET r == cl.ka[k]
        v == etcd.store[PathOf[k]].value
        idle == [cl EXCEPT !.ka[k].rpc = NoRpc]
    IN  /\ r.rpc.op = "get"
        /\ \/ /\ Authorized(r.rpc.tok)
              /\ cl' = Process([idle EXCEPT !.ka[k].run = TRUE,
                                            !.ka[k].passed = CheckPassed(r, v)], k)
           \/ /\ ~Authorized(r.rpc.tok)
              /\ cl' = Denied(AddRetry(idle, k))
        /\ UNCHANGED <<etcd, phase, revoke, faults>>

(* The server. *)

\* the put of k, the delete of k that the server has not seen yet
PutOf(k) ==
    LET q == cl.ka[k].rpc
    IN  IF q.op = "put" /\ q.reply = "none"
        THEN {[op |-> "put", path |-> PathOf[k], tok |-> q.tok, value |-> q.value,
               lease |-> q.lease]}
        ELSE {}

DeleteOf(k) ==
    LET d == cl.del[k]
    IN  IF d.st = "sent" /\ d.reply = "none"
        THEN {[op |-> "delete", path |-> PathOf[k], tok |-> d.tok]}
        ELSE {}

\* the client gives up the requests in L: they may be on their way to the server
Abandon(e, L) == IF MayLinger THEN [e EXCEPT !.late = @ \cup L] ELSE e

\* the range of create_request_kv_del with "+1": every key that begins with p
Erased(e, p) ==
    [e EXCEPT !.store = [o \in Path |-> IF o \in Under[p] THEN [value |-> Nil, lease |-> 0]
                                        ELSE @[o]]]

\* Mutant of Stored: create_request_kv_set does not assign the lease.
Stored_NoLease(q) == [value |-> q.value, lease |-> 0]

\* what create_request_kv_set asks the server to store
Stored(q) == [value |-> q.value, lease |-> q.lease]

\* the server executes a put: a lease that is gone is an error
ServePut(k) ==
    LET q == cl.ka[k].rpc
        ok == Authorized(q.tok) /\ q.lease \in etcd.leases
    IN  /\ q.op = "put" /\ q.reply = "none"
        /\ cl' = [cl EXCEPT !.ka[k].rpc.reply = IF ok THEN "ok"
                                                ELSE IF Authorized(q.tok) THEN "bad" ELSE "denied"]
        /\ etcd' = IF ok THEN [etcd EXCEPT !.store[PathOf[k]] = Stored(q)]
                   ELSE etcd
        /\ UNCHANGED <<phase, revoke, faults>>

\* Mutant of PutFailed: the value counts as sent.
PutFailed_Sent(c, k) == AddRetry([c EXCEPT !.ka[k].rpc = NoRpc], k)

PutFailed(c, k) == AddRetry([c EXCEPT !.ka[k].rpc = NoRpc, !.ka[k].changed = TRUE], k)

\* libcurl_callback_on_set_data
PutDone(k) ==
    LET q == cl.ka[k].rpc
    IN  /\ q.op = "put"
        /\ \/ /\ q.reply = "ok"
              /\ cl' = Process([cl EXCEPT !.ka[k].rpc = NoRpc, !.ka[k].data = TRUE], k)
           \/ /\ q.reply = "bad"
              /\ cl' = PutFailed(cl, k)
           \/ /\ q.reply = "denied"
              /\ cl' = Denied(PutFailed(cl, k))
        /\ UNCHANGED <<etcd, phase, revoke, faults>>

\* ... of a get or a put whose answer is lost, or that the server fails to execute
KeepaliveFails(k) ==
    /\ \/ /\ cl.ka[k].rpc.op = "get"
          /\ cl' = AddRetry([cl EXCEPT !.ka[k].rpc = NoRpc], k)
       \/ /\ cl.ka[k].rpc.op = "put"
          /\ cl' = PutFailed(cl, k)
    /\ Fault("http", MaxHttp)
    /\ etcd' = Abandon(etcd, PutOf(k))
    /\ UNCHANGED <<phase, revoke>>

\* libcurl_callback_on_lease_keepalive of a grant
Granted ==
    LET l == etcd.last + 1
    IN  /\ cl.rpc.lease.op = "grant"
        /\ etcd' = [etcd EXCEPT !.last = l, !.leases = @ \cup {l}]
        /\ cl' = SetLease([cl EXCEPT !.rpc.lease = NoRpc, !.running = TRUE], l, TRUE)
        /\ UNCHANGED <<phase, revoke, faults>>

\* ... and of a keepalive: the lease lives, or the answer has no TTL
LeaseKept ==
    LET c == [cl EXCEPT !.rpc.lease = NoRpc]
    IN  /\ cl.rpc.lease.op = "keepalive"
        /\ \/ /\ cl.lease \in etcd.leases
              /\ cl' = SetLease([c EXCEPT !.running = TRUE], cl.lease, FALSE)
           \/ /\ cl.lease \notin etcd.leases
              /\ cl' = CreateGrant(SetLease(c, 0, FALSE))
        /\ UNCHANGED <<etcd, phase, revoke, faults>>

LeaseFails ==
    /\ cl.rpc.lease # NoRpc
    /\ LET c == [cl EXCEPT !.rpc.lease = NoRpc]
       IN  \/ NetError(c, cl.rpc.lease.host)
           \/ Fault("http", MaxHttp) /\ cl' \in {c, Denied(c)}
    /\ UNCHANGED <<etcd, phase, revoke>>

\* libcurl_callback_on_member_update, which ends with a tick
MembersKnown(n, D, h) ==
    LET c == [cl EXCEPT !.rpc.members = NoRpc, !.hosts = Host,
                        !.node = n]
    IN  /\ cl.rpc.members # NoRpc
        /\ cl.node \in {n, Nil}
        /\ cl' = DoTick(c, D, h)
        /\ UNCHANGED <<etcd, phase, revoke, faults>>

MembersFail ==
    /\ cl.rpc.members # NoRpc
    /\ LET c == [cl EXCEPT !.rpc.members = NoRpc]
       IN  \/ NetError(c, cl.rpc.members.host)
           \/ Fault("http", MaxHttp) /\ cl' = c
    /\ UNCHANGED <<etcd, phase, revoke>>

\* libcurl_callback_on_auth_authenticate
Authenticated ==
    /\ cl.rpc.auth.op = "authenticate"
    /\ cl' = RetryPending([cl EXCEPT !.rpc.auth = NoRpc, !.token = etcd.token])
    /\ UNCHANGED <<etcd, phase, revoke, faults>>

\* libcurl_callback_on_auth_user_get
UserGot ==
    /\ cl.rpc.auth.op = "user_get"
    /\ LET c == [cl EXCEPT !.rpc.auth = NoRpc]
       IN  cl' = IF Authorized(cl.rpc.auth.tok) THEN c ELSE Denied(c)
    /\ UNCHANGED <<etcd, phase, revoke, faults>>

AuthFails ==
    /\ cl.rpc.auth # NoRpc
    /\ LET c == [cl EXCEPT !.rpc.auth = NoRpc]
       IN  \/ NetError(c, cl.rpc.auth.host)
           \/ Fault("http", MaxHttp) /\ cl' = Denied(c)
    /\ UNCHANGED <<etcd, phase, revoke>>

-----------------------------------------------------------------------------
ServeDelete(k) ==
    LET d == cl.del[k]
        ok == Authorized(d.tok)
    IN  /\ d.st = "sent" /\ d.reply = "none"
        /\ cl' = [cl EXCEPT !.del[k].reply = IF ok THEN "ok" ELSE "denied"]
        /\ etcd' = IF ok THEN Erased(etcd, PathOf[k]) ELSE etcd
        /\ UNCHANGED <<phase, revoke, faults>>

\* Mutant of Delayed: a failed delete is not kept for a retry.
Delayed_Dropped(c, k) == [c EXCEPT !.del[k] = NoDel]

\* remove_keepalive_path with delay
Delayed(c, k) ==
    [Dropped(c, PathOf[k]) EXCEPT !.del[k] = [st |-> "pending", tries |-> c.del[k].tries]]

\* libcurl_callback_on_remove_keepalive_path
DeleteDone(k) ==
    LET d == cl.del[k]
    IN  /\ d.st = "sent"
        /\ \/ /\ d.reply = "ok"
              /\ cl' = [cl EXCEPT !.del[k] = NoDel]
           \/ /\ d.reply = "denied"
              /\ cl' = Delayed(Denied(cl), k)
        /\ UNCHANGED <<etcd, phase, revoke, faults>>

DeleteFails(k) ==
    LET d == cl.del[k]
    IN  /\ d.st = "sent"
        /\ \/ NetError(Delayed(cl, k), d.host)
           \/ Fault("http", MaxHttp) /\ cl' = Delayed(cl, k)
        /\ etcd' = Abandon(etcd, DeleteOf(k))
        /\ UNCHANGED <<phase, revoke>>

\* a request the client does not wait for any more reaches the server
ServeLate(q) ==
    LET e == [etcd EXCEPT !.late = @ \ {q}]
    IN  /\ q \in etcd.late
        /\ etcd' = CASE q.op = "put" /\ Authorized(q.tok) /\ q.lease \in etcd.leases ->
                          [e EXCEPT !.store[q.path] = Stored(q)]
                     [] q.op = "delete" /\ Authorized(q.tok) -> Erased(e, q.path)
                     [] OTHER -> e
        /\ Fault("late", MaxLate)
        /\ UNCHANGED <<cl, phase, revoke>>

-----------------------------------------------------------------------------
(* The application. *)

\* add_keepalive of a new object, with its checker and its value
Add(k) ==
    LET e == IF cl.enabled THEN cl ELSE CreateGrant([cl EXCEPT !.enabled = TRUE])
        c == [Dropped(e, PathOf[k]) EXCEPT !.ka[k].in = TRUE]
    IN  /\ phase = "running"
        /\ cl.ka[k] = NewKeepalive
        /\ \A j \in Actors(cl) : PathOf[j] # PathOf[k]
        /\ \A j \in Keepalive : \/ AddWhileDeleting
                                \/ PathOf[j] # PathOf[k]
                                \/ cl.del[j].st # "sent"
        /\ cl' = IF c.running /\ c.lease # 0 THEN Process(c, k) ELSE c
        /\ UNCHANGED <<etcd, phase, revoke, faults>>

\* etcd_keepalive::set_value
SetValue(k, v) ==
    LET c == [cl EXCEPT !.ka[k].value = v, !.ka[k].changed = TRUE]
    IN  /\ phase = "running"
        /\ cl.ka[k].in /\ cl.ka[k].value < v
        /\ cl' = IF c.running /\ c.lease # 0 THEN Process(c, k) ELSE c
        /\ UNCHANGED <<etcd, phase, revoke, faults>>

\* remove_keepalive
Remove(k) ==
    LET r == cl.ka[k]
        c == [cl EXCEPT !.ka[k] = [Closed(r, TRUE) EXCEPT !.in = FALSE], !.retry = @ \ {k}]
    IN  /\ phase = "running"
        /\ r.in
        /\ cl' = IF r.data THEN [Dropped(c, PathOf[k]) EXCEPT !.del[k] = Sent(c, 0)] ELSE c
        /\ etcd' = Abandon(etcd, PutOf(k))
        /\ UNCHANGED <<phase, revoke, faults>>

\* etcd_cluster::close: the lease is revoked if there is a node to ask
Shut(c) ==
    [c EXCEPT !.closing = TRUE, !.lease = 0, !.retry = {},
              !.rpc = [lease |-> NoRpc, members |-> NoRpc, auth |-> NoRpc],
              !.ka = [k \in Keepalive |-> IF @[k].in
                                          THEN [Closed(@[k], FALSE) EXCEPT !.in = FALSE] ELSE @[k]],
              !.del = [k \in Keepalive |-> IF @[k].st = "pending" THEN NoDel ELSE @[k]]]

\* the end of etcd_module::init: every check has run and passed
InitDone ==
    /\ phase = "init"
    /\ \A k \in Actors(cl) : cl.ka[k].run /\ cl.ka[k].passed
    /\ phase' = "running"
    /\ UNCHANGED <<cl, etcd, revoke, faults>>

\* ... or one has not passed, or it takes too long: stop() and then reset(), which
\* stops the request that would revoke the lease
InitFails ==
    /\ phase = "init"
    /\ phase' = "stopped"
    /\ cl' = [Shut(cl) EXCEPT !.del = [k \in Keepalive |-> NoDel]]
    /\ etcd' = Abandon(etcd, UNION {PutOf(k) : k \in Keepalive})
    /\ UNCHANGED <<revoke, faults>>

\* Mutant of LeaseToRevoke: the lease is cleared before the request is created.
LeaseToRevoke_Cleared(c) == Shut(c).lease

\* create_request_lease_revoke
LeaseToRevoke(c) == c.lease

\* etcd_module::stop; without a request to wait for it goes on to reset()
Stop ==
    /\ phase = "running"
    /\ cl' = Shut(cl)
    /\ \/ /\ cl.lease # 0 /\ cl.node # Nil /\ ~cl.refused
          /\ revoke' = LeaseToRevoke(cl)
          /\ phase' = "stopping"
       \/ /\ cl.lease = 0 \/ cl.node = Nil \/ cl.refused
          /\ revoke' = revoke
          /\ phase' = "stopped"
    /\ etcd' = Abandon(etcd, UNION {PutOf(k) : k \in Keepalive})
    /\ UNCHANGED faults

Gone(e, l) ==
    [e EXCEPT !.leases = @ \ {l},
              !.store = [p \in Path |-> IF @[p].lease = l THEN [value |-> Nil, lease |-> 0]
                                        ELSE @[p]]]

\* http_callback_on_etcd_closed, stop() again; or timeout() when there is no answer
Revoked ==
    /\ phase = "stopping"
    /\ \E e \in {etcd, Gone(etcd, revoke)} :
          etcd' = Abandon(e, UNION {DeleteOf(k) : k \in Keepalive})
    /\ phase' = "stopped"
    /\ revoke' = Nil
    /\ cl' = [cl EXCEPT !.del = [k \in Keepalive |-> NoDel]]
    /\ UNCHANGED faults

\* etcd_module::tick, and the timer of init()
Tick(D, h) ==
    /\ phase \in {"init", "running"}
    /\ cl' = DoTick(cl, D, h)
    /\ UNCHANGED <<etcd, phase, revoke, faults>>

\* a lease that is not kept alive expires; one that is, if etcd is not reached in time
LeaseExpires(l) ==
    /\ l \in etcd.leases
    /\ etcd' = Gone(etcd, l)
    /\ IF l = cl.lease THEN Fault("expire", MaxExpire) ELSE UNCHANGED faults
    /\ UNCHANGED <<cl, phase, revoke>>

TokenExpires ==
    /\ Auth /\ cl.token = etcd.token
    /\ etcd' = [etcd EXCEPT !.token = @ + 1]
    /\ Fault("expire", MaxExpire)
    /\ UNCHANGED <<cl, phase, revoke>>

\* libcurl has no handle, socket or memory for new requests; or has them again
Refuse ==
    /\ MayRefuse /\ ~cl.refused
    /\ cl' = [cl EXCEPT !.refused = TRUE]
    /\ Fault("refuse", MaxRefuse)
    /\ UNCHANGED <<etcd, phase, revoke>>

Relent ==
    /\ cl.refused
    /\ cl' = [cl EXCEPT !.refused = FALSE]
    /\ UNCHANGED <<etcd, phase, revoke, faults>>

\* another process that finds no value under the key takes it, in one step
OtherPuts(p) ==
    /\ Rivals /\ etcd.store[p].value = Nil
    /\ etcd' = [etcd EXCEPT !.store[p] = [value |-> Foreign, lease |-> 0]]
    /\ UNCHANGED <<cl, phase, revoke, faults>>

\* its lease ends, which is not one of those in etcd.leases
OtherLeaves(p) ==
    /\ Rivals /\ etcd.store[p].value = Foreign
    /\ etcd' = [etcd EXCEPT !.store[p] = [value |-> Nil, lease |-> 0]]
    /\ UNCHANGED <<cl, phase, revoke, faults>>

-----------------------------------------------------------------------------
Init ==
    /\ cl = [node |-> Nil, hosts |-> {}, token |-> 0, lease |-> 0,
             closing |-> FALSE, refused |-> FALSE, running |-> FALSE,
             enabled |-> Boot # {},
             rpc |-> [lease |-> NoRpc, members |-> NoRpc, auth |-> NoRpc],
             ka |-> [k \in Keepalive |-> [NewKeepalive EXCEPT !.in = k \in Boot]],
             retry |-> {},
             del |-> [k \in Keepalive |-> NoDel]]
    /\ \E s \in [Path -> {Nil, Foreign}] :
          etcd = [store |-> [p \in Path |-> [value |-> s[p], lease |-> 0]],
                  leases |-> {}, last |-> 0, token |-> 1, late |-> {}]
    /\ phase = "init"
    /\ revoke = Nil
    /\ faults = [net |-> 0, http |-> 0, expire |-> 0, refuse |-> 0, late |-> 0]

Replies ==
    \/ Granted \/ LeaseKept \/ Authenticated \/ UserGot
    \/ \E n, h \in Host, D \in SUBSET Timers : MembersKnown(n, D, h)
    \/ \E k \in Keepalive : \/ GetDone(k) \/ ServePut(k) \/ PutDone(k)
                            \/ ServeDelete(k) \/ DeleteDone(k)

Failures ==
    \/ LeaseFails \/ MembersFail \/ AuthFails \/ TokenExpires
    \/ \E k \in Keepalive : KeepaliveFails(k) \/ DeleteFails(k)
    \/ \E l \in etcd.leases : LeaseExpires(l)
    \/ \E q \in etcd.late : ServeLate(q)
    \/ Refuse \/ Relent

Others == \E p \in Path : OtherPuts(p) \/ OtherLeaves(p)

Application ==
    \/ \E k \in Keepalive : \/ Add(k) \/ Remove(k)
                            \/ \E v \in Value : SetValue(k, v)
    \/ InitDone \/ InitFails \/ Stop \/ Revoked

Next ==
    \/ Replies \/ Failures \/ Application \/ Others
    \/ \E D \in SUBSET Timers, h \in MembersToAsk(cl) : Tick(D, h)

Spec == Init /\ [][Next]_vars

\* A lease nobody keeps alive expires.
Expiry == WF_vars(\E l \in etcd.leases \ {cl.lease} : LeaseExpires(l))

\* Requests are answered, ticks go on until every interval is over, and init() looks at
\* the checks after every tick.
Fairness ==
    /\ WF_vars(Granted) /\ WF_vars(LeaseKept) /\ WF_vars(Authenticated) /\ WF_vars(UserGot)
    /\ WF_vars(\E n, h \in Host, D \in SUBSET Timers : MembersKnown(n, D, h))
    /\ \A k \in Keepalive : /\ WF_vars(GetDone(k)) /\ WF_vars(ServePut(k)) /\ WF_vars(PutDone(k))
                            /\ WF_vars(ServeDelete(k)) /\ WF_vars(DeleteDone(k))
    /\ WF_vars(\E h \in MembersToAsk(cl) : Tick(Timers, h))
    /\ WF_vars(InitDone) /\ WF_vars(Revoked)
    /\ Expiry

FairSpec == Spec /\ Fairness

\* nothing of the client has to happen
ExpirySpec == Spec /\ Expiry

-----------------------------------------------------------------------------
(* Properties *)

Entry == [value : Value \cup {Nil, Foreign}, lease : 0..etcd.last]

\* Type invariant: of the state that etcd_cluster, etcd_keepalive and the server keep.
TypeOK ==
    /\ cl.node \in Host \cup {Nil} /\ cl.hosts \subseteq Host
    /\ cl.token \in 0..etcd.token /\ cl.lease \in 0..etcd.last
    /\ {cl.closing, cl.refused, cl.running, cl.enabled} \subseteq BOOLEAN
    /\ cl.retry \subseteq Keepalive
    /\ \A k \in Keepalive :
          /\ cl.ka[k].value \in Value
          /\ cl.ka[k].rpc.op \in {"none", "get", "put"}
          /\ cl.del[k].st \in {"none", "pending", "sent"}
    /\ etcd.store \in [Path -> Entry] /\ etcd.leases \subseteq 1..etcd.last
    /\ phase \in {"init", "running", "stopping", "stopped"}
    /\ revoke \in {Nil} \cup 1..etcd.last

Registered(k) ==
    /\ cl.lease \in etcd.leases
    /\ etcd.store[PathOf[k]] = [value |-> cl.ka[k].value, lease |-> cl.lease]

\* every keepalive with nothing left to do has its value in etcd
SettledAreStored ==
    \A k \in Actors(cl) :
        (/\ cl.ka[k].passed /\ ~cl.ka[k].changed /\ cl.ka[k].rpc = NoRpc
         /\ cl.lease \in etcd.leases) => Registered(k)

\* A keepalive with nothing left to do (its check passed, its value is not marked
\* changed, no request runs) has its current value in etcd, under the current lease
\* as long as that lease lives: no answer that is late or lost, no lost lease, token
\* or member makes etcd_keepalive believe that a value is stored which is not.  It is
\* false of the code, and not claimed, once libcurl has refused to start requests or
\* the server has executed one that the client had given up, and
\* where a path is used again while its delete runs (AddWhileDeleting).
SettledIsRegistered == faults.refuse = 0 /\ faults.late = 0 => SettledAreStored

\* A key that another process holds stays until that process leaves: the check of
\* etcd_keepalive is there to lock the key.  The put is not bound to what the check
\* saw, and is repeated for a new lease without a check.
ForeignKept ==
    [][\A p \in Path : etcd.store[p].value = Foreign =>
                          etcd'.store[p] = etcd.store[p] \/ OtherLeaves(p)]_vars

\* The delete of a removed keepalive takes one key, its own: the comment of
\* libcurl_callback_on_remove_keepalive_path expects deleted=1.
DeletesItsPath ==
    [][\A k \in Keepalive :
          ServeDelete(k) => \A p \in Path \ {PathOf[k]} : etcd'.store[p] = etcd.store[p]]_vars

Wants(k) == phase = "running" /\ cl.ka[k].in /\ (cl.ka[k].run => cl.ka[k].passed)

\* While the process runs, a keepalive that may be stored is stored in the end with
\* its current value under a living lease: after a lease that expired in use, a failed
\* request, or a lost member while another is left, the retry list and set_lease bring
\* it back.  Without a member left they do not; and with a login, a request that was
\* sent without a token may again and again clear the token that was got meanwhile.
Registers == \A k \in Keepalive : Wants(k) ~> (Registered(k) \/ ~Wants(k))

Deleting(k) == phase = "running" /\ cl.del[k] # NoDel /\ etcd.store[PathOf[k]].value # Nil

\* The key of a keepalive that was removed after its put had been answered (has_data)
\* is deleted in the end, if its path is not used again and fewer delete requests fail
\* than are tried: a failed one stays in keepalive_deletors_ and is sent again.
Deletes ==
    \A k \in Keepalive :
        Deleting(k) ~> \/ etcd.store[PathOf[k]].value = Nil
                       \/ \E j \in Actors(cl) : PathOf[j] = PathOf[k]
                       \/ phase # "running"

\* A process that has stopped, or failed to start, leaves no key behind for good: all
\* of them are bound to a lease that is revoked or expires, also those of requests that
\* were given up and are executed later.
LeavesNothing == phase = "stopped" ~> [](\A p \in Path : etcd.store[p].value \notin Value)
=============================================================================
