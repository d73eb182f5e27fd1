# A verification project for atsf4g-co

atsf4g-co is a framework for game servers. Two of its programs carry the logic of
the repository: `atgateway`, which keeps the sessions of the clients, and `atproxy`,
which connects the server processes to each other with the help of etcd. This
directory holds TLA+ models of that logic, TLC configurations that check them on
small instances, and proofs checked by TLAPS.

Paths below are relative to `src/`; `gw/` stands for
`atframework/service/atgateway/` and `etcd/` for
`atframework/service/component/etcdcli/`.

## Inventory

| part | state | operations | interacts with |
|---|---|---|---|
| session (`gw/session.cpp`) | id, router, owner, flags, the libuv handle, traffic counters, its protocol object | accept, init_new_session, init_reconnect, send_new/remove_session, on_read, on_write_done, close, close_fd, limits | the manager that owns it; libuv; servers by posts |
| session manager (`gw/session_manager.cpp`) | `actived_sessions_`, `reconnect_cache_`, the lists `reconnect_timeout_` and `first_idle_` | accept, tick, close, reconnect, active_session, push, broadcast, set_session_router, reset | sessions; libatbus |
| gateway application (`gw/atgateway.cpp`) | configuration | the protocol's callbacks, messages from servers, commands, reload, stop | all of the above |
| inner protocol (`gw/protocols/inner_v1`) | flags, read and write buffers, handshake and crypt state | read, dispatch, handshake steps, write, write_done, close, reconnect check | callbacks to the application |
| etcd cluster (`etcd/etcd_cluster.cpp`) | lease, members, token, keepalives, retry list, deletors | tick, lease grant and keepalive, authenticate, member update, add/remove keepalive, close | etcd over HTTP; keepalives and watchers |
| etcd keepalive (`etcd/etcd_keepalive.cpp`) | one path: value, checker, request in flight | active, get check, put, close | cluster |
| etcd watcher (`etcd/etcd_watcher.cpp`) | last revision, retry mode, request in flight, partial response | range, watch, responses, close | cluster; the module's handlers |
| etcd module (`.../modules/etcd_module.cpp`) | configuration, watchers by id, name, type, tag | init, tick, stop, dispatch of node events | cluster, atproxy |
| atproxy manager (`.../atproxy/atproxy_manager.cpp`) | known proxies, list of checks | set, remove, tick, on_disconnected | etcd module, libatbus |
| id allocator (`.../core/timestamp_id_allocator.h`) | one atomic integer | allocate | threads |

Everything but the allocator runs in one thread, on a libuv loop. What is hard is
the order of callbacks: a session is closed several times from different places, a
timer expires after the thing it was made for has changed hands, a message crosses
the loss of a connection, a request to etcd is answered after its subject is gone.
`PROJECT.json` lists the weightiest of these hazards at the lines where they bite.

What makes the parts correct:

- gateway: an id has at most one open connection; servers hear "add" and "remove"
  alternately and each id they know has one session that will report its end; a
  session that waits for a reconnect can be resumed until its time is up and no
  longer; a connection that is closed is released once its last write is done; no
  session waits for ever; a limit on traffic closes those that exceed it and no other.
- inner protocol: messages are handed over whole, once and in order; both ends of a
  handshake end with the same keys or close, and no post is garbled while keys change.
- etcd client: while the process lives, etcd answers and a member is left, every
  keepalive's value gets into etcd under the present lease, and the key of a removed
  keepalive whose put was answered is deleted; a process that stops leaves no key; a
  watcher's handler sees every change of the keys that end with an id once, if no
  stream ends while it owes changes that a header of it has counted.
- atproxy: each known, compatible proxy is connected or will be tried again.
- id allocator: no id is given out twice.

## Modules

### GatewaySession

Models the sessions, their manager and the application's callbacks. A session is a
record per object (`sess`): its id, router, whether it still has its owner, the
session flags and the protocol flags of the code, and the stage of its libuv
handle. The manager's tables are functions from ids to objects (`actived`,
`cache`), its lists are sequences of `[s, left]` (`rtimer`, `idle`). `known` is what
the servers were told: the ids last reported "add" and not "remove".

`ProtoClose`, `CloseFd`, `Close`, `Inherited`, `Handed`, `Drained` are the functions of
`session.cpp` on one record. `MgrClose` (with its three cases `MgrPark`, `MgrDrop`,
`MgrEvict`) and `Activate` are `session_manager::close` and `active_session`; `OnClose`
is the protocol's close callback. Every action is one callback or message, run to
its end: `Accept`, `AcceptBusy`, `AcceptFails`, `WriteDone`, `OnEvtClosed`, `StartReq`,
`Answer`, `HandshakeDone`, `HandshakeFails`, `ClientCloses`, `BadRead`, `ReadError`,
`AllocRead`, `Reconnect`, `Takeover`, `ReconnectRefused`, `TakeoverRefused`, `Kickoff`,
`Push`, `PushMissing`, `SetRouter`, `Second`, `Tick`, `Stop`.

Abstractions, and why they are sound for the properties:

- The clock. A timer holds the seconds left to it; `Second` lets a second pass and
  `Tick` is the manager's tick, which does its work once a second (`ticked`).
- Posts to servers succeed or fail per session and handler (`PostResults`), only if
  the instance allows failures.
- `uv_write` accepts data while the session has its connection and fails at once
  only on a handle whose accept failed; completion comes later in `WriteDone`. A
  completion that finds more data to write changes nothing and is a stuttering step.
- `on_evt_shutdown` does nothing but call `uv_close`, so it is one step with
  `on_evt_closed`.
- The reason of a close is kept only until `on_close` has used it: it matters whether
  it allows a reconnect.
- Ids are fresh: `StartReq` takes an id no session has or had. That is the promise of
  the id allocator, which is not modelled.
- The traffic limits are a choice of the environment: a push may exceed one
  (`over_limit`), and so may the "add" of a session that has inherited counters
  (`recv_limit`, in `Activate`). `SessionLimits` has the counters themselves and shows
  which closes there are. Receive checks that end in a crash (a fresh session's "add",
  the "remove" of a close) are there and not here.
- A connection is accepted from TCP. `on_evt_accept_pipe` sets the limits of the
  protocol object after it was moved into the session (`gw/session_manager.cpp:608-609`),
  that is, through a null pointer, so there is nothing after it to model.
- Clients follow the order of the handshake's messages; key updates after it change
  no session state and are part of `Answer`.

The constant `Env` says what the environment may do besides connecting, starting a
session, losing the connection and reconnecting; it keeps each instance small
and says which hazard a run is about. `ReconnectTimeout`, `FirstIdleTimeout` and
`MaxClient` are the configuration. `|Obj|` bounds the number of connections in a
behaviour.

### SessionLimits

The counters `limit_` of a session and the three checks of `session.cpp`, for one id and
the objects that carry it. `Counted`, `Opened`, `Check`, `SendToServer`, `CloseSession`,
`Activated` and `Inherited` are the code's functions on one record. They call each other:
a check calls `close()`, which sends a notice, which is counted and checked; the operators
are recursive and the stack has `MaxDepth` frames. `Conditions` lists what each check
compares with what, the slips of the code included: the hour's window is a day, its
checks mix up directions, the total of received bytes is compared with the limit of
sent ones. `died` says that the process is gone, by a use of `owner_` after the close
cleared it or by the stack. `Post` is a client's message, which nothing counts. Posts to
servers succeed here. The module has recursive operators and no theorem.

`MCSessionLimits` has the limits of the instances.

### The modules with proofs

`GatewaySessionProofs` and, extending it, `GatewayTableProofs` are about GatewaySession;
`InnerStreamProofs`, `InnerHandshakeProofs`, `EtcdClusterProofs`, `EtcdWatcherProofs` and
`AtproxyManagerProofs` about the modules their names begin with. `FoldProofs` has what
they need of induction and of `FoldLeft`. See Proofs.

### MCGatewaySession

The instance for TLC: the symmetry of session objects.

### AtproxyManager

Models `atproxy_manager.cpp` with what it sees of etcd and of the bus: `announced` is
what is in etcd, `proxies` is `proxy_set_`, `checks` is `check_list_`, `dialled` and
`endpoints` are the bus node's connections. `Announce` and `Withdraw` are
`on_watcher_notify` with `set` (of a `Known` or a `New` proxy) and `remove`; `Tick` is one
`tick()`, which runs `RunCheck` on every check up to the first that is not due;
`Disconnected` is the bus node's callback with `on_disconnected`; `Connected` and
`PeerConnects` are connections made from either side; `Stop` and `BusGone` are the
application's end, which `on_disconnected` and `tick()` treat specially.

Times are the seconds left; `Epoch` is the code's time 0 and everything at least
`MaxLag` seconds ago, so that the state space is finite. `TypeOK` includes that no
check in the list gets that old, so nothing the code compares is confused by it;
`LagAssumption`, a condition on the bound and not on the code, is what that takes.
`Second` waits until no check is due: tick() runs many times a second. An address is
usable for this process or not (`is_remote_address_available`), and somebody answers
there or not; a dial of an answering address is connected later. `reset()` has no
caller and is left out.

`MCAtproxyManager` says what the proxies of an instance announce.

### EtcdCluster

Models `etcd_cluster.cpp`, `etcd_keepalive.cpp` and the life of `etcd_module.cpp`. `cl` is
the client: the member in use and those known, token, lease, flags, one request slot
each for lease, members and login, a record per keepalive (`ka`), `retry`
(`keepalive_retry_actors_`) and a deletor per removed keepalive (`del`). `etcd` is the
server: the store with the lease of each key, the living leases, the valid token.
`Process`, `Closed`, `AddRetry`, `RetryPending`, `SetLease`, `Sent`, `Failover`, `DoTick`
are the functions of the code on `cl`; the actions are callbacks of replies and failures
(`GetDone`, `PutDone`, `Granted`, `LeaseKept`, `MembersKnown`, `Authenticated`, ...), calls of
the application (`Add`, `SetValue`, `Remove`, `InitDone`, `InitFails`, `Stop`, `Tick`) and what
happens in etcd (`ServePut`, `ServeDelete`, `LeaseExpires`, `TokenExpires`).

- Intervals are not measured: which of them are over is a choice of each tick.
- A put and a delete are executed by the server in one step and answered in another,
  so that an answer may be late or lost after the fact. For the other requests one
  step is enough: nothing reads what they change in between.
- An error of the network makes the client give up a member, an error of HTTP does
  not, as in the code; `MaxNet`, `MaxHttp` and `MaxExpire` bound them and the leases and
  tokens that expire in use.
- A request may fail to start: while `refused` holds libcurl starts none of the requests
  a callback makes (`Refuse`, `Relent`; `MaxRefuse` is how often).
- A put or delete the client gave up may still be executed later (`late`, `ServeLate`,
  at most `MaxLate` of them); with `MaxLate = 0` it is executed before or never.
- A delete takes every key that begins with the path (`Erased`, `Under`).
- Another process may hold a key before this one starts (`Foreign`), and with `Rivals` it
  takes a free key or leaves its key at any time. Its check and put are one step, and it
  removes its own key only.
- Values are numbers; the first is the one the checker was made with.

### EtcdWatcher

Models `etcd_watcher.cpp` and the wrappers of `etcd_module.cpp` that hand events to the
application. `log` is the history of the watched keys, a revision being a position in
it; `w` is the watcher's state, `req` the request that runs with what is on its way,
`told` what the callbacks heard last of each key and `seen` how far the changes were
received. `Process` is `process()`, `RangeDone`, `RetryDone`, `RangeFails`, `WatchDone` are the
completion callbacks, `Write` is the write callback, which counts brackets. A message
of the stream is two pieces, so that a stream can break in the middle of one. A key
either ends with a number or not (`Numeric`): `unpack` gets a deleted node's id from it
(`Tells`), and `TellFromTo` is what the callbacks have heard after a run of changes.

A request may not be created, not start, fail or end at any point. Headers may be
ahead of the events, as etcd's are in the created message. With `MayLose = FALSE` a
stream does not end while a header that was saved is ahead of the changes told; what
happens otherwise is among the known deviations.

### MessageStream, InnerStream

`MessageStream` is the abstract specification: each direction of a connection is a
FIFO of whole messages until an end closes or the connection breaks, after which what
arrived stays a prefix; while both are open what was sent is delivered.

`InnerStream` is `libatgw_proto_inner.cpp` from `write_msg` to `dispatch_data`, twice, joined
by a byte stream. A byte is `<<message, position>>`: the length field can be read from
it, and the hash check is the comparison of what was cut out with what was framed.
`try_write`, `Merged`, `write_msg`, `write_done`, `close` are the writing side, `Room`
(`alloc_recv_buffer`), `read` with `ReadHead`, `ReadBlock`, `Scan`, `Settle` and
`dispatch_data` the reading side; the actions are what the session and libuv call.
The number of bytes of each read is a choice; `EndsAssumption` says that there are two
ends. `write_fn` always completes later;
synchronous failures of `uv_write` are in GatewaySession. `Refines` says that InnerStream
implements `MessageStream`, its liveness included, with `sent`, `got` and `~closing` as the
refinement mapping.

### InnerHandshake

The handshake handlers of `libatgw_proto_inner.cpp`, for a client and the gateway's
protocol object, on the channels that MessageStream specifies. A crypt session is the
number of its secret; `crypt_handshake_`, `crypt_read_` and `crypt_write_` are `hs`, `rd`, `wr`.
Each handler is an operator with the name it has in the code that leaves the object
and the messages it wrote. `handshake_update` is the session's timer, `global_reload` the
gateway's reload of its crypt configuration, `Drop` loses the connection with what is
on its way, and `reconnect_session` is the client's reconnect with the secret of its
last handshake, as the sample client does. `kept` is the gateway's old protocol object,
to which `check_reconnect` compares. Which sessions are kept for a reconnect is
GatewaySession's matter; here one whose handshake was done is.

The client posts only once its handshake is done, as the sample client checks. `ecdh`
takes the same path as `dh`. Library failures are left out. `check_reconnect` sets the new
handshake up with the configuration of the old secret (`libatgw_proto_inner.cpp:1612`), the
model with the present one; it differs after a reload and shows in the answer only, as
the key update that follows in the same call sets the mode anew, unless encryption was
turned off, which the runs exclude.

## Runs

| run | instance | checks |
|---|---|---|
| gateway_reconnect | 3 connections, 1 id, 2 routers, reconnect timeout 2; bad data, pushes and an "add" over a limit, router changes | `TypeOK`, `OneRegistrant`, `OneConnection`, `ForwardsOnlyKnown`, `CacheConsistent`, `RouterKept` |
| gateway_no_reconnect | 2 connections, 2 ids, reconnects off, 1 client allowed; every event, failing posts and accepts | `IndInv`, `FreedAfterClose` |
| gateway_live | 2 connections, 1 id, 1 client allowed, reconnect timeout 1; failing accepts, pushes to waiting sessions, fair loop | `RemoveNotLost`, `FreedAfterClose`, `WaitEnds`, `HandshakeEnds`, `FdReleased`, `AwayIsReported` |
| session_limits | the send limits of a minute, and those of the times of an hour and in all | `Survives`, `SendWithin` |
| atproxy | 2 peers and this process, 2 announcements, 1 loss, fair loop | `TypeOK`, `NeverForgotten`, `GetsConnected` |
| etcd_cluster | 1 keepalive, 2 values, 1 member, a login, another process; 1 failed request, 1 that does not start, 1 executed late, 1 expired lease or token; leases expire | `TypeOK`, `SettledIsRegistered`, `LeavesNothing` |
| etcd_live | 2 objects on 1 path, 2 members, no login, 1 fault of each kind, fair | `SettledIsRegistered`, `Registers`, `Deletes` |
| etcd_lost | 1 member | violation of `Registers` |
| watcher | 2 keys, 4 changes, 2 broken or ended requests, fair | `TypeOK`, `ViewIsSnapshot`, `OnceInOrder`, `UpToDate` |
| stream | 3 messages of the client with answers, closes and a break, fair | `TypeOK`, `NothingStranded`, `BytesInOrder`, `CloseEnds`, `Refines` |
| handshake | 2 modes, 3 posts, 2 key updates, 1 reload, 2 lost connections, fair | `TypeOK`, `PostsRead`, `Agreement`, `ExchangeEnds`, `KeyReplaced` |
| handshake_refused | 1 key update, 1 lost connection | violation of `CanReconnect` |

Bounds. Three connections are enough for a session that is resumed twice, which is
where a timer or a registration of the first can meet the third; two ids are enough
for two sessions to be confused. A timeout of 2 lets one reconnect happen between
the start and the end of another session's timer. Kicks are
left to the runs with two connections, and posts that fail to the one with reconnects off:
with them the state space of three connections is too large. The theorems about `IndInv`, `FreedAfterClose` and `CacheConsistent` cover
both together.

For atproxy, two changes in etcd let a proxy be announced, withdrawn or changed while
old checks of it are in the list, and two peers let the check of one block or delay
the other's; one lost connection is enough for `on_disconnected` to meet a check that is
pending, one that is done and none.

For SessionLimits, six pushes of one or two bytes pass each of the limits, in one window
or over several, before and after reconnects.

For EtcdCluster, in etcd_live a second object takes the path over after a removal; two
members let the client move from one to the other, and one fault of each kind, at any
point, lets two of them meet; one network error leaves one of the two members. In
etcd_cluster two values and a failed request let an older put be given up, repeated
and executed after a newer one. `Deletes` is checked with fewer failures than tries: the
code gives up after 8. For EtcdWatcher, four revisions
are a put, a deletion and changes on both sides of a break. For InnerStream, the sizes in `MCStream.cfg` put
every boundary within reach: a header of 2, a head buffer of 4, messages that fit in
it, that need a block and that exceed the receive limit, two that are merged and a
third that is not, and a full send queue. For InnerHandshake, two updates and two
lost connections let an exchange be cut short, resumed and cut short again.

Fairness. In GatewaySession the loop runs its timers, so the clock and `Tick` are weakly
fair, and libuv reports every shutdown and close it accepted, so `OnEvtClosed` is.
Nothing is assumed of clients and servers; a client that stops reading keeps its write
pending, and with it the handle of a closed session, as nothing in the code bounds that
time. `FdReleased` is therefore about sessions without a pending write. It leaves out a
handle whose accept failed: `uv_shutdown` fails on it and it is never closed.
For AtproxyManager the loop's tick and the clock are weakly fair, and so is the
completion of a connection to somebody who answers; nothing is assumed of the peers.
For EtcdCluster and EtcdWatcher every request that runs is answered unless it fails
(requests have timeouts), failures are bounded, ticks go on and all intervals pass, and
a lease nobody keeps alive expires; `LeavesNothing` needs only the last of these
(`ExpirySpec`), as no client is there to do anything. For InnerStream the callbacks of libuv are fair, for
InnerHandshake the delivery of messages, which is what InnerStream shows.

What the violations show:

- `Registers` in etcd_lost: the lease has expired and a new one is being granted; the
  request for the members fails, and the only member is given up. When the lease is
  granted, `set_lease` activates each keepalive, none can create a request and each
  enters the retry list; `retry_pending_actions` then activates them again, is refused
  the second entry and clears the list (`etcd/etcd_cluster.cpp:727`). Nothing activates
  them when a member is found again: the process stays unregistered while its lease
  lives. In etcd_live, with two members and one network error, one is always left and
  the property holds.
- `CanReconnect` in handshake_refused: the client has processed the `START_RSP` of a key
  update and holds the new secret in `crypt_handshake_`; the connection is lost before
  the gateway hears of it, and the gateway compares with `crypt_read_`, the old secret
  (`gw/protocols/inner_v1/libatgw_proto_inner.cpp:1535`).

`RemoveNotLost` is checked in gateway_live, without `late_data`, `recv_limit` and failing
posts, and `ForwardsOnlyKnown` in gateway_reconnect without failing posts: with them the
code does not have these properties (a session whose "add" could not be posted keeps an
open connection).

## Known deviations

Besides the violations above, these properties are defined in the modules and the code
does not have them. To see one, take the configuration named, with the changes given,
and check the property.

| property | configuration | what happens |
|---|---|---|
| `ActiveIsOpen` | gateway_live's with `Spec` | `session::on_read` closes a session whose data is bad without its manager, so the closed session stays in `actived_sessions_`; `gw/atgateway.cpp:486` has a TODO about it |
| `WaitingIsCached` | gateway_reconnect's with `Env = {}` | the timer of a session that was resumed erases the cache entry of its id (`gw/session_manager.cpp:269`), which by then may be that of the session that resumed it and lost its connection in turn |
| `RemoveNotLost` | gateway_live's with `Spec` and `Env = {"client_close", "late_data"}` | the peer sends while its closing protocol drains; `on_alloc_read` calls `close_fd`, which clears `owner_`; the close that follows has no manager to send "remove" through and no timer is running |
| `RemoveNotLost` | gateway_reconnect's | a push closes a session for its limit; the closed session stays in `actived_sessions_` and its client takes it over. The new session inherits the counters and not the registration, which the close has ended, so it sends an "add"; that exceeds a receive limit, `send_to_server` closes the session (`gw/session.cpp:388-390`) and `send_new_session` then sets `REGISTERED` (192-194). No timer runs and no "remove" will be sent |
| `WaitingIsKnown` | gateway_live's with `Spec` | a push that meets a waiting session is answered with `remove_session` (`gw/atgateway.cpp:646`), so the server forgets a session the client may still resume, and no second "add" is sent when it does |
| `WithinMaxClient` | gateway_no_reconnect's | sessions in their handshake are not counted (`gw/session_manager.cpp:543`) |
| `RecvWithin` | session_limits's with `Limits <- MinuteRecvLimit`, `MaxPosts = 3` | a client's posts go to `post_data` without being counted (`gw/atgateway.cpp:395`) |
| `OnlyOver` | session_limits's with `Limits <- TotalRecvLimit` | `check_total_limit` compares what was received with the limit of what is sent, 0 here (`gw/session.cpp:520`), and the first notice closes the session |
| `Survives` | session_limits's with `Limits <- MinuteRecvLimit`, `NoticeLen = 3` | the "remove" exceeds a limit, its check calls `close()`, which is not marked as closing yet and sends the next "remove" (`gw/session.cpp:278-280`), without end |
| `AnnouncedConnected` | atproxy's | `set()` returns at a pending check before it stores the node (`atproxy_manager.cpp:143`): the new address of a proxy that cannot be reached is dropped and the old one is dialled for ever, unless the node is deleted first |
| `OnceInOrder`, `UpToDate` | watcher's with `MayLose = TRUE`, `MaxRev = 3`, `MaxEnds = 1` | the header of the created message is ahead of changes the watch still owes, the stream breaks, and the next watch starts after them (`etcd/etcd_watcher.cpp:369`) |
| `Repulled` | watcher's with `MayLose = TRUE`, `Key = {id}`, `MaxRev = 2`, `MaxEnds = 1`, `MaxNotes = 0` | nor is what was missed pulled: the range request that follows a break is of the path alone and its answer is discarded (`etcd/etcd_watcher.cpp:70-71, 148-155`), while the comment at line 18 has the data pulled again every hour |
| `SettledAreStored` | etcd_cluster's with `MaxLate = 0` | `start()` of a put fails after the value was marked as not changed (`etcd/etcd_keepalive.cpp:118-135`): the retry has nothing to put |
| `SettledAreStored` | etcd_cluster's with `MaxRefuse = 0` | a put that was given up is executed after a newer one, or a delete after the key was put again |
| `Registers` | etcd_live's with `Auth = TRUE` | a request sent before the login is denied after it, and `check_authorization_expired` (`etcd/etcd_cluster.cpp:1641`) clears the token that was got meanwhile; this may go on for ever |
| `SettledIsRegistered` | etcd_live's with `AddWhileDeleting = TRUE` | a delete in flight is not cancelled when its path is added again (`etcd/etcd_cluster.cpp:466`) and removes the new key |
| `ForeignKept` | etcd_cluster's | the get finds no value, another process stores its own, the put overwrites it. The put has no condition, and after a lost lease it is repeated without a check (`etcd/etcd_keepalive.cpp:109`) |
| `DeletesItsPath` | etcd_cluster's with `Path = {p1, p2}` | the range of the delete (`etcd/etcd_cluster.cpp:638`) has the key of another process in it |
| `Agreement`, `PostsRead` | handshake's with `Modes = {"none", "direct", "dh"}` | a reload that turns encryption off makes `setup_handshake` return early (`libatgw_proto_inner.cpp:1182`), the `VERIFY` of the next key update is ignored and posts are garbled |

Other deviations, which no property states:

- A keepalive removed while its put is in flight, or after its answer was lost, has no
  data in its own eyes, so nothing is deleted (`etcd/etcd_cluster.cpp:533`); the key stays
  while the lease lives. A delete that fails 8 times is given up.
- Deletions of keys that do not end with an id, those under by_name, are never told
  (`etcd_module.cpp:920`).
- The checks of the limits of an hour's received bytes and times, of all sent bytes and of
  all received bytes go on after their own `close()` and use `owner_`, which is null by then
  (`Check` in SessionLimits). The message that opens a window is not counted in it.
- The accept of a pipe uses a null pointer (`gw/session_manager.cpp:608-609`).

## Proofs

Every invariant and action property that a passing run checks is also proved, for every
value of the constants, but for those of SessionLimits, which has recursive operators.
What a theorem assumes of the constants besides the `ASSUME`s of its module is in its
statement and in the last column; each of these conditions excludes a deviation of the
code that is listed above, and holds in the run named.

| module | theorem | property | assumes |
|---|---|---|---|
| GatewaySessionProofs | `TypeCorrect` | `TypeOK` | |
| | `RegistrationUnique` | `OneRegistrant` | |
| | `ConnectionUnique` | `OneConnection` | |
| | `RouterStays` | `RouterKept` | |
| GatewayTableProofs | `CacheIsConsistent` | `CacheConsistent` | |
| | `NoEarlyFree` | `FreedAfterClose` | |
| | `NoRemoveLost` | `RemoveNotLost` | `RemovesArrive`: posts arrive, no data races a drain, servers set real routers, no "add" exceeds a receive limit (gateway_live) |
| | `OnlyKnownForward` | `ForwardsOnlyKnown` | `AddsArrive`: posts arrive, servers do not push to waiting sessions, there is a default router (gateway_reconnect) |
| InnerStreamProofs | `TypeCorrect` | `TypeOK` | |
| | `NeverStranded` | `NothingStranded` | |
| | `BytesStayInOrder` | `BytesInOrder` | |
| InnerHandshakeProofs | `TypeCorrect` | `TypeOK` | `"none" \notin Modes`: encryption is not turned off (handshake) |
| | `EveryPostIsRead` | `PostsRead` | the same |
| | `SidesAgree` | `Agreement` | the same |
| EtcdClusterProofs | `TypeCorrect` | `TypeOK` | |
| | `Settled` | `SettledIsRegistered` | `Careful`: requests start, none is executed after it was given up, no path is added again while its delete is in flight, no path of this process begins with another of its paths (etcd_live) |
| EtcdWatcherProofs | `TypeCorrect` | `TypeOK` | |
| | `ToldOnceInOrder` | `OnceInOrder` | `~MayLose`: no stream ends while a saved header is ahead of the changes told (watcher); for `ViewIsSnapshot` the keys that end with an id |
| | `SnapshotIsViewed` | `ViewIsSnapshot` | the same |
| AtproxyManagerProofs | `TypeCorrect` | `TypeOK` | |
| | `NothingForgotten` | `NeverForgotten` | |

`Settled` is proved for instances in which requests are never refused or late; TLC checks
in etcd_cluster that the property holds in the others until the first such request.

Each module also has the theorem that its inductive invariant is one (`Invariance`;
`BooksKept` in GatewayTableProofs).

### The arguments

GatewaySession. `OneRegistrant` is not inductive. That nobody reports an id twice
depends on who got it from whom: `init_reconnect` marks the giver `RECONNECTED`. The
inductive invariant adds that among all objects that have an id only one is unmarked
(`OneHeir`), that marked and registered sessions have finished their handshake (so
a `START_REQ` cannot give a registered session a new id), that the tables hold
sessions under their own ids (`TableOK`), and that a marked session has no
connection (`SessionsOK`), from which `OneConnection` follows.

The proof is laid out along the code. `Good` is the invariant as a predicate of the
four variables that matter, so that it can be applied to the intermediate states of
a handler. A session `Evolves` if it keeps its id, its marks and the end of its
handshake; `CloseFdEvolves`, `CloseEvolves`, `CloseAllQuiet` show that everything
`session.cpp` does to one session is of that kind and removes an id exactly when it
drops the registration. Lemmas per function of the manager (`MgrParkGood`,
`MgrDropGood`, `MgrEvictGood`, `OnCloseGood`, `ActivateGood`, `HandoverGood`) say that
each keeps `Good`; there is one lemma per action and `StepInv` puts them together.
`RouterKept` is an action property: in every step but a `SetRouter` all sessions keep
their id and router (`Stays`), or one hands them over to the session that resumes it;
either way the session that has an id has the router of the one that had it (`Follows`).
By `OneHeir` there is one such session, the one that `RouterOf` chooses.

The tables and lists need more: who still refers to a session and what it owes.
`Accounted` says it of one session, given the sets of sessions in each table and list: a
session with a connection is active or in `first_idle_`; one in the cache waits, has no
connection and has its timer; one without a connection is closed or will be by a timer
or by the end of its writes; a registered one has its connection or its timer. As it is
about one session, a handler has to be looked at only where it touches that session or
removes it from a list.

InnerStream. `BytesInOrder` speaks of two open ends. When one closes, the bytes it has
queued are dropped, and yet the other must go on reading whole messages, or the hash
check would fail. The invariant has for each direction (`Way`) that what the receiver
holds, what is on the wire, what is queued and what was dropped are together the
frames of the messages sent and not dispatched, and that what was dispatched is a
prefix of what was sent. On the writing side every handler `Grows` an end: it appends
messages to what was sent and their frames to what is queued, merging included
(`MergedOK`). On the reading side, `ScanFrames` shows that the scan cuts the bytes where
the frames end, `RanAll` that the frames are dispatched until one of them closes the
end, and `ReadOK` that `read()` dispatches the first of the messages left and keeps the
beginning of the others, in the head buffer or a block. `RecvOK` says of these two that
the head buffer holds at most a header or there is a block that is not complete, which
is the assertion in `alloc_recv_buffer`.

InnerHandshake. The channels are not bounded, and posts are written all the time, so
the invariant says what may be on a channel in each phase of an exchange: posts with
the key of before, one handshake message, posts with the key of after (`Posts`, `Split`).
A phase is what has been processed of an exchange (`Starting`, `Direct1`, `Direct2`,
`Dh1` to `Dh4`, `Idle`, those of a reconnect); a step stays in its phase when it is a
post and goes to the next when it is the handshake message.

EtcdCluster. The functions of the client are operators on its state, so the invariant
`OK` is one of the client's and the server's state and is shown to be kept by each
function. For each keepalive (`KeepOK`) it says that the check comes before the put, that
a put in flight that is not out of date has the current value and lease, and that what
has been answered is in the store until its lease is gone. No two keepalives in use
have the same path, and no deletor is at work on the path of one in use.

EtcdWatcher. What is on its way matters: the pieces on the wire alternate and continue
the brackets that are open (`Framed`), and the changes they carry continue those that
were received, without a gap, up to where the server has got to (`Chained`). Then the
callbacks are told the next change and no other.

AtproxyManager. A node remembers the time of its check, and that check is in the list
unless `tick()` has set the time to 0 (`Kept`); the loop of `tick()` is a fold over the
list, and within it the checks that were popped and not yet looked at count as well
(`Looping`). `ListOK` bounds how far behind its time a check can be, which is what makes
times far in the past the same.

Induction. The induction theorems of the library take an operator as a parameter, which
the provers here cannot fill in. `FoldProofs` gets induction for sets of natural numbers
from the existence of a least element (`NatMin`, `Induct`), and from it that the recursive
function in `FoldLeft` exists and which states it goes through (`FoldOp`). `InnerStreamProofs`
does the same for `FlattenSeq` and for the recursive function of `Scan`.

Only model-checked: what is about fairness, which TLAPS does not support. That is
`WaitEnds`, `HandshakeEnds`, `FdReleased`, `AwayIsReported`, `GetsConnected`, `Registers`,
`Deletes`, `LeavesNothing`, `UpToDate`, `CloseEnds`, `ExchangeEnds`, `KeyReplaced`, and
`Refines`, as MessageStream promises delivery. Of `Refines` the part about single steps
can be proved and is not yet: the invariant of InnerStreamProofs has that what is
dispatched is a prefix of what was sent, but not how many pongs a call of `read()` writes.

## Plan

1. Proofs: that the steps of InnerStream are steps of MessageStream. It needs of
   `RanAll` also which messages were written meanwhile.
2. An abstract registry that the servers see (an id is added, moves between
   connections, is removed), implemented by GatewaySession, with the proof of its steps
   from `Books`.
3. TimestampIdAllocator: threads at the grain of loads and compare-exchanges, so that
   the freshness of ids is shown and not assumed.
4. Two processes with this client in EtcdCluster, and etcd's compaction in EtcdWatcher.

## Not modelled

- Generated messages, the cryptography itself, JSON and base64 conversions: pure data.
- The C export of the protocol: it forwards calls; the client it serves is an end of
  InnerStream and InnerHandshake.
- Configuration files, command line tools and samples, installation scripts, logging,
  the echo server.
- The reload of the gateway's limits and timeouts; the id allocator, which is in the
  plan.
- Pipes: see GatewaySession.
