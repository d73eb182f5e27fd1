--------------------------- MODULE AtproxyManager ---------------------------
(***************************************************************************)
(* atproxy_manager.cpp: the proxies that etcd announces and the checks      *)
(* that connect them.  The module runs in the loop of the application: the  *)
(* watcher's notifications, tick() and the callbacks of the bus node.       *)
(*                                                                         *)
(* Times are relative to the present: a timeout is the number of seconds    *)
(* left to it, negative once it has passed.  Epoch stands for the time 0,   *)
(* and for everything at least that long ago.                              *)
(***************************************************************************)
EXTENDS Integers, Sequences, FiniteSets, SequencesExt

CONSTANTS
    Proxy, Self,      \* the proxies' ids, and that of this process
    Nil,              \* not announced, not in proxy_set_
    Infos,            \* what a proxy may announce: [listens, version, min]
    Version,          \* the protocol version of this process and
    MinVersion,       \* the oldest it understands
    Usable,           \* the addresses is_remote_address_available accepts
    Live,             \* the addresses at which somebody answers
    RetryInterval,    \* get_conf().retry_interval, in seconds
    MaxLag,           \* bound on how long ago a time is told apart, in seconds
    MaxUpdates,       \* bound on announcements, withdrawals and
    MaxLosses         \* bound on lost connections in a behaviour

ASSUME ConstantsAssumption ==
    /\ Self \in Proxy /\ Nil \notin Infos
    /\ Version \in Nat /\ MinVersion \in Nat
    /\ RetryInterval \in Nat /\ MaxUpdates \in Nat /\ MaxLosses \in Nat
    /\ MaxLag \in Nat

VARIABLES
    announced,  \* the nodes in etcd: proxy -> info or Nil
    proxies,    \* proxy_set_: proxy -> [listens, available, next] or Nil
    checks,     \* check_list_: [p, left]
    dialled,    \* proxies with a connection being made
    endpoints,  \* proxies the bus node has an endpoint of
    stopping,   \* flag_t::STOPING of the application
    bus,        \* get_bus_node() is not NULL
    updates, losses

etcd == <<announced, updates>>
life == <<stopping, bus>>
vars == <<announced, proxies, checks, dialled, endpoints, stopping, bus, updates, losses>>

Epoch == -MaxLag
Addrs == Usable \cup Live \cup UNION {{i.listens[k] : k \in 1..Len(i.listens)} : i \in Infos}
Times == Epoch..(RetryInterval + 1)
Check == [p: Proxy, left: Times]

ASSUME InfosAssumption ==
    \A i \in Infos : i.listens \in Seq(Addrs) /\ i.version \in Nat /\ i.min \in Nat

-----------------------------------------------------------------------------
\* Mutant of NextAddress: the addresses are not rotated.
NextAddress_Same(l) == l

\* next_listen_address
NextAddress(l) == IF Len(l) <= 1 THEN l ELSE Append(Tail(l), Head(l))

\* tick() rotates to the first address this process can use, if there is one
FirstUsable(l) ==
    IF \E k \in 1..Len(l) : l[k] \in Usable
    THEN LET k == CHOOSE j \in 1..Len(l) :
                      l[j] \in Usable /\ \A i \in 1..(j - 1) : l[i] \notin Usable
         IN  SubSeq(l, k, Len(l)) \o SubSeq(l, 1, k - 1)
    ELSE l

RetryDelay == IF RetryInterval > 0 THEN RetryInterval ELSE 1

\* a check waits at most this long behind others once its time has passed: each
\* announcement may put one in front
ASSUME LagAssumption == MaxLag > 1 + RetryDelay + MaxUpdates

Schedule(st, p, left) ==
    [st EXCEPT !.proxies[p].next = left, !.checks = Append(@, [p |-> p, left |-> left])]

\* try to connect to brother proxy, and recheck some time later
Dial(st, p) ==
    LET l == FirstUsable(st.proxies[p].listens)
        d == [st EXCEPT !.proxies[p].listens = NextAddress(l),
                        !.dialled = IF Head(l) \in Live THEN @ \cup {p} ELSE @]
    IN  Schedule(d, p, RetryDelay)

\* Mutant of Skipped: a check is replaced by one of the same time, so by itself.
Skipped_OrEqual(st, c) ==
    \/ c.p = Self
    \/ st.proxies[c.p] = Nil
    \/ st.proxies[c.p].listens = <<>>
    \/ st.proxies[c.p].next >= c.left

\* what tick() skips: itself, removed proxies, proxies without an address, checks
\* that a later one has replaced
Skipped(st, c) ==
    \/ c.p = Self
    \/ st.proxies[c.p] = Nil
    \/ st.proxies[c.p].listens = <<>>
    \/ st.proxies[c.p].next > c.left

\* one round of tick()'s loop, for a check that is due
RunCheck(st, c) ==
    IF Skipped(st, c) THEN st
    ELSE IF ~bus THEN Schedule(st, c.p, 1)
    ELSE IF c.p \in endpoints \/ ~st.proxies[c.p].available
         THEN [st EXCEPT !.proxies[c.p].next = Epoch]
    ELSE Dial(st, c.p)

\* Mutant of Due: the comparison with the present is the wrong way round.
Due_Swapped == {k \in 1..Len(checks) : \A j \in 1..k : checks[j].left > 0}

\* the checks tick() pops: up to the first that is not due
Due == {k \in 1..Len(checks) : \A j \in 1..k : checks[j].left < 0}

\* atproxy_manager::tick
Tick ==
    LET n == Cardinality(Due)
        st == FoldLeft(RunCheck,
                       [proxies |-> proxies, checks |-> SubSeq(checks, n + 1, Len(checks)),
                        dialled |-> dialled],
                       SubSeq(checks, 1, n))
    IN  /\ n > 0
        /\ proxies' = st.proxies
        /\ checks' = st.checks
        /\ dialled' = st.dialled
        /\ UNCHANGED <<etcd, life, endpoints, losses>>

-----------------------------------------------------------------------------
(* on_watcher_notify *)

\* check_available: each side understands the other's version
CheckAvailable(i) == i.version >= MinVersion /\ Version >= i.min

\* atproxy_manager::set of a proxy it knows: a pending check makes it return early
Known(p, i) ==
    /\ proxies[p] # Nil
    /\ \/ /\ proxies[p].next >= 0
          /\ UNCHANGED <<proxies, checks>>
       \/ /\ proxies[p].next < 0
          /\ proxies' = [proxies EXCEPT ![p] = [@ EXCEPT !.next = 0, !.listens = i.listens]]
          /\ checks' = <<[p |-> p, left |-> 0]>> \o checks

\* ... and of a new one
New(p, i) ==
    /\ proxies[p] = Nil
    /\ proxies' = [proxies EXCEPT ![p] = [listens |-> i.listens, next |-> 0,
                                          available |-> CheckAvailable(i)]]
    /\ checks' = <<[p |-> p, left |-> 0]>> \o checks

Announce(p, i) ==
    /\ updates < MaxUpdates
    /\ updates' = updates + 1
    /\ announced' = [announced EXCEPT ![p] = i]
    /\ Known(p, i) \/ New(p, i)
    /\ UNCHANGED <<dialled, endpoints, life, losses>>

\* atproxy_manager::remove
Withdraw(p) ==
    /\ updates < MaxUpdates /\ announced[p] # Nil
    /\ updates' = updates + 1
    /\ announced' = [announced EXCEPT ![p] = Nil]
    /\ proxies' = [proxies EXCEPT ![p] = Nil]
    /\ UNCHANGED <<checks, dialled, endpoints, life, losses>>

-----------------------------------------------------------------------------
(* The bus node. *)

\* a connection this process made, or a peer's; on_connected does nothing
Connected(p) ==
    /\ bus /\ p \in dialled
    /\ dialled' = dialled \ {p}
    /\ endpoints' = endpoints \cup {p}
    /\ UNCHANGED <<etcd, proxies, checks, life, losses>>

PeerConnects(p) ==
    /\ bus /\ p # Self /\ p \notin endpoints
    /\ endpoints' = endpoints \cup {p}
    /\ UNCHANGED <<etcd, proxies, checks, dialled, life, losses>>

\* how long on_disconnected waits
LossDelay == IF stopping THEN -1 ELSE IF bus THEN RetryDelay ELSE 1

\* atproxy_manager::on_disconnected
OnDisconnected(p) ==
    LET st == [proxies |-> proxies, checks |-> checks]
        add == proxies[p] # Nil /\ proxies[p].next < LossDelay
    IN  \/ /\ add
           /\ proxies' = Schedule(st, p, LossDelay).proxies
           /\ checks' = Schedule(st, p, LossDelay).checks
        \/ /\ ~add
           /\ UNCHANGED <<proxies, checks>>

Disconnected(p) ==
    /\ p \in endpoints /\ losses < MaxLosses
    /\ losses' = losses + 1
    /\ endpoints' = endpoints \ {p}
    /\ OnDisconnected(p)
    /\ UNCHANGED <<etcd, dialled, life>>

Stop ==
    /\ ~stopping
    /\ stopping' = TRUE
    /\ UNCHANGED <<etcd, proxies, checks, dialled, endpoints, bus, losses>>

\* "when stoping bus noe may be unavailable"
BusGone ==
    /\ stopping /\ bus
    /\ bus' = FALSE
    /\ UNCHANGED <<etcd, proxies, checks, dialled, endpoints, stopping, losses>>

Elapsed(t) == IF t > Epoch THEN t - 1 ELSE Epoch

\* tick() runs many times a second, so nothing is due when the second ends
Second ==
    /\ Due = {}
    /\ checks' = [k \in 1..Len(checks) |-> [checks[k] EXCEPT !.left = Elapsed(@)]]
    /\ proxies' = [p \in Proxy |-> IF proxies[p] = Nil THEN Nil
                                   ELSE [proxies[p] EXCEPT !.next = Elapsed(@)]]
    /\ UNCHANGED <<etcd, dialled, endpoints, life, losses>>

-----------------------------------------------------------------------------
Init ==
    /\ announced = [p \in Proxy |-> Nil]
    /\ proxies = [p \in Proxy |-> Nil]
    /\ checks = <<>>
    /\ dialled = {}
    /\ endpoints = {}
    /\ stopping = FALSE
    /\ bus = TRUE
    /\ updates = 0
    /\ losses = 0

Next ==
    \/ \E p \in Proxy : \/ \E i \in Infos : Announce(p, i)
                        \/ Withdraw(p)
                        \/ Connected(p) \/ PeerConnects(p) \/ Disconnected(p)
    \/ Tick \/ Second \/ Stop \/ BusGone

Spec == Init /\ [][Next]_vars

(* The application's loop goes on and a connection to somebody who answers is    *)
(* made; nothing is assumed of the announcements and of the peers.              *)
Fairness == /\ WF_vars(Tick) /\ WF_vars(Second)
            /\ \A p \in Proxy : WF_vars(Connected(p))

FairSpec == Spec /\ Fairness

-----------------------------------------------------------------------------
(* Properties. *)

(* The state has its type, and no check in the list is so old that its time is  *)
(* not told apart from the others'.                                             *)
TypeOK ==
    /\ announced \in [Proxy -> Infos \cup {Nil}]
    /\ \A p \in Proxy : proxies[p] # Nil =>
          /\ proxies[p].next \in Times /\ proxies[p].available \in BOOLEAN
          /\ \A k \in 1..Len(proxies[p].listens) : proxies[p].listens[k] \in Addrs
    /\ \A k \in 1..Len(checks) : checks[k] \in Check /\ checks[k].left > Epoch
    /\ dialled \subseteq Proxy /\ endpoints \subseteq Proxy \ {Self}
    /\ stopping \in BOOLEAN /\ bus \in BOOLEAN
    /\ updates \in 0..MaxUpdates /\ losses \in 0..MaxLosses

(* A proxy that may be connected and is not has a check in the list, at the time *)
(* its node remembers: whatever announcements, losses and replaced checks do,   *)
(* tick() never forgets to dial it.                                             *)
NeverForgotten ==
    \A p \in Proxy \ {Self} :
        /\ proxies[p] # Nil
        /\ proxies[p].listens # <<>> /\ proxies[p].available
        /\ p \notin endpoints
        => \E k \in 1..Len(checks) : checks[k] = [p |-> p, left |-> proxies[p].next]

Reachable(p) ==
    /\ ~stopping /\ p # Self /\ proxies[p] # Nil
    /\ proxies[p].available
    /\ \E k \in 1..Len(proxies[p].listens) : proxies[p].listens[k] \in Usable \cap Live

(* A proxy with an address that this process can use and where somebody answers *)
(* is connected in the end: tick() goes through all its addresses.              *)
GetsConnected ==
    \A p \in Proxy \ {Self} : Reachable(p) ~> p \in endpoints \/ ~Reachable(p)

(* "using etcd for service discovery", and etcd is "used for atproxy to connect   *)
(* to each other": a compatible proxy that goes on announcing an address where   *)
(* it can be reached is connected in the end.                                   *)
AnnouncedConnected ==
    \A p \in Proxy \ {Self}, i \in Infos :
        /\ announced[p] = i /\ CheckAvailable(i)
        /\ \E k \in 1..Len(i.listens) : i.listens[k] \in Usable \cap Live
        ~> stopping \/ announced[p] # i \/ p \in endpoints

=============================================================================
