--------------------------- MODULE InnerHandshake ---------------------------
(***************************************************************************)
(* The handshake of libatgw_proto_inner_v1 between a client and the        *)
(* gateway: a new session, a key exchange (the secret sent as it is, or    *)
(* Diffie-Hellman), the exchange of keys while posts are flowing           *)
(* (POST_KEY_SYN), and a reconnect, which proves the old secret and then   *)
(* replaces it.  The channels are the FIFOs of MessageStream.              *)
(*                                                                         *)
(* A crypt_session_t is modelled by the secret it holds: a fresh number    *)
(* for each exchange.  What is encrypted with a secret is decrypted with   *)
(* that secret only.  The library calls that fail without a wrong peer     *)
(* (out of memory, cipher errors) are left out.                            *)
(***************************************************************************)
EXTENDS Integers, Sequences, SequencesExt

CONSTANTS Modes,       \* the key exchanges the gateway may be configured with
          MaxPosts,    \* bound: posts, of both sides together
          MaxUpdates,  \* bound: key updates by the timer
          MaxReloads,  \* bound: reloads of the gateway's configuration
          MaxDrops     \* bound: connections lost

ASSUME ModesAssumption == Modes \subseteq {"none", "direct", "dh"} /\ Modes # {}

VARIABLES mode,   \* the gateway's crypt_global_configure_t: "none" has no cipher
          cli,    \* the client's protocol object
          srv,    \* the gateway's protocol object of this connection
          kept,   \* the gateway's protocol object of the session before
          toSrv,  \* the messages on their way to the gateway
          toCli,  \* the messages on their way to the client
          conn,   \* there is a connection
          fresh,  \* the number of the next secret
          left,   \* what the environment may still do
          seen    \* what went wrong: posts not read, reconnects refused

vars == <<mode, cli, srv, kept, toSrv, toCli, conn, fresh, left, seen>>

NoKey == -2  \* no crypt session
Plain == -1  \* a crypt session without a cipher
Blank == 0   \* a crypt session without a secret

(* The handshake's part of a protocol object.                              *)
NewProto == [hs |-> Blank,        \* crypt_handshake_
             rd |-> NoKey,        \* crypt_read_
             wr |-> NoKey,        \* crypt_write_
             sw |-> "direct",     \* handshake_.switch_secret_type
             dh |-> Blank,        \* handshake_.dh_ctx
             has_data |-> FALSE,  \* handshake_.has_data
             done |-> FALSE,      \* EN_PFT_HANDSHAKE_DONE
             update |-> FALSE,    \* EN_PFT_HANDSHAKE_UPDATE
             closing |-> FALSE,   \* EN_PFT_CLOSING
             sid |-> FALSE]       \* session_id_ is set

Init == /\ mode \in Modes
        /\ cli = NewProto /\ srv = NewProto /\ kept = NewProto
        /\ toSrv = <<>> /\ toCli = <<>>
        /\ conn = FALSE
        /\ fresh = 1
        /\ left = [posts |-> MaxPosts, updates |-> MaxUpdates,
                   reloads |-> MaxReloads, drops |-> MaxDrops]
        /\ seen = [misread |-> FALSE, refused |-> FALSE]

-----------------------------------------------------------------------------
(* The helpers of both sides *)

handshake_done(p) ==
    IF p.done /\ ~p.update THEN p
    ELSE [p EXCEPT !.done = TRUE, !.update = FALSE]

close_handshake(p) == handshake_done([p EXCEPT !.has_data = FALSE, !.dh = Blank])

(* A slip: the exchange is not marked as an update.                        *)
setup_handshake_Unmarked(p, m) ==
    IF p.has_data \/ m = "none" THEN p
    ELSE [p EXCEPT !.sw = m, !.has_data = TRUE]

setup_handshake(p, m) ==
    IF p.has_data \/ m = "none" THEN p
    ELSE [p EXCEPT !.sw = m, !.has_data = TRUE, !.update = TRUE]

(* A handler leaves the object and the messages it wrote.                  *)
Does(p, out) == [p |-> p, out |-> out]

send_kickoff == [step |-> "kickoff"]

(* The key with which the verification text is encrypted.                  *)
send_verify(m, key) == [step |-> "verify", sw |-> m, key |-> key]

(* A handler that fails: dispatch_handshake gives up the handshake and     *)
(* closes the connection.                                                  *)
Fails(p, out) == Does([close_handshake(p) EXCEPT !.closing = TRUE], out)

-----------------------------------------------------------------------------
(* The gateway's side *)

start_rsp(syn, m, key) == [step |-> "start_rsp", syn |-> syn, sw |-> m, key |-> key]

(* pack_handshake_start_rsp: a fresh secret, or fresh parameters.          *)
pack_handshake_start_rsp(p, cipher, syn) ==
    CASE ~cipher ->
            Does(close_handshake([p EXCEPT !.hs = Plain, !.rd = Plain, !.wr = Plain]),
                 <<start_rsp(syn, "direct", Plain)>>)
      [] cipher /\ p.sw = "direct" ->
            Does([p EXCEPT !.hs = fresh, !.wr = fresh],
                 <<start_rsp(syn, "direct", fresh)>>)
      [] cipher /\ p.sw = "dh" /\ p.has_data ->
            Does([p EXCEPT !.dh = fresh], <<start_rsp(syn, "dh", fresh)>>)
      [] OTHER ->
            Does(handshake_done(p), <<>>)

dispatch_handshake_start_req(p, m) ==
    pack_handshake_start_rsp([setup_handshake(p, mode) EXCEPT !.sid = TRUE],
                             m.cipher /\ mode # "none", FALSE)

send_key_syn(p) ==
    IF p.closing \/ p.hs = Plain \/ p.wr = NoKey \/ p.has_data THEN Does(p, <<>>)
    ELSE pack_handshake_start_rsp(setup_handshake([p EXCEPT !.hs = Blank], mode),
                                  TRUE, TRUE)

(* check_reconnect: the client must hold the secret of the old session.    *)
check_reconnect(old, key) ==
    old.sid /\ key = IF old.rd = NoKey THEN old.hs ELSE old.rd

(* A slip: the secret that proved the session stays in use.                *)
dispatch_handshake_reconn_req_Keep(p, m) ==
    IF check_reconnect(kept, m.key)
    THEN LET q == setup_handshake([p EXCEPT !.hs = m.key, !.sid = TRUE], mode)
         IN  Does(close_handshake([q EXCEPT !.rd = m.key, !.wr = m.key]),
                  <<[step |-> "reconn_rsp", ok |-> TRUE, sw |-> q.sw]>>)
    ELSE Fails(p, <<[step |-> "reconn_rsp", ok |-> FALSE, sw |-> p.sw]>>)

(* The code sets the handshake up with the configuration of the old        *)
(* session's secret, here it is the present one: the mode is only in the    *)
(* answer, and the key syn that follows in the same call sets it anew.      *)
dispatch_handshake_reconn_req(p, m) ==
    IF check_reconnect(kept, m.key)
    THEN LET q == setup_handshake([p EXCEPT !.hs = m.key, !.sid = TRUE], mode)
             r == close_handshake([q EXCEPT !.rd = m.key, !.wr = m.key])
             u == send_key_syn(r)
         IN  Does(u.p, <<[step |-> "reconn_rsp", ok |-> TRUE, sw |-> q.sw]>> \o u.out)
    ELSE Does([close_handshake(p) EXCEPT !.closing = TRUE],
              <<[step |-> "reconn_rsp", ok |-> FALSE, sw |-> p.sw], send_kickoff>>)

(* Both sides compute the same secret from the same parameters.            *)
calc_secret(mine, theirs) == IF mine = theirs THEN mine ELSE Blank

dispatch_handshake_dh_pubkey_req(p, m) ==
    IF p.sw # m.sw THEN Fails(p, <<send_kickoff>>)
    ELSE IF ~p.has_data THEN Does(p, <<[step |-> "pubkey_rsp", ok |-> FALSE, key |-> NoKey]>>)
    ELSE LET key == calc_secret(p.dh, m.key)
         IN  Does([p EXCEPT !.hs = key, !.rd = key, !.wr = key],
                  <<[step |-> "pubkey_rsp", ok |-> TRUE, key |-> key]>>)

(* A slip: the key for reading is only taken in a first handshake.         *)
dispatch_handshake_verify_ntf_First(p, m) ==
    Does(close_handshake(IF m.sw = "direct" /\ ~p.done THEN [p EXCEPT !.rd = p.hs] ELSE p),
         <<>>)

dispatch_handshake_verify_ntf(p, m) ==
    LET q == IF m.sw = "direct" THEN [p EXCEPT !.rd = p.hs] ELSE p
    IN  IF q.sw # m.sw \/ q.rd = NoKey \/ (m.sw = "dh" /\ m.key # q.rd)
        THEN Fails(q, <<send_kickoff>>)
        ELSE Does(close_handshake(q), <<>>)

-----------------------------------------------------------------------------
(* The client's side *)

(* The client computes the secret when it sends its public key, and writes *)
(* with it from then on.                                                   *)
pack_handshake_dh_pubkey_req(p, m) ==
    Does([p EXCEPT !.wr = m.key], <<[step |-> "pubkey_req", sw |-> m.sw, key |-> m.key]>>)

(* A slip: the client reads with the new key as soon as it can compute it. *)
dispatch_handshake_start_rsp_Early(p, m) ==
    LET q == close_handshake(setup_handshake([p EXCEPT !.hs = m.key, !.sid = TRUE,
                                                 !.rd = m.key, !.wr = m.key], m.sw))
    IN  CASE m.key = Plain      -> Does(q, <<>>)
          [] m.key # Plain /\ m.sw = "direct" ->
                Does(q, <<send_verify("direct", m.key)>>)
          [] OTHER ->
                pack_handshake_dh_pubkey_req([q EXCEPT !.update = TRUE, !.has_data = TRUE], m)

dispatch_handshake_start_rsp(p, m) ==
    LET q == setup_handshake([p EXCEPT !.hs = m.key, !.sid = TRUE], m.sw)
    IN  CASE p.has_data ->
                Fails([p EXCEPT !.sid = TRUE], <<>>)
          [] ~p.has_data /\ m.key = Plain ->
                Does(close_handshake([q EXCEPT !.rd = Plain, !.wr = Plain]), <<>>)
          [] ~p.has_data /\ m.key # Plain /\ m.sw = "direct" ->
                Does(close_handshake([q EXCEPT !.rd = m.key, !.wr = m.key]),
                     <<send_verify("direct", m.key)>>)
          [] OTHER -> pack_handshake_dh_pubkey_req(q, m)

(* A slip: only a first handshake is verified.                             *)
dispatch_handshake_dh_pubkey_rsp_Quiet(p, m) ==
    Does(close_handshake([p EXCEPT !.rd = p.hs]),
         IF p.done THEN <<>> ELSE <<send_verify(p.sw, p.wr)>>)

dispatch_handshake_dh_pubkey_rsp(p, m) ==
    IF m.ok /\ m.key = p.hs
    THEN Does(close_handshake([p EXCEPT !.rd = p.hs]),
              <<send_verify(p.sw, p.wr)>>)
    ELSE Fails(p, <<>>)

dispatch_handshake_reconn_rsp(p, m) ==
    IF m.ok
    THEN Does(close_handshake([setup_handshake(p, m.sw) EXCEPT
                                  !.sid = TRUE, !.rd = p.hs, !.wr = p.hs]), <<>>)
    ELSE Fails(p, <<>>)

-----------------------------------------------------------------------------
(* Dispatching a message *)

Handler(p, m) ==
    CASE m.step = "start_req"  -> dispatch_handshake_start_req(p, m)
      [] m.step = "start_rsp"  -> dispatch_handshake_start_rsp(p, m)
      [] m.step = "reconn_req" -> dispatch_handshake_reconn_req(p, m)
      [] m.step = "reconn_rsp" -> dispatch_handshake_reconn_rsp(p, m)
      [] m.step = "pubkey_req" -> dispatch_handshake_dh_pubkey_req(p, m)
      [] m.step = "pubkey_rsp" -> dispatch_handshake_dh_pubkey_rsp(p, m)
      [] m.step = "verify"     -> dispatch_handshake_verify_ntf(p, m)

(* The answer to a key syn opens the update; a handshake message that no   *)
(* handshake is open for is ignored.                                       *)
dispatch_handshake(p, m) ==
    LET q == IF m.step = "start_rsp" /\ m.syn THEN [p EXCEPT !.update = TRUE] ELSE p
    IN  IF q.done /\ ~q.update THEN Does(q, <<>>) ELSE Handler(q, m)

Readable(p, m) == p.done /\ p.rd # NoKey /\ m.key = p.rd

(* decode_post fails, or makes something else of the post.                 *)
dispatch_post(p, m) ==
    Does(IF Readable(p, m) THEN p ELSE [p EXCEPT !.closing = TRUE], <<>>)

dispatch_data(p, m) ==
    IF p.closing THEN Does(p, <<>>)
    ELSE CASE m.step = "post"    -> dispatch_post(p, m)
           [] m.step = "kickoff" -> Does([p EXCEPT !.closing = TRUE], <<>>)
           [] OTHER              -> dispatch_handshake(p, m)

Misread(p, m) == ~p.closing /\ m.step = "post" /\ ~Readable(p, m)

(* A new secret is used up by the message that carries it.                 *)
UsedUp(out) ==
    fresh' = IF \E m \in Range(out) : m.step = "start_rsp" /\ m.key = fresh
             THEN fresh + 1 ELSE fresh

SrvDispatch ==
    /\ conn /\ toSrv # <<>>
    /\ LET m == Head(toSrv)
           d == dispatch_data(srv, m)
       IN  /\ srv' = d.p
           /\ toCli' = toCli \o d.out
           /\ UsedUp(d.out)
           /\ seen' = [seen EXCEPT
                 !.misread = @ \/ Misread(srv, m),
                 !.refused = @ \/ (m.step = "reconn_req" /\ d.p.closing /\ kept.done)]
    /\ toSrv' = Tail(toSrv)
    /\ UNCHANGED <<mode, cli, kept, conn, left>>

CliDispatch ==
    /\ conn /\ toCli # <<>>
    /\ LET m == Head(toCli)
           d == dispatch_data(cli, m)
       IN  /\ cli' = d.p
           /\ toSrv' = toSrv \o d.out
           /\ seen' = [seen EXCEPT !.misread = @ \/ Misread(cli, m)]
    /\ toCli' = Tail(toCli)
    /\ UNCHANGED <<mode, srv, kept, conn, fresh, left>>

-----------------------------------------------------------------------------
(* What the two sides and their surroundings do *)

start_session ==
    /\ ~conn /\ ~cli.sid
    /\ conn' = TRUE
    /\ cli' = NewProto /\ srv' = NewProto /\ kept' = NewProto
    /\ \E cipher \in BOOLEAN : toSrv' = <<[step |-> "start_req", cipher |-> cipher]>>
    /\ UNCHANGED <<mode, toCli, fresh, left, seen>>

(* The client connects again with the secret of its last handshake.        *)
reconnect_session ==
    /\ ~conn /\ cli.sid /\ cli.done /\ ~cli.closing
    /\ conn' = TRUE
    /\ cli' = [NewProto EXCEPT !.hs = cli.hs]
    /\ srv' = NewProto /\ kept' = srv
    /\ toSrv' = <<[step |-> "reconn_req", key |-> cli.hs]>>
    /\ UNCHANGED <<mode, toCli, fresh, left, seen>>

CliPost ==
    /\ conn /\ cli.done /\ ~cli.closing /\ cli.wr # NoKey /\ left.posts > 0
    /\ toSrv' = Append(toSrv, [step |-> "post", key |-> cli.wr])
    /\ left' = [left EXCEPT !.posts = @ - 1]
    /\ UNCHANGED <<mode, cli, srv, kept, toCli, conn, fresh, seen>>

SrvPost ==
    /\ conn /\ srv.done /\ ~srv.closing /\ srv.wr # NoKey /\ left.posts > 0
    /\ toCli' = Append(toCli, [step |-> "post", key |-> srv.wr])
    /\ left' = [left EXCEPT !.posts = @ - 1]
    /\ UNCHANGED <<mode, cli, srv, kept, toSrv, conn, fresh, seen>>

(* The session's limit check finds that update_interval has passed.        *)
handshake_update ==
    /\ conn /\ srv.done /\ ~srv.closing /\ left.updates > 0
    /\ LET u == send_key_syn(srv)
       IN  /\ srv' = u.p
           /\ toCli' = toCli \o u.out
           /\ UsedUp(u.out)
    /\ left' = [left EXCEPT !.updates = @ - 1]
    /\ UNCHANGED <<mode, cli, kept, toSrv, conn, seen>>

global_reload ==
    /\ left.reloads > 0
    /\ mode' \in Modes
    /\ left' = [left EXCEPT !.reloads = @ - 1]
    /\ UNCHANGED <<cli, srv, kept, toSrv, toCli, conn, fresh, seen>>

(* The connection is lost with what is on its way.  A session whose        *)
(* handshake is not done is not there to reconnect to.                     *)
Drop ==
    /\ conn /\ left.drops > 0
    /\ conn' = FALSE
    /\ toSrv' = <<>> /\ toCli' = <<>>
    /\ srv' = IF srv.done THEN srv ELSE NewProto
    /\ cli' = IF cli.done THEN cli ELSE NewProto
    /\ left' = [left EXCEPT !.drops = @ - 1]
    /\ UNCHANGED <<mode, kept, fresh, seen>>

Next == \/ start_session \/ reconnect_session
        \/ SrvDispatch \/ CliDispatch
        \/ SrvPost \/ CliPost
        \/ handshake_update \/ global_reload \/ Drop

Spec == Init /\ [][Next]_vars

(* The channels deliver (MessageStream).                                   *)
FairSpec == Spec /\ WF_vars(SrvDispatch) /\ WF_vars(CliDispatch)

-----------------------------------------------------------------------------
(* Properties *)

Keys == {NoKey, Plain, Blank} \cup 1..(fresh - 1)

(* Type correctness of the two protocol objects: an object that is done    *)
(* with its handshake has both keys, and a running exchange is open.       *)
TypeOK ==
    /\ mode \in Modes
    /\ \A p \in {cli, srv, kept} :
          /\ {p.hs, p.rd, p.wr, p.dh} \subseteq Keys
          /\ p.done /\ ~p.closing => p.rd # NoKey /\ p.wr # NoKey
          /\ p.has_data => p.update

(* Whatever posts are on their way while keys are exchanged, each is read  *)
(* with the key it was written with: no post is refused or garbled because *)
(* one side took a new key too early or too late.                          *)
PostsRead == ~seen.misread

(* When no handshake message is on its way, each side reads with the key   *)
(* the other writes with.                                                  *)
Agreement ==
    LET quiet == \A m \in Range(toSrv) \cup Range(toCli) : m.step = "post"
    IN  conn /\ quiet /\ ~cli.closing /\ ~srv.closing /\ (cli.sid \/ srv.sid) =>
           cli.rd = srv.wr /\ srv.rd = cli.wr

(* An exchange of keys ends, unless the connection is lost.                *)
ExchangeEnds == (conn /\ srv.has_data) ~> (~conn \/ ~srv.has_data)

(* "change key immediately, in case of Man-in-the-Middle Attack": after a  *)
(* reconnect the secret that proved it does not stay in use.               *)
KeyReplaced ==
    \A k \in 1..(1 + MaxUpdates + MaxDrops) :
        (conn /\ kept.rd = k /\ srv.rd = k) ~> (~conn \/ srv.closing \/ srv.rd # k)

(* "use read handle first, maybe the new handshake not finished": a client *)
(* whose session the gateway still has is not refused, even if the         *)
(* connection was lost in the middle of an exchange of keys.               *)
CanReconnect == ~seen.refused

=============================================================================
