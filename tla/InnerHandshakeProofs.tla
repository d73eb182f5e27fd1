------------------------ MODULE InnerHandshakeProofs ------------------------
(***************************************************************************)
(* Proofs about InnerHandshake: whatever is posted while keys are          *)
(* exchanged, replaced or proved again by a reconnect, each post is read   *)
(* with the key it was written with, and the two sides agree on the keys   *)
(* when no handshake message is on its way.                                *)
(*                                                                         *)
(* The channels are not bounded, so the invariant says what may be on them *)
(* at each point of an exchange: posts with the key of before, then one    *)
(* handshake message, then posts with the key of after.                    *)
(***************************************************************************)
EXTENDS InnerHandshake, SequenceTheorems, TLAPS

-----------------------------------------------------------------------------
(* What is on a channel *)

Post(k) == [step |-> "post", key |-> k]

(* A post that was written with key k; nothing is written without a key.   *)
IsPost(m, k) == k # NoKey /\ m = Post(k)

(* Only posts with key k.                                                  *)
Posts(ch, k) == \A i \in 1..Len(ch) : IsPost(ch[i], k)

(* Posts with key o, the message m, and then posts with key k.             *)
Split(ch, o, m, k) ==
    \E n \in 1..Len(ch) :
        /\ ch[n] = m
        /\ \A i \in 1..Len(ch) : /\ i < n => IsPost(ch[i], o)
                                 /\ i > n => IsPost(ch[i], k)

Message ==
    [step : {"post"}, key : Int] \cup [step : {"kickoff"}]
    \cup [step : {"verify"}, sw : {"direct", "dh"}, key : Int]
    \cup [step : {"start_req"}, cipher : BOOLEAN]
    \cup [step : {"start_rsp"}, syn : BOOLEAN, sw : {"direct", "dh"}, key : Int]
    \cup [step : {"reconn_req"}, key : Int]
    \cup [step : {"reconn_rsp"}, ok : BOOLEAN, sw : {"direct", "dh"}]
    \cup [step : {"pubkey_req"}, sw : {"direct", "dh"}, key : Int]
    \cup [step : {"pubkey_rsp"}, ok : BOOLEAN, key : Int]

-----------------------------------------------------------------------------
(* What the protocol objects are *)

Proto == [hs : Int, rd : Int, wr : Int, sw : {"direct", "dh"}, dh : Int,
          has_data : BOOLEAN, done : BOOLEAN, update : BOOLEAN,
          closing : BOOLEAN, sid : BOOLEAN]

(* The keys there are when f is the number of the next secret.             *)
KeysOf(f) == {NoKey, Plain, Blank} \cup 1..(f - 1)

ProtoOK(p, f) ==
    /\ p \in Proto
    /\ p.hs \in KeysOf(f) /\ p.rd \in KeysOf(f)
    /\ p.wr \in KeysOf(f) /\ p.dh \in KeysOf(f)
    /\ p.hs # NoKey
    /\ p.done /\ ~p.closing => p.rd # NoKey /\ p.wr # NoKey
    /\ p.has_data => p.update

(* The keys with which an object reads posts and writes them.              *)
Reads(p) == IF p.done THEN p.rd ELSE NoKey
Writes(p) == IF p.done THEN p.wr ELSE NoKey

-----------------------------------------------------------------------------
(* The phases of an exchange, for client c, gateway s and the channels a   *)
(* to the gateway and b to the client.                                     *)

accepted(sw) == [step |-> "reconn_rsp", ok |-> TRUE, sw |-> sw]
refused(sw) == [step |-> "reconn_rsp", ok |-> FALSE, sw |-> sw]
pubkey_req(k) == [step |-> "pubkey_req", sw |-> "dh", key |-> k]
pubkey_rsp(k) == [step |-> "pubkey_rsp", ok |-> TRUE, key |-> k]

(* The gateway has an exchange of the given kind open.                     *)
Serving(s, m) == s.sw = m /\ s.has_data /\ s.update

(* A new connection: the gateway has the client's first message to read.   *)
Starting(c, s, a, b) ==
    /\ b = <<>> /\ s = NewProto /\ ~c.done /\ ~c.has_data
    /\ \/ \E cipher \in BOOLEAN : a = <<[step |-> "start_req", cipher |-> cipher]>>
       \/ a = <<[step |-> "reconn_req", key |-> c.hs]>>

(* No exchange is open.                                                    *)
Idle(c, s, a, b) ==
    /\ c.done /\ s.done /\ ~c.has_data /\ ~s.has_data
    /\ c.rd = s.wr /\ s.rd = c.wr /\ s.rd = s.wr
    /\ Posts(a, s.rd) /\ Posts(b, s.rd)

(* A session without encryption: the client has yet to hear of it.         *)
Plainly(c, s, a, b) ==
    /\ s.done /\ ~s.has_data /\ s.hs = Plain /\ s.rd = Plain /\ s.wr = Plain
    /\ ~c.done /\ ~c.has_data /\ a = <<>>
    /\ \/ Split(b, NoKey, start_rsp(FALSE, "direct", Plain), Plain)
       \/ /\ c.hs = Plain
          /\ \E sw \in {"direct", "dh"} : Split(b, NoKey, accepted(sw), Plain)

(* The secret itself: on its way to the client, and back.                  *)
Direct1(c, s, a, b, k) ==
    /\ Serving(s, "direct") /\ s.hs = k /\ s.wr = k
    /\ ~c.has_data /\ (c.done <=> s.done)
    /\ Reads(c) = Reads(s) /\ Writes(c) = Reads(s)
    /\ Posts(a, Reads(s))
    /\ \E syn \in BOOLEAN : /\ c.done => syn
                            /\ Split(b, Reads(c), start_rsp(syn, "direct", k), k)

Direct2(c, s, a, b, k) ==
    /\ Serving(s, "direct") /\ s.hs = k /\ s.wr = k
    /\ ~c.has_data /\ c.done /\ c.rd = k /\ c.wr = k
    /\ Split(a, Reads(s), send_verify("direct", k), k)
    /\ Posts(b, k)

(* Diffie-Hellman: parameters, public keys of both sides, verification.    *)
Dh1(c, s, a, b, k) ==
    /\ Serving(s, "dh") /\ s.dh = k
    /\ ~c.has_data /\ (c.done <=> s.done)
    /\ Reads(c) = Reads(s) /\ Writes(c) = Reads(s) /\ Writes(s) = Reads(s)
    /\ Posts(a, Reads(s))
    /\ \E syn \in BOOLEAN : /\ c.done => syn
                            /\ Split(b, Reads(c), start_rsp(syn, "dh", k), Reads(c))

(* The client has sent its public key and waits for the gateway's.         *)
Asking(c, k) == c.sw = "dh" /\ c.has_data /\ c.update /\ c.hs = k /\ c.wr = k

Dh2(c, s, a, b, k) ==
    /\ Serving(s, "dh") /\ s.dh = k
    /\ Asking(c, k) /\ (c.done <=> s.done)
    /\ Reads(c) = Reads(s) /\ Writes(s) = Reads(s)
    /\ Split(a, Reads(s), pubkey_req(k), Writes(c))
    /\ Posts(b, Reads(c))

Dh3(c, s, a, b, k) ==
    /\ Serving(s, "dh") /\ s.rd = k /\ s.wr = k
    /\ Asking(c, k) /\ (c.done <=> s.done)
    /\ Posts(a, Reads(s))
    /\ Split(b, Reads(c), pubkey_rsp(k), k)

Dh4(c, s, a, b, k) ==
    /\ Serving(s, "dh") /\ s.rd = k /\ s.wr = k
    /\ ~c.has_data /\ c.done /\ c.rd = k /\ c.wr = k
    /\ Split(a, Reads(s), send_verify("dh", k), k)
    /\ Posts(b, k)

(* A reconnect was accepted: the client has yet to hear of it, and of the  *)
(* exchange that replaces the secret that proved it.                       *)
Resumed(c, s, a, b) ==
    /\ s.done /\ s.rd = c.hs
    /\ ~c.done /\ ~c.has_data /\ a = <<>> /\ b # <<>>
    /\ \E sw \in {"direct", "dh"} : Head(b) = accepted(sw)

Resumed1(c, s, a, b, k) ==
    /\ Resumed(c, s, a, b)
    /\ \/ /\ Serving(s, "direct") /\ s.hs = k /\ s.wr = k
          /\ Split(Tail(b), NoKey, start_rsp(TRUE, "direct", k), k)
       \/ /\ Serving(s, "dh") /\ s.dh = k /\ s.wr = c.hs
          /\ Split(Tail(b), NoKey, start_rsp(TRUE, "dh", k), c.hs)

(* A reconnect was refused.                                                *)
Refused(c, s, a, b) ==
    /\ s.closing /\ a = <<>>
    /\ c.done => c.closing
    /\ \A i \in 1..Len(b) : \/ b[i] = send_kickoff
                            \/ \E sw \in {"direct", "dh"} : b[i] = refused(sw)

Exchange(c, s, a, b, k) ==
    \/ Direct1(c, s, a, b, k) \/ Direct2(c, s, a, b, k)
    \/ Dh1(c, s, a, b, k) \/ Dh2(c, s, a, b, k)
    \/ Dh3(c, s, a, b, k) \/ Dh4(c, s, a, b, k)
    \/ Resumed1(c, s, a, b, k)

Open(c, s, a, b, f) ==
    \/ Starting(c, s, a, b) \/ Idle(c, s, a, b) \/ Plainly(c, s, a, b)
    \/ \E k \in 1..(f - 1) : Exchange(c, s, a, b, k)

Phase(c, s, a, b, f) ==
    \/ Refused(c, s, a, b)
    \/ ~c.closing /\ ~s.closing /\ Open(c, s, a, b, f)

(* The inductive invariant.                                                *)
IndInv ==
    /\ mode \in Modes
    /\ fresh \in Nat \ {0}
    /\ ProtoOK(cli, fresh) /\ ProtoOK(srv, fresh) /\ ProtoOK(kept, fresh)
    /\ toSrv \in Seq(Message) /\ toCli \in Seq(Message)
    /\ conn \in BOOLEAN
    /\ seen \in [misread : BOOLEAN, refused : BOOLEAN]
    /\ conn => Phase(cli, srv, toSrv, toCli, fresh)
    /\ ~conn => toSrv = <<>> /\ toCli = <<>>
    /\ ~seen.misread

-----------------------------------------------------------------------------
(* Lemmas about channels *)

(* Taking the first message of a channel that holds posts only.            *)
LEMMA PostsTaken ==
    ASSUME NEW M, NEW ch \in Seq(M), NEW k, Posts(ch, k), ch # <<>>
    PROVE  IsPost(Head(ch), k) /\ Posts(Tail(ch), k)
  BY DEF Posts

(* Writing another post.                                                   *)
LEMMA PostsAdded ==
    ASSUME NEW M, NEW ch \in Seq(M), NEW k, Posts(ch, k), NEW m \in M, IsPost(m, k)
    PROVE  Posts(Append(ch, m), k)
  BY DEF Posts

(* Nothing is written without a key.                                       *)
LEMMA PostsNone ==
    ASSUME NEW M, NEW ch \in Seq(M), Posts(ch, NoKey)
    PROVE  ch = <<>>
  <1>1. ~(1 \in 1..Len(ch))  BY DEF Posts, IsPost
  <1> QED  BY <1>1

(* An empty channel holds only posts.                                      *)
LEMMA NonePosts ==
    ASSUME NEW k
    PROVE  Posts(<<>>, k)
  BY DEF Posts

(* Writing a handshake message after posts with the key of before.         *)
LEMMA SplitBegun ==
    ASSUME NEW M, NEW ch \in Seq(M), NEW o, NEW k, Posts(ch, o), NEW m \in M
    PROVE  Split(ch \o <<m>>, o, m, k)
  <1> DEFINE d == ch \o <<m>>
  <1>1. Len(d) = Len(ch) + 1 /\ Len(d) \in 1..Len(d) /\ d[Len(d)] = m  OBVIOUS
  <1>2. \A i \in 1..Len(ch) : d[i] = ch[i]  OBVIOUS
  <1> HIDE DEF d
  <1>3. \A i \in 1..Len(d) : /\ i < Len(d) => IsPost(d[i], o)
                             /\ i > Len(d) => IsPost(d[i], k)
    BY <1>1, <1>2 DEF Posts
  <1>4. Split(d, o, m, k)  BY <1>1, <1>3 DEF Split
  <1> QED  BY <1>4 DEF d

(* A post with the new key is written after the handshake message.         *)
LEMMA SplitAdded ==
    ASSUME NEW M, NEW ch \in Seq(M), NEW o, NEW k, NEW m, Split(ch, o, m, k),
           NEW p \in M, IsPost(p, k)
    PROVE  Split(Append(ch, p), o, m, k)
  <1> DEFINE d == Append(ch, p)
  <1>1. Len(d) = Len(ch) + 1 /\ d[Len(d)] = p  OBVIOUS
  <1>2. \A i \in 1..Len(ch) : d[i] = ch[i]  OBVIOUS
  <1>3. Len(ch) \in Nat  OBVIOUS
  <1> HIDE DEF d
  <1>4. PICK n \in 1..Len(ch) :
           /\ ch[n] = m
           /\ \A i \in 1..Len(ch) : /\ i < n => IsPost(ch[i], o)
                                    /\ i > n => IsPost(ch[i], k)
    BY DEF Split
  <1>5. n \in 1..Len(d) /\ d[n] = m  BY <1>1, <1>2, <1>3, <1>4
  <1>6. ASSUME NEW i \in 1..Len(d)
        PROVE  /\ i < n => IsPost(d[i], o)
               /\ i > n => IsPost(d[i], k)
    BY <1>1, <1>2, <1>3, <1>4
  <1>7. Split(d, o, m, k)  BY <1>5, <1>6 DEF Split
  <1> QED  BY <1>7 DEF d

(* The first message is a post with the key of before, or the message.     *)
LEMMA SplitTaken ==
    ASSUME NEW M, NEW ch \in Seq(M), NEW o, NEW k, NEW m, Split(ch, o, m, k)
    PROVE  /\ ch # <<>>
           /\ \/ IsPost(Head(ch), o) /\ Split(Tail(ch), o, m, k)
              \/ Head(ch) = m /\ Posts(Tail(ch), k)
  <1> DEFINE d == Tail(ch)
  <1>1. PICK n \in 1..Len(ch) :
           /\ ch[n] = m
           /\ \A i \in 1..Len(ch) : /\ i < n => IsPost(ch[i], o)
                                    /\ i > n => IsPost(ch[i], k)
    BY DEF Split
  <1>2. Len(ch) \in Nat /\ ch # <<>> /\ Head(ch) = ch[1] /\ Len(d) = Len(ch) - 1
    BY <1>1
  <1>3. \A i \in 1..Len(d) : d[i] = ch[i + 1]  BY <1>1
  <1> HIDE DEF d
  <1>4. CASE n = 1
    <2>1. Posts(d, k)
      <3> SUFFICES ASSUME NEW i \in 1..Len(d)  PROVE IsPost(d[i], k)  BY DEF Posts
      <3>1. i + 1 \in 1..Len(ch) /\ i + 1 > n  BY <1>2, <1>4
      <3> QED  BY <3>1, <1>1, <1>3
    <2> QED  BY <2>1, <1>1, <1>2, <1>4 DEF d
  <1>5. CASE n # 1
    <2>1. IsPost(Head(ch), o)  BY <1>1, <1>2, <1>5
    <2>2. n - 1 \in 1..Len(d) /\ d[n - 1] = m  BY <1>1, <1>2, <1>3, <1>5
    <2>3. ASSUME NEW i \in 1..Len(d)
          PROVE  /\ i < n - 1 => IsPost(d[i], o)
                 /\ i > n - 1 => IsPost(d[i], k)
      <3>1. i + 1 \in 1..Len(ch)  BY <1>2
      <3>2. /\ i + 1 < n => IsPost(d[i], o)
            /\ i + 1 > n => IsPost(d[i], k)
        BY <3>1, <1>1, <1>3
      <3> QED  BY <3>2
    <2>4. Split(d, o, m, k)  BY <2>2, <2>3 DEF Split
    <2> QED  BY <2>1, <2>4, <1>2 DEF d
  <1> QED  BY <1>4, <1>5

(* What begins with a handshake message may follow any key.                *)
LEMMA SplitAny ==
    ASSUME NEW M, NEW ch \in Seq(M), NEW o, NEW k, NEW m, Split(ch, NoKey, m, k)
    PROVE  Split(ch, o, m, k)
  BY DEF Split, IsPost

(* A channel with a handshake message is not quiet.                        *)
LEMMA SplitHolds ==
    ASSUME NEW M, NEW ch \in Seq(M), NEW o, NEW k, NEW m, Split(ch, o, m, k)
    PROVE  m \in Range(ch)
  BY DEF Split, Range


-----------------------------------------------------------------------------
(* What a message does to the object that reads it *)

(* A post with the key the object reads with changes nothing.              *)
LEMMA PostIsRead ==
    ASSUME NEW p, ~p.closing, NEW m, IsPost(m, Reads(p))
    PROVE  dispatch_data(p, m) = Does(p, <<>>) /\ ~Misread(p, m)
  <1>1. p.done /\ p.rd # NoKey /\ m = Post(p.rd)  BY DEF IsPost, Reads
  <1>2. m.step = "post" /\ m.key = p.rd  BY <1>1 DEF Post
  <1>3. Readable(p, m)  BY <1>1, <1>2 DEF Readable
  <1> QED  BY <1>2, <1>3 DEF dispatch_data, dispatch_post, Misread

(* An object that is closing reads nothing.                                *)
LEMMA ClosingReadsNothing ==
    ASSUME NEW p, p.closing, NEW m
    PROVE  dispatch_data(p, m) = Does(p, <<>>) /\ ~Misread(p, m)
  BY DEF dispatch_data, Misread

(* Only a post can be misread.                                             *)
LEMMA HandshakeIsRead ==
    ASSUME NEW p, NEW m, m.step # "post"
    PROVE  ~Misread(p, m)
  BY DEF Misread

(* A handshake message goes to its handler while a handshake is open.      *)
LEMMA Dispatched ==
    ASSUME NEW p, ~p.closing, NEW m, m.step # "post", m.step # "kickoff",
           m.step # "start_rsp", p.done => p.update
    PROVE  dispatch_data(p, m) = Handler(p, m)
  BY DEF dispatch_data, dispatch_handshake

(* START_RSP opens a key update first when it says so.                     *)
LEMMA DispatchedStart ==
    ASSUME NEW p \in Proto, ~p.closing, NEW m, m.step = "start_rsp", m.syn \in BOOLEAN,
           p.done => m.syn
    PROVE  \E q \in Proto :
              /\ dispatch_data(p, m) = dispatch_handshake_start_rsp(q, m)
              /\ q = IF m.syn THEN [p EXCEPT !.update = TRUE] ELSE p
  <1> DEFINE q == IF m.syn THEN [p EXCEPT !.update = TRUE] ELSE p
  <1>1. q \in Proto  BY DEF Proto
  <1>2. (q.done => q.update)  BY DEF Proto
  <1>3. dispatch_data(p, m) = Handler(q, m)
    BY <1>2 DEF dispatch_data, dispatch_handshake
  <1>4. Handler(q, m) = dispatch_handshake_start_rsp(q, m)  BY DEF Handler
  <1> QED  BY <1>1, <1>3, <1>4


(* What closing a handshake leaves: a done handshake, no exchange open.    *)
LEMMA ClosedHandshake ==
    ASSUME NEW p \in Proto
    PROVE  LET q == close_handshake(p)
           IN  /\ q \in Proto
               /\ q.hs = p.hs /\ q.rd = p.rd /\ q.wr = p.wr /\ q.dh = Blank /\ q.sw = p.sw
               /\ q.done /\ ~q.has_data /\ ~q.update
               /\ q.closing = p.closing /\ q.sid = p.sid
  <1> DEFINE q1 == [p EXCEPT !.has_data = FALSE, !.dh = Blank]
             q2 == [q1 EXCEPT !.done = TRUE, !.update = FALSE]
  <1>0. Blank \in Int  BY DEF Blank
  <1>1. q1 \in Proto  BY <1>0 DEF Proto
  <1>2. /\ q1.hs = p.hs /\ q1.rd = p.rd /\ q1.wr = p.wr /\ q1.dh = Blank /\ q1.sw = p.sw
        /\ ~q1.has_data /\ q1.closing = p.closing /\ q1.sid = p.sid
    BY DEF Proto
  <1>3. close_handshake(p) = IF q1.done /\ ~q1.update THEN q1 ELSE q2
    BY DEF close_handshake, handshake_done
  <1> HIDE DEF q1
  <1>4. q2 \in Proto  BY <1>1 DEF Proto
  <1>5. /\ q2.hs = q1.hs /\ q2.rd = q1.rd /\ q2.wr = q1.wr /\ q2.dh = q1.dh /\ q2.sw = q1.sw
        /\ q2.done /\ ~q2.update /\ q2.has_data = q1.has_data
        /\ q2.closing = q1.closing /\ q2.sid = q1.sid
    BY <1>1 DEF Proto
  <1> HIDE DEF q2
  <1>6. CASE q1.done /\ ~q1.update
    BY <1>1, <1>2, <1>3, <1>6
  <1>7. CASE ~(q1.done /\ ~q1.update)
    BY <1>2, <1>3, <1>4, <1>5, <1>7
  <1> QED  BY <1>6, <1>7

(* What opening an exchange leaves.                                        *)
LEMMA OpenedHandshake ==
    ASSUME NEW p \in Proto, ~p.has_data, NEW m \in {"direct", "dh"}
    PROVE  LET q == setup_handshake(p, m)
           IN  /\ q \in Proto
               /\ q.hs = p.hs /\ q.rd = p.rd /\ q.wr = p.wr /\ q.dh = p.dh /\ q.sw = m
               /\ q.done = p.done /\ q.has_data /\ q.update
               /\ q.closing = p.closing /\ q.sid = p.sid
  <1> DEFINE q == [p EXCEPT !.sw = m, !.has_data = TRUE, !.update = TRUE]
  <1>1. setup_handshake(p, m) = q  BY DEF setup_handshake
  <1>2. q \in Proto  BY DEF Proto
  <1>3. /\ q.hs = p.hs /\ q.rd = p.rd /\ q.wr = p.wr /\ q.dh = p.dh /\ q.sw = m
        /\ q.done = p.done /\ q.has_data /\ q.update
        /\ q.closing = p.closing /\ q.sid = p.sid
    BY DEF Proto
  <1> HIDE DEF q
  <1> QED  BY <1>1, <1>2, <1>3

(* What the assignments of the handlers leave.                             *)
LEMMA SetSecretId ==
    ASSUME NEW p \in Proto, NEW k \in Int
    PROVE  LET q == [p EXCEPT !.hs = k, !.sid = TRUE]
           IN  /\ q \in Proto
               /\ q.hs = k /\ q.rd = p.rd /\ q.wr = p.wr /\ q.dh = p.dh /\ q.sw = p.sw
               /\ q.done = p.done /\ q.has_data = p.has_data /\ q.update = p.update /\ q.closing = p.closing /\ q.sid
  <1> DEFINE q == [p EXCEPT !.hs = k, !.sid = TRUE]
  <1>1. q \in Proto  BY DEF Proto
  <1>2. /\ q.hs = k /\ q.rd = p.rd /\ q.wr = p.wr /\ q.dh = p.dh /\ q.sw = p.sw
        /\ q.done = p.done /\ q.has_data = p.has_data /\ q.update = p.update /\ q.closing = p.closing /\ q.sid
    BY DEF Proto
  <1> QED  BY <1>1, <1>2

(* crypt_read_ and crypt_write_ are replaced together.                     *)
LEMMA SetReadWrite ==
    ASSUME NEW p \in Proto, NEW k \in Int
    PROVE  LET q == [p EXCEPT !.rd = k, !.wr = k]
           IN  /\ q \in Proto
               /\ q.hs = p.hs /\ q.rd = k /\ q.wr = k /\ q.dh = p.dh /\ q.sw = p.sw
               /\ q.done = p.done /\ q.has_data = p.has_data /\ q.update = p.update /\ q.closing = p.closing /\ q.sid = p.sid
  <1> DEFINE q == [p EXCEPT !.rd = k, !.wr = k]
  <1>1. q \in Proto  BY DEF Proto
  <1>2. /\ q.hs = p.hs /\ q.rd = k /\ q.wr = k /\ q.dh = p.dh /\ q.sw = p.sw
        /\ q.done = p.done /\ q.has_data = p.has_data /\ q.update = p.update /\ q.closing = p.closing /\ q.sid = p.sid
    BY DEF Proto
  <1> QED  BY <1>1, <1>2

(* crypt_handshake_ gets a secret.                                         *)
LEMMA SetSecret ==
    ASSUME NEW p \in Proto, NEW k \in Int
    PROVE  LET q == [p EXCEPT !.hs = k]
           IN  /\ q \in Proto
               /\ q.hs = k /\ q.rd = p.rd /\ q.wr = p.wr /\ q.dh = p.dh /\ q.sw = p.sw
               /\ q.done = p.done /\ q.has_data = p.has_data /\ q.update = p.update /\ q.closing = p.closing /\ q.sid = p.sid
  <1> DEFINE q == [p EXCEPT !.hs = k]
  <1>1. q \in Proto  BY DEF Proto
  <1>2. /\ q.hs = k /\ q.rd = p.rd /\ q.wr = p.wr /\ q.dh = p.dh /\ q.sw = p.sw
        /\ q.done = p.done /\ q.has_data = p.has_data /\ q.update = p.update /\ q.closing = p.closing /\ q.sid = p.sid
    BY DEF Proto
  <1> QED  BY <1>1, <1>2

(* A secret that is also written with from now on.                         *)
LEMMA SetSecretWrite ==
    ASSUME NEW p \in Proto, NEW k \in Int
    PROVE  LET q == [p EXCEPT !.hs = k, !.wr = k]
           IN  /\ q \in Proto
               /\ q.hs = k /\ q.rd = p.rd /\ q.wr = k /\ q.dh = p.dh /\ q.sw = p.sw
               /\ q.done = p.done /\ q.has_data = p.has_data /\ q.update = p.update /\ q.closing = p.closing /\ q.sid = p.sid
  <1> DEFINE q == [p EXCEPT !.hs = k, !.wr = k]
  <1>1. q \in Proto  BY DEF Proto
  <1>2. /\ q.hs = k /\ q.rd = p.rd /\ q.wr = k /\ q.dh = p.dh /\ q.sw = p.sw
        /\ q.done = p.done /\ q.has_data = p.has_data /\ q.update = p.update /\ q.closing = p.closing /\ q.sid = p.sid
    BY DEF Proto
  <1> QED  BY <1>1, <1>2

(* The parameters of an exchange are stored.                               *)
LEMMA SetParameters ==
    ASSUME NEW p \in Proto, NEW k \in Int
    PROVE  LET q == [p EXCEPT !.dh = k]
           IN  /\ q \in Proto
               /\ q.hs = p.hs /\ q.rd = p.rd /\ q.wr = p.wr /\ q.dh = k /\ q.sw = p.sw
               /\ q.done = p.done /\ q.has_data = p.has_data /\ q.update = p.update /\ q.closing = p.closing /\ q.sid = p.sid
  <1> DEFINE q == [p EXCEPT !.dh = k]
  <1>1. q \in Proto  BY DEF Proto
  <1>2. /\ q.hs = p.hs /\ q.rd = p.rd /\ q.wr = p.wr /\ q.dh = k /\ q.sw = p.sw
        /\ q.done = p.done /\ q.has_data = p.has_data /\ q.update = p.update /\ q.closing = p.closing /\ q.sid = p.sid
    BY DEF Proto
  <1> QED  BY <1>1, <1>2

(* The secret replaces all three.                                          *)
LEMMA SetAll ==
    ASSUME NEW p \in Proto, NEW k \in Int
    PROVE  LET q == [p EXCEPT !.hs = k, !.rd = k, !.wr = k]
           IN  /\ q \in Proto
               /\ q.hs = k /\ q.rd = k /\ q.wr = k /\ q.dh = p.dh /\ q.sw = p.sw
               /\ q.done = p.done /\ q.has_data = p.has_data /\ q.update = p.update /\ q.closing = p.closing /\ q.sid = p.sid
  <1> DEFINE q == [p EXCEPT !.hs = k, !.rd = k, !.wr = k]
  <1>1. q \in Proto  BY DEF Proto
  <1>2. /\ q.hs = k /\ q.rd = k /\ q.wr = k /\ q.dh = p.dh /\ q.sw = p.sw
        /\ q.done = p.done /\ q.has_data = p.has_data /\ q.update = p.update /\ q.closing = p.closing /\ q.sid = p.sid
    BY DEF Proto
  <1> QED  BY <1>1, <1>2

(* Only crypt_write_ is replaced.                                          *)
LEMMA SetWrite ==
    ASSUME NEW p \in Proto, NEW k \in Int
    PROVE  LET q == [p EXCEPT !.wr = k]
           IN  /\ q \in Proto
               /\ q.hs = p.hs /\ q.rd = p.rd /\ q.wr = k /\ q.dh = p.dh /\ q.sw = p.sw
               /\ q.done = p.done /\ q.has_data = p.has_data /\ q.update = p.update /\ q.closing = p.closing /\ q.sid = p.sid
  <1> DEFINE q == [p EXCEPT !.wr = k]
  <1>1. q \in Proto  BY DEF Proto
  <1>2. /\ q.hs = p.hs /\ q.rd = p.rd /\ q.wr = k /\ q.dh = p.dh /\ q.sw = p.sw
        /\ q.done = p.done /\ q.has_data = p.has_data /\ q.update = p.update /\ q.closing = p.closing /\ q.sid = p.sid
    BY DEF Proto
  <1> QED  BY <1>1, <1>2

(* Only crypt_read_ is replaced.                                           *)
LEMMA SetRead ==
    ASSUME NEW p \in Proto, NEW k \in Int
    PROVE  LET q == [p EXCEPT !.rd = k]
           IN  /\ q \in Proto
               /\ q.hs = p.hs /\ q.rd = k /\ q.wr = p.wr /\ q.dh = p.dh /\ q.sw = p.sw
               /\ q.done = p.done /\ q.has_data = p.has_data /\ q.update = p.update /\ q.closing = p.closing /\ q.sid = p.sid
  <1> DEFINE q == [p EXCEPT !.rd = k]
  <1>1. q \in Proto  BY DEF Proto
  <1>2. /\ q.hs = p.hs /\ q.rd = k /\ q.wr = p.wr /\ q.dh = p.dh /\ q.sw = p.sw
        /\ q.done = p.done /\ q.has_data = p.has_data /\ q.update = p.update /\ q.closing = p.closing /\ q.sid = p.sid
    BY DEF Proto
  <1> QED  BY <1>1, <1>2

(* Both are replaced, and the session id is set.                           *)
LEMMA SetReadWriteId ==
    ASSUME NEW p \in Proto, NEW k \in Int
    PROVE  LET q == [p EXCEPT !.sid = TRUE, !.rd = k, !.wr = k]
           IN  /\ q \in Proto
               /\ q.hs = p.hs /\ q.rd = k /\ q.wr = k /\ q.dh = p.dh /\ q.sw = p.sw
               /\ q.done = p.done /\ q.has_data = p.has_data /\ q.update = p.update /\ q.closing = p.closing /\ q.sid
  <1> DEFINE q == [p EXCEPT !.sid = TRUE, !.rd = k, !.wr = k]
  <1>1. q \in Proto  BY DEF Proto
  <1>2. /\ q.hs = p.hs /\ q.rd = k /\ q.wr = k /\ q.dh = p.dh /\ q.sw = p.sw
        /\ q.done = p.done /\ q.has_data = p.has_data /\ q.update = p.update /\ q.closing = p.closing /\ q.sid
    BY DEF Proto
  <1> QED  BY <1>1, <1>2

(* A key update begins.                                                    *)
LEMMA SetUpdate ==
    ASSUME NEW p \in Proto
    PROVE  LET q == [p EXCEPT !.update = TRUE]
           IN  /\ q \in Proto
               /\ q.hs = p.hs /\ q.rd = p.rd /\ q.wr = p.wr /\ q.dh = p.dh /\ q.sw = p.sw
               /\ q.done = p.done /\ q.has_data = p.has_data /\ q.update /\ q.closing = p.closing /\ q.sid = p.sid
  <1> DEFINE q == [p EXCEPT !.update = TRUE]
  <1>1. q \in Proto  BY DEF Proto
  <1>2. /\ q.hs = p.hs /\ q.rd = p.rd /\ q.wr = p.wr /\ q.dh = p.dh /\ q.sw = p.sw
        /\ q.done = p.done /\ q.has_data = p.has_data /\ q.update /\ q.closing = p.closing /\ q.sid = p.sid
    BY DEF Proto
  <1> QED  BY <1>1, <1>2

(* The object closes.                                                      *)
LEMMA SetClosing ==
    ASSUME NEW p \in Proto
    PROVE  LET q == [p EXCEPT !.closing = TRUE]
           IN  /\ q \in Proto
               /\ q.hs = p.hs /\ q.rd = p.rd /\ q.wr = p.wr /\ q.dh = p.dh /\ q.sw = p.sw
               /\ q.done = p.done /\ q.has_data = p.has_data /\ q.update = p.update /\ q.closing /\ q.sid = p.sid
  <1> DEFINE q == [p EXCEPT !.closing = TRUE]
  <1>1. q \in Proto  BY DEF Proto
  <1>2. /\ q.hs = p.hs /\ q.rd = p.rd /\ q.wr = p.wr /\ q.dh = p.dh /\ q.sw = p.sw
        /\ q.done = p.done /\ q.has_data = p.has_data /\ q.update = p.update /\ q.closing /\ q.sid = p.sid
    BY DEF Proto
  <1> QED  BY <1>1, <1>2

(* The session id is set.                                                  *)
LEMMA SetId ==
    ASSUME NEW p \in Proto
    PROVE  LET q == [p EXCEPT !.sid = TRUE]
           IN  /\ q \in Proto
               /\ q.hs = p.hs /\ q.rd = p.rd /\ q.wr = p.wr /\ q.dh = p.dh /\ q.sw = p.sw
               /\ q.done = p.done /\ q.has_data = p.has_data /\ q.update = p.update /\ q.closing = p.closing /\ q.sid
  <1> DEFINE q == [p EXCEPT !.sid = TRUE]
  <1>1. q \in Proto  BY DEF Proto
  <1>2. /\ q.hs = p.hs /\ q.rd = p.rd /\ q.wr = p.wr /\ q.dh = p.dh /\ q.sw = p.sw
        /\ q.done = p.done /\ q.has_data = p.has_data /\ q.update = p.update /\ q.closing = p.closing /\ q.sid
    BY DEF Proto
  <1> QED  BY <1>1, <1>2


(* The keys of an exchange are keys there are.                             *)
LEMMA SecretIsKey ==
    ASSUME NEW f \in Nat \ {0}, NEW k \in 1..(f - 1)
    PROVE  /\ k \in KeysOf(f) /\ k # NoKey /\ k # Plain /\ k \in Int
           /\ Blank \in KeysOf(f) /\ Plain \in KeysOf(f) /\ Plain # NoKey /\ Blank # NoKey
  BY DEF KeysOf, NoKey, Plain, Blank

(* Keys are numbers, and a new secret is not an old one.                   *)
LEMMA KeysAreInt ==
    ASSUME NEW f \in Nat \ {0}
    PROVE  /\ KeysOf(f) \subseteq Int /\ KeysOf(f) \subseteq KeysOf(f + 1)
           /\ f \in 1..((f + 1) - 1) /\ 1..(f - 1) \subseteq 1..((f + 1) - 1)
           /\ NoKey \in KeysOf(f) /\ Blank \in KeysOf(f) /\ Plain \in KeysOf(f)
           /\ Plain # NoKey /\ Blank # NoKey
  BY DEF KeysOf, NoKey, Plain, Blank

(* With message m, client c, as q, opens an exchange of kind sw for k: r.  *)
Prepares(c, m, sw, k, q, r) ==
    /\ dispatch_data(c, m) = dispatch_handshake_start_rsp(q, m)
    /\ ~q.has_data
    /\ r = setup_handshake([q EXCEPT !.hs = k, !.sid = TRUE], sw)
    /\ r.hs = k /\ r.rd = c.rd /\ r.wr = c.wr /\ r.dh = c.dh /\ r.sw = sw
    /\ r.done = c.done /\ r.has_data /\ r.update /\ ~r.closing

(* The client prepares for the answer to its start, or for a key syn.      *)
LEMMA Prepared ==
    ASSUME NEW c \in Proto, ~c.closing, ~c.has_data, NEW k \in Int,
           NEW m, m.step = "start_rsp", m.syn \in BOOLEAN, c.done => m.syn,
           NEW sw \in {"direct", "dh"}
    PROVE  \E q \in Proto, r \in Proto : Prepares(c, m, sw, k, q, r)
  <1>2. PICK q \in Proto : /\ dispatch_data(c, m) = dispatch_handshake_start_rsp(q, m)
                           /\ q = IF m.syn THEN [c EXCEPT !.update = TRUE] ELSE c
    BY DispatchedStart
  <1>3. /\ q.hs = c.hs /\ q.rd = c.rd /\ q.wr = c.wr /\ q.dh = c.dh
        /\ q.done = c.done /\ q.has_data = c.has_data /\ q.closing = c.closing
    <2>1. CASE m.syn  BY <1>2, <2>1, SetUpdate
    <2>2. CASE ~m.syn  BY <1>2, <2>2
    <2> QED  BY <2>1, <2>2
  <1> DEFINE q1 == [q EXCEPT !.hs = k, !.sid = TRUE]
  <1>4. /\ q1 \in Proto
        /\ q1.hs = k /\ q1.rd = q.rd /\ q1.wr = q.wr /\ q1.dh = q.dh
        /\ q1.done = q.done /\ q1.has_data = q.has_data /\ q1.closing = q.closing
    BY SetSecretId, ZenonT(30)
  <1> DEFINE r == setup_handshake(q1, sw)
  <1> HIDE DEF q1
  <1>5. ~q1.has_data  BY <1>3, <1>4
  <1>6. /\ r \in Proto
        /\ r.hs = q1.hs /\ r.rd = q1.rd /\ r.wr = q1.wr /\ r.dh = q1.dh /\ r.sw = sw
        /\ r.done = q1.done /\ r.has_data /\ r.update /\ r.closing = q1.closing
    BY <1>4, <1>5, OpenedHandshake
  <1>7. r = setup_handshake([q EXCEPT !.hs = k, !.sid = TRUE], sw)  BY DEF q1
  <1> HIDE DEF r
  <1>8. ~q.has_data /\ ~r.closing  BY <1>3, <1>4, <1>6
  <1>9. /\ r.hs = k /\ r.rd = c.rd /\ r.wr = c.wr /\ r.dh = c.dh /\ r.sw = sw
        /\ r.done = c.done /\ r.has_data /\ r.update
    BY <1>3, <1>4, <1>6
  <1>10. Prepares(c, m, sw, k, q, r)  BY <1>2, <1>6, <1>7, <1>8, <1>9 DEF Prepares
  <1> QED  BY <1>6, <1>10

(* The client has key k to read and to write with, and no exchange open.   *)
Settles(p, f, k) ==
    /\ ProtoOK(p, f) /\ ~p.closing /\ ~p.has_data
    /\ p.done /\ p.rd = k /\ p.wr = k

(* The client takes the secret it is sent, and writes the verification; a  *)
(* session without encryption has nothing to verify.                       *)
LEMMA TakesSecret ==
    ASSUME NEW f \in Nat \ {0}, NEW c, ProtoOK(c, f), ~c.closing, ~c.has_data,
           NEW k \in KeysOf(f), k # NoKey, NEW m, m.step = "start_rsp",
           m.syn \in BOOLEAN, c.done => m.syn, m.sw = "direct", m.key = k
    PROVE  LET d == dispatch_data(c, m)
           IN  /\ k = Plain => d.out = <<>>
               /\ k # Plain => d.out = <<send_verify("direct", k)>>
               /\ Settles(d.p, f, k)
  <1>0. k \in Int /\ Blank \in KeysOf(f)  BY KeysAreInt
  <1>1. m.sw = "direct" /\ m.key = k  OBVIOUS
  <1>p. PICK q \in Proto, r \in Proto : Prepares(c, m, "direct", k, q, r)
    <2>1. c \in Proto  BY DEF ProtoOK
    <2>2. "direct" \in {"direct", "dh"} /\ "dh" \in {"direct", "dh"}  OBVIOUS
    <2> QED  BY <1>0, <2>1, <2>2, Prepared
  <1>2. /\ dispatch_data(c, m) = dispatch_handshake_start_rsp(q, m)
        /\ ~q.has_data
        /\ r = setup_handshake([q EXCEPT !.hs = k, !.sid = TRUE], m.sw)
        /\ r.hs = k /\ r.rd = c.rd /\ r.wr = c.wr /\ r.dh = c.dh /\ r.sw = m.sw
        /\ r.done = c.done /\ r.has_data /\ r.update /\ ~r.closing
    BY <1>1, <1>p DEF Prepares
  <1> DEFINE r1 == [r EXCEPT !.rd = k, !.wr = k]
             r2 == close_handshake(r1)
             out == IF k = Plain THEN <<>> ELSE <<send_verify("direct", k)>>
  <1>3. r1 \in Proto /\ r1.hs = r.hs /\ r1.rd = k /\ r1.wr = k /\ r1.closing = r.closing
    BY ONLY <1>0, r \in Proto, SetReadWrite, Zenon
  <1>4. dispatch_handshake_start_rsp(q, m) = Does(r2, out)
    <2>1. CASE k = Plain
      BY <1>1, <1>2, <2>1 DEF dispatch_handshake_start_rsp
    <2>2. CASE k # Plain
      BY <1>1, <1>2, <2>2 DEF dispatch_handshake_start_rsp
    <2> QED  BY <2>1, <2>2
  <1> HIDE DEF r1
  <1>5. /\ r2 \in Proto /\ r2.hs = r1.hs /\ r2.rd = r1.rd /\ r2.wr = r1.wr /\ r2.dh = Blank
        /\ r2.done /\ ~r2.has_data /\ r2.closing = r1.closing
    BY <1>3, ClosedHandshake
  <1> HIDE DEF r2
  <1>6. ~r2.closing  BY <1>2, <1>3, <1>5
  <1>7. r2.hs = k /\ r2.rd = k /\ r2.wr = k  BY <1>2, <1>3, <1>5
  <1>8. ProtoOK(r2, f)  BY <1>0, <1>5, <1>6, <1>7 DEF ProtoOK
  <1>9. dispatch_data(c, m).p = r2 /\ dispatch_data(c, m).out = out  BY <1>2, <1>4 DEF Does
  <1>10. Settles(r2, f, k)  BY <1>5, <1>6, <1>7, <1>8 DEF Settles
  <1> QED  BY <1>9, <1>10

(* The client computes the secret from the parameters it is sent.          *)
LEMMA TakesParameters ==
    ASSUME NEW f \in Nat \ {0}, NEW c, ProtoOK(c, f), ~c.closing, ~c.has_data,
           NEW k \in 1..(f - 1), NEW m, m.step = "start_rsp",
           m.syn \in BOOLEAN, c.done => m.syn, m.sw = "dh", m.key = k
    PROVE  LET d == dispatch_data(c, m)
           IN  /\ d.out = <<pubkey_req(k)>>
               /\ ProtoOK(d.p, f) /\ ~d.p.closing /\ Asking(d.p, k)
               /\ d.p.done = c.done /\ d.p.rd = c.rd
  <1>0. k \in Int /\ k \in KeysOf(f) /\ k # NoKey /\ k # Plain  BY SecretIsKey
  <1>1. m.sw = "dh" /\ m.key = k  OBVIOUS
  <1>p. PICK q \in Proto, r \in Proto : Prepares(c, m, "dh", k, q, r)
    <2>1. c \in Proto  BY DEF ProtoOK
    <2>2. "direct" \in {"direct", "dh"} /\ "dh" \in {"direct", "dh"}  OBVIOUS
    <2> QED  BY <1>0, <2>1, <2>2, Prepared
  <1>2. /\ dispatch_data(c, m) = dispatch_handshake_start_rsp(q, m)
        /\ ~q.has_data
        /\ r = setup_handshake([q EXCEPT !.hs = k, !.sid = TRUE], m.sw)
        /\ r.hs = k /\ r.rd = c.rd /\ r.wr = c.wr /\ r.dh = c.dh /\ r.sw = m.sw
        /\ r.done = c.done /\ r.has_data /\ r.update /\ ~r.closing
    BY <1>1, <1>p DEF Prepares
  <1>3. dispatch_handshake_start_rsp(q, m) = pack_handshake_dh_pubkey_req(r, m)
    BY <1>0, <1>1, <1>2 DEF dispatch_handshake_start_rsp
  <1> DEFINE r1 == [r EXCEPT !.wr = k]
  <1>4. pack_handshake_dh_pubkey_req(r, m) = Does(r1, <<pubkey_req(k)>>)
    BY <1>1 DEF pack_handshake_dh_pubkey_req, pubkey_req
  <1>5. /\ r1 \in Proto /\ r1.hs = r.hs /\ r1.rd = r.rd /\ r1.wr = k /\ r1.dh = r.dh
        /\ r1.sw = r.sw /\ r1.done = r.done /\ r1.has_data = r.has_data
        /\ r1.update = r.update /\ r1.closing = r.closing
    BY <1>0, SetWrite
  <1> HIDE DEF r1
  <1>6. ~r1.closing /\ r1.has_data /\ r1.update /\ r1.done = c.done  BY <1>2, <1>5
  <1>7. r1.hs = k /\ r1.rd = c.rd /\ r1.dh = c.dh /\ r1.sw = "dh"  BY <1>1, <1>2, <1>5
  <1>8. r1.done => r1.rd # NoKey  BY <1>6, <1>7 DEF ProtoOK
  <1>9. ProtoOK(r1, f)  BY <1>0, <1>5, <1>6, <1>7, <1>8 DEF ProtoOK
  <1>10. Asking(r1, k)  BY <1>5, <1>6, <1>7 DEF Asking
  <1>11. dispatch_data(c, m).p = r1 /\ dispatch_data(c, m).out = <<pubkey_req(k)>>
    BY <1>2, <1>3, <1>4 DEF Does
  <1> QED  BY <1>6, <1>7, <1>9, <1>10, <1>11


(* The client takes the gateway's public key: it reads with the new secret *)
(* from now on.                                                            *)
LEMMA TakesPublicKey ==
    ASSUME NEW f \in Nat \ {0}, NEW c, ProtoOK(c, f), ~c.closing,
           NEW k \in 1..(f - 1), Asking(c, k)
    PROVE  LET d == dispatch_data(c, pubkey_rsp(k))
           IN  /\ d.out = <<send_verify("dh", k)>>
               /\ ProtoOK(d.p, f) /\ ~d.p.closing /\ ~d.p.has_data
               /\ d.p.done /\ d.p.rd = k /\ d.p.wr = k
  <1> DEFINE m == pubkey_rsp(k)
             r1 == [c EXCEPT !.rd = c.hs]
             r2 == close_handshake(r1)
  <1>0. k \in Int /\ k \in KeysOf(f) /\ k # NoKey /\ Blank \in KeysOf(f)  BY SecretIsKey
  <1>1. m.step = "pubkey_rsp" /\ m.ok /\ m.key = k  BY DEF pubkey_rsp
  <1>2. c \in Proto /\ c.hs = k /\ c.wr = k /\ c.sw = "dh" /\ c.update
    BY DEF Asking, ProtoOK
  <1>3. dispatch_data(c, m) = Handler(c, m)  BY <1>1, <1>2, Dispatched
  <1>4. Handler(c, m) = dispatch_handshake_dh_pubkey_rsp(c, m)  BY <1>1 DEF Handler
  <1>5. dispatch_handshake_dh_pubkey_rsp(c, m) = Does(r2, <<send_verify("dh", k)>>)
    BY <1>1, <1>2 DEF dispatch_handshake_dh_pubkey_rsp
  <1>6. r1 \in Proto /\ r1.hs = c.hs /\ r1.rd = k /\ r1.wr = c.wr /\ r1.closing = c.closing
    BY <1>0, <1>2, SetRead
  <1> HIDE DEF r1
  <1>7. /\ r2 \in Proto /\ r2.hs = r1.hs /\ r2.rd = r1.rd /\ r2.wr = r1.wr /\ r2.dh = Blank
        /\ r2.done /\ ~r2.has_data /\ r2.closing = r1.closing
    BY <1>6, ClosedHandshake
  <1> HIDE DEF r2
  <1>8. ~r2.closing  BY <1>6, <1>7
  <1>9. r2.hs = k /\ r2.rd = k /\ r2.wr = k  BY <1>2, <1>6, <1>7
  <1>10. ProtoOK(r2, f)  BY <1>0, <1>7, <1>8, <1>9 DEF ProtoOK
  <1>11. dispatch_data(c, m).p = r2 /\ dispatch_data(c, m).out = <<send_verify("dh", k)>>
    BY <1>3, <1>4, <1>5 DEF Does
  <1> QED  BY <1>7, <1>8, <1>9, <1>10, <1>11

(* The client hears that its reconnect was accepted: it goes on with the   *)
(* secret that proved it.                                                  *)
LEMMA HearsAccepted ==
    ASSUME NEW f \in Nat \ {0}, NEW c, ProtoOK(c, f), ~c.closing, ~c.done, ~c.has_data,
           NEW sw \in {"direct", "dh"}
    PROVE  LET d == dispatch_data(c, accepted(sw))
           IN  /\ d.out = <<>>
               /\ ProtoOK(d.p, f) /\ ~d.p.closing /\ ~d.p.has_data
               /\ d.p.done /\ d.p.rd = c.hs /\ d.p.wr = c.hs
  <1> DEFINE m == accepted(sw)
             r0 == setup_handshake(c, sw)
             r1 == [r0 EXCEPT !.sid = TRUE, !.rd = c.hs, !.wr = c.hs]
             r2 == close_handshake(r1)
  <1>0. Blank \in KeysOf(f)  BY KeysAreInt
  <1>1. m.step = "reconn_rsp" /\ m.ok /\ m.sw = sw  BY DEF accepted, refused
  <1>2. c \in Proto /\ c.hs \in Int /\ c.hs # NoKey  BY DEF ProtoOK, Proto
  <1>3. dispatch_data(c, m) = Handler(c, m)  BY <1>1, Dispatched
  <1>4. Handler(c, m) = dispatch_handshake_reconn_rsp(c, m)  BY <1>1 DEF Handler
  <1>5. dispatch_handshake_reconn_rsp(c, m) = Does(r2, <<>>)
    BY <1>1 DEF dispatch_handshake_reconn_rsp
  <1>6. r0 \in Proto /\ r0.hs = c.hs /\ r0.closing = c.closing
    BY <1>2, OpenedHandshake
  <1> HIDE DEF r0
  <1>7. r1 \in Proto /\ r1.hs = r0.hs /\ r1.rd = c.hs /\ r1.wr = c.hs /\ r1.closing = r0.closing
    BY <1>2, <1>6, SetReadWriteId
  <1> HIDE DEF r1
  <1>8. /\ r2 \in Proto /\ r2.hs = r1.hs /\ r2.rd = r1.rd /\ r2.wr = r1.wr /\ r2.dh = Blank
        /\ r2.done /\ ~r2.has_data /\ r2.closing = r1.closing
    BY <1>7, ClosedHandshake
  <1> HIDE DEF r2
  <1>9. ~r2.closing  BY <1>6, <1>7, <1>8
  <1>10. r2.hs = c.hs /\ r2.rd = c.hs /\ r2.wr = c.hs  BY <1>6, <1>7, <1>8
  <1>11. c.hs \in KeysOf(f)  BY DEF ProtoOK
  <1>12. ProtoOK(r2, f)  BY <1>0, <1>2, <1>8, <1>9, <1>10, <1>11 DEF ProtoOK
  <1> HIDE DEF m
  <1>13. dispatch_data(c, m).p = r2 /\ dispatch_data(c, m).out = <<>>
    BY <1>3, <1>4, <1>5 DEF Does
  <1> QED  BY <1>8, <1>9, <1>10, <1>12, <1>13 DEF m

(* The client hears that it was refused, or is kicked off.                 *)
LEMMA HearsRefused ==
    ASSUME NEW f \in Nat \ {0}, NEW c, ProtoOK(c, f), ~c.closing, ~c.done, NEW m,
           m = send_kickoff \/ \E sw \in {"direct", "dh"} : m = refused(sw)
    PROVE  LET d == dispatch_data(c, m)
           IN  d.out = <<>> /\ ProtoOK(d.p, f) /\ d.p.closing
  <1> DEFINE r1 == close_handshake(c)
             r2 == [r1 EXCEPT !.closing = TRUE]
             r3 == [c EXCEPT !.closing = TRUE]
  <1>0. Blank \in KeysOf(f) /\ c \in Proto  BY KeysAreInt DEF ProtoOK
  <1>1. CASE m = send_kickoff
    <2>1. dispatch_data(c, m) = Does(r3, <<>>)  BY <1>1 DEF send_kickoff, dispatch_data
    <2>2. /\ r3 \in Proto /\ r3.hs = c.hs /\ r3.rd = c.rd /\ r3.wr = c.wr /\ r3.dh = c.dh
          /\ r3.has_data = c.has_data /\ r3.update = c.update /\ r3.closing
      BY <1>0, SetClosing
    <2> HIDE DEF r3
    <2>3. ProtoOK(r3, f)  BY <2>2 DEF ProtoOK
    <2> QED  BY <2>1, <2>2, <2>3 DEF Does
  <1>2. CASE \E sw \in {"direct", "dh"} : m = refused(sw)
    <2>1. m.step = "reconn_rsp" /\ ~m.ok  BY <1>2 DEF accepted, refused
    <2>2. dispatch_data(c, m) = Handler(c, m)  BY <2>1, Dispatched
    <2>3. Handler(c, m) = dispatch_handshake_reconn_rsp(c, m)  BY <2>1 DEF Handler
    <2>4. dispatch_handshake_reconn_rsp(c, m) = Does(r2, <<>>)
      BY <2>1 DEF dispatch_handshake_reconn_rsp, Fails
    <2>5. /\ r1 \in Proto /\ r1.hs = c.hs /\ r1.rd = c.rd /\ r1.wr = c.wr /\ r1.dh = Blank
          /\ ~r1.has_data
      BY <1>0, ClosedHandshake
    <2> HIDE DEF r1
    <2>6. /\ r2 \in Proto /\ r2.hs = r1.hs /\ r2.rd = r1.rd /\ r2.wr = r1.wr /\ r2.dh = r1.dh
          /\ r2.has_data = r1.has_data /\ r2.closing
      BY <2>5, SetClosing
    <2> HIDE DEF r2
    <2>7. ProtoOK(r2, f)  BY <1>0, <2>5, <2>6 DEF ProtoOK
    <2> QED  BY <2>2, <2>3, <2>4, <2>6, <2>7 DEF Does
  <1> QED  BY <1>1, <1>2

(* The gateway takes the client's public key and uses the secret.          *)
LEMMA AnswersPublicKey ==
    ASSUME NEW f \in Nat \ {0}, NEW s, ProtoOK(s, f), ~s.closing, Serving(s, "dh"),
           NEW k \in 1..(f - 1), s.dh = k
    PROVE  LET d == dispatch_data(s, pubkey_req(k))
           IN  /\ d.out = <<pubkey_rsp(k)>>
               /\ ProtoOK(d.p, f) /\ ~d.p.closing /\ Serving(d.p, "dh")
               /\ d.p.done = s.done /\ d.p.rd = k /\ d.p.wr = k
  <1> DEFINE m == pubkey_req(k)
             r == [s EXCEPT !.hs = k, !.rd = k, !.wr = k]
  <1>0. k \in Int /\ k \in KeysOf(f) /\ k # NoKey  BY SecretIsKey
  <1>1. m.step = "pubkey_req" /\ m.sw = "dh" /\ m.key = k  BY DEF pubkey_req
  <1>2. s \in Proto /\ s.sw = "dh" /\ s.has_data /\ s.update  BY DEF Serving, ProtoOK
  <1>3. dispatch_data(s, m) = Handler(s, m)  BY <1>1, <1>2, Dispatched
  <1>4. Handler(s, m) = dispatch_handshake_dh_pubkey_req(s, m)  BY <1>1 DEF Handler
  <1>5. dispatch_handshake_dh_pubkey_req(s, m) = Does(r, <<pubkey_rsp(k)>>)
    BY <1>1, <1>2 DEF dispatch_handshake_dh_pubkey_req, calc_secret, pubkey_rsp
  <1>6. /\ r \in Proto /\ r.hs = k /\ r.rd = k /\ r.wr = k /\ r.dh = s.dh /\ r.sw = s.sw
        /\ r.done = s.done /\ r.has_data = s.has_data /\ r.update = s.update
        /\ r.closing = s.closing
    <2>1. s \in Proto /\ k \in Int  BY <1>0, <1>2
    <2> QED  BY ONLY <2>1, SetAll, ZenonT(40)
  <1> HIDE DEF r
  <1>7. ~r.closing /\ r.has_data /\ r.update  BY <1>2, <1>6
  <1>8. Serving(r, "dh")  BY <1>2, <1>6, <1>7 DEF Serving
  <1>9. ProtoOK(r, f)  BY <1>0, <1>6, <1>7 DEF ProtoOK
  <1>10. dispatch_data(s, m).p = r /\ dispatch_data(s, m).out = <<pubkey_rsp(k)>>
    BY <1>3, <1>4, <1>5 DEF Does
  <1> QED  BY <1>6, <1>7, <1>8, <1>9, <1>10

(* The gateway takes the verification: the exchange is over.               *)
LEMMA TakesVerification ==
    ASSUME NEW f \in Nat \ {0}, NEW s, ProtoOK(s, f), ~s.closing,
           NEW sw \in {"direct", "dh"}, Serving(s, sw), NEW k \in 1..(f - 1),
           s.wr = k, sw = "direct" => s.hs = k, sw = "dh" => s.rd = k
    PROVE  LET d == dispatch_data(s, send_verify(sw, k))
           IN  /\ d.out = <<>>
               /\ ProtoOK(d.p, f) /\ ~d.p.closing /\ ~d.p.has_data
               /\ d.p.done /\ d.p.rd = k /\ d.p.wr = k
  <1> DEFINE m == send_verify(sw, k)
             q == IF m.sw = "direct" THEN [s EXCEPT !.rd = s.hs] ELSE s
             r == close_handshake(q)
  <1>0. k \in Int /\ k \in KeysOf(f) /\ k # NoKey /\ Blank \in KeysOf(f)  BY SecretIsKey
  <1>1. m.step = "verify" /\ m.sw = sw /\ m.key = k  BY DEF send_verify
  <1>2. s \in Proto /\ s.sw = sw /\ s.update  BY DEF Serving, ProtoOK
  <1>3. dispatch_data(s, m) = Handler(s, m)  BY <1>1, <1>2, Dispatched
  <1>4. Handler(s, m) = dispatch_handshake_verify_ntf(s, m)  BY <1>1 DEF Handler
  <1>5. /\ q \in Proto /\ q.hs = s.hs /\ q.rd = k /\ q.wr = s.wr /\ q.sw = s.sw
        /\ q.closing = s.closing
    <2>1. CASE sw = "direct"  BY <1>0, <1>1, <1>2, <2>1, SetRead
    <2>2. CASE sw = "dh"  BY <1>1, <1>2, <2>2
    <2> QED  BY <2>1, <2>2
  <1>6. dispatch_handshake_verify_ntf(s, m) = Does(r, <<>>)
    BY <1>0, <1>1, <1>2, <1>5 DEF dispatch_handshake_verify_ntf
  <1> HIDE DEF q
  <1>7. /\ r \in Proto /\ r.hs = q.hs /\ r.rd = q.rd /\ r.wr = q.wr /\ r.dh = Blank
        /\ r.done /\ ~r.has_data /\ r.closing = q.closing
    BY <1>5, ClosedHandshake
  <1> HIDE DEF r
  <1>8. ~r.closing  BY <1>5, <1>7
  <1>9. r.hs = s.hs /\ r.rd = k /\ r.wr = k  BY <1>5, <1>7
  <1>10. s.hs \in KeysOf(f) /\ s.hs # NoKey  BY DEF ProtoOK
  <1>11. ProtoOK(r, f)  BY <1>0, <1>7, <1>8, <1>9, <1>10 DEF ProtoOK
  <1>12. dispatch_data(s, m).p = r /\ dispatch_data(s, m).out = <<>>
    BY <1>3, <1>4, <1>6 DEF Does
  <1> QED  BY <1>7, <1>8, <1>9, <1>11, <1>12


(* A new protocol object.                                                  *)
LEMMA NewObject ==
    /\ NewProto \in Proto
    /\ NewProto.hs = Blank /\ NewProto.rd = NoKey /\ NewProto.wr = NoKey
    /\ NewProto.dh = Blank /\ NewProto.sw = "direct"
    /\ ~NewProto.has_data /\ ~NewProto.done /\ ~NewProto.update
    /\ ~NewProto.closing /\ ~NewProto.sid
  BY DEF NewProto, Proto, NoKey, Blank

(* A new protocol object has no keys.                                      *)
LEMMA NewObjectOK ==
    ASSUME NEW f \in Nat \ {0}
    PROVE  ProtoOK(NewProto, f)
  BY NewObject, KeysAreInt DEF ProtoOK

(* Later keys may be added.                                                *)
LEMMA ProtoStays ==
    ASSUME NEW f \in Nat \ {0}, NEW p, ProtoOK(p, f)
    PROVE  ProtoOK(p, f + 1)
  <1>1. KeysOf(f) \subseteq KeysOf(f + 1)  BY KeysAreInt
  <1> QED  BY <1>1 DEF ProtoOK

(* The gateway opens an exchange with a fresh secret, or fresh parameters. *)
LEMMA PacksFresh ==
    ASSUME fresh \in Nat \ {0}, NEW p \in Proto, NEW sw \in {"direct", "dh"},
           Serving(p, sw), NEW syn \in BOOLEAN
    PROVE  LET d == pack_handshake_start_rsp(p, TRUE, syn)
           IN  /\ d.out = <<start_rsp(syn, sw, fresh)>>
               /\ d.p \in Proto /\ d.p.rd = p.rd /\ Serving(d.p, sw)
               /\ d.p.done = p.done /\ d.p.closing = p.closing
               /\ sw = "direct" => d.p.hs = fresh /\ d.p.wr = fresh /\ d.p.dh = p.dh
               /\ sw = "dh" => d.p.dh = fresh /\ d.p.hs = p.hs /\ d.p.wr = p.wr
  <1>0. fresh \in Int /\ p.sw = sw /\ p.has_data /\ p.update  BY DEF Serving
  <1>1. CASE sw = "direct"
    <2> DEFINE r == [p EXCEPT !.hs = fresh, !.wr = fresh]
    <2>1. pack_handshake_start_rsp(p, TRUE, syn) = Does(r, <<start_rsp(syn, sw, fresh)>>)
      BY <1>0, <1>1 DEF pack_handshake_start_rsp
    <2>2. /\ r \in Proto /\ r.hs = fresh /\ r.wr = fresh /\ r.rd = p.rd /\ r.dh = p.dh
          /\ r.sw = p.sw /\ r.done = p.done /\ r.closing = p.closing
          /\ r.has_data = p.has_data /\ r.update = p.update
      BY ONLY <1>0, p \in Proto, SetSecretWrite, Zenon
    <2> HIDE DEF r
    <2>3. Serving(r, sw)  BY <1>0, <2>2 DEF Serving
    <2> DEFINE d == pack_handshake_start_rsp(p, TRUE, syn)
    <2>4. d = Does(r, <<start_rsp(syn, sw, fresh)>>)  BY <2>1
    <2> HIDE DEF d
    <2>5. d.p = r /\ d.out = <<start_rsp(syn, sw, fresh)>>  BY <2>4 DEF Does
    <2>6. /\ d.out = <<start_rsp(syn, sw, fresh)>>
          /\ d.p \in Proto /\ d.p.rd = p.rd /\ Serving(d.p, sw)
          /\ d.p.done = p.done /\ d.p.closing = p.closing
          /\ sw = "direct" => d.p.hs = fresh /\ d.p.wr = fresh /\ d.p.dh = p.dh
          /\ sw = "dh" => d.p.dh = fresh /\ d.p.hs = p.hs /\ d.p.wr = p.wr
      BY <1>1, <2>2, <2>3, <2>5
    <2> QED  BY <2>6 DEF d
  <1>2. CASE sw = "dh"
    <2> DEFINE r == [p EXCEPT !.dh = fresh]
    <2>1. pack_handshake_start_rsp(p, TRUE, syn) = Does(r, <<start_rsp(syn, sw, fresh)>>)
      BY <1>0, <1>2 DEF pack_handshake_start_rsp
    <2>2. /\ r \in Proto /\ r.hs = p.hs /\ r.wr = p.wr /\ r.rd = p.rd /\ r.dh = fresh
          /\ r.sw = p.sw /\ r.done = p.done /\ r.closing = p.closing
          /\ r.has_data = p.has_data /\ r.update = p.update
      BY ONLY <1>0, p \in Proto, SetParameters, Zenon
    <2> HIDE DEF r
    <2>3. Serving(r, sw)  BY <1>0, <2>2 DEF Serving
    <2> DEFINE d == pack_handshake_start_rsp(p, TRUE, syn)
    <2>4. d = Does(r, <<start_rsp(syn, sw, fresh)>>)  BY <2>1
    <2> HIDE DEF d
    <2>5. d.p = r /\ d.out = <<start_rsp(syn, sw, fresh)>>  BY <2>4 DEF Does
    <2>6. /\ d.out = <<start_rsp(syn, sw, fresh)>>
          /\ d.p \in Proto /\ d.p.rd = p.rd /\ Serving(d.p, sw)
          /\ d.p.done = p.done /\ d.p.closing = p.closing
          /\ sw = "direct" => d.p.hs = fresh /\ d.p.wr = fresh /\ d.p.dh = p.dh
          /\ sw = "dh" => d.p.dh = fresh /\ d.p.hs = p.hs /\ d.p.wr = p.wr
      BY <1>2, <2>2, <2>3, <2>5
    <2> QED  BY <2>6 DEF d
  <1> QED  BY <1>1, <1>2

(* The gateway's object p after it opened an exchange with secret k.       *)
Opens(p, s, sw, k) ==
    /\ ProtoOK(p, k + 1) /\ p.rd = s.rd /\ Serving(p, sw)
    /\ p.done = s.done /\ ~p.closing
    /\ sw = "direct" => p.hs = k /\ p.wr = k
    /\ sw = "dh" => p.dh = k /\ p.wr = s.wr

(* send_key_syn opens one when none is open and the session is encrypted.  *)
LEMMA KeySyn ==
    ASSUME fresh \in Nat \ {0}, NEW s, ProtoOK(s, fresh), ~s.closing, s.done, ~s.has_data,
           mode \in {"direct", "dh"}, s.hs # Plain
    PROVE  LET d == send_key_syn(s)
           IN  d.out = <<start_rsp(TRUE, mode, fresh)>> /\ Opens(d.p, s, mode, fresh)
  <1> DEFINE r0 == [s EXCEPT !.hs = Blank]
             r1 == setup_handshake(r0, mode)
             d == pack_handshake_start_rsp(r1, TRUE, TRUE)
  <1>0. s \in Proto /\ s.wr # NoKey /\ s.rd # NoKey  BY DEF ProtoOK
  <1>1. send_key_syn(s) = d  BY <1>0 DEF send_key_syn
  <1>2. /\ r0 \in Proto /\ r0.hs = Blank /\ r0.wr = s.wr /\ r0.rd = s.rd /\ r0.dh = s.dh
        /\ r0.done = s.done /\ r0.closing = s.closing /\ r0.has_data = s.has_data
    <2>1. Blank \in Int  BY DEF Blank
    <2> QED  BY ONLY <1>0, <2>1, SetSecret, Zenon
  <1> HIDE DEF r0
  <1>3. /\ r1 \in Proto /\ r1.hs = r0.hs /\ r1.wr = r0.wr /\ r1.rd = r0.rd /\ r1.dh = r0.dh
        /\ r1.done = r0.done /\ r1.closing = r0.closing
        /\ r1.sw = mode /\ r1.has_data /\ r1.update
    <2>1. ~r0.has_data  BY <1>2
    <2> QED  BY <1>2, <2>1, OpenedHandshake, ZenonT(30)
  <1> HIDE DEF r1
  <1>4. Serving(r1, mode)  BY <1>3 DEF Serving
  <1>5. /\ d.out = <<start_rsp(TRUE, mode, fresh)>>
        /\ d.p \in Proto /\ d.p.rd = r1.rd /\ Serving(d.p, mode)
        /\ d.p.done = r1.done /\ d.p.closing = r1.closing
        /\ mode = "direct" => d.p.hs = fresh /\ d.p.wr = fresh /\ d.p.dh = r1.dh
        /\ mode = "dh" => d.p.dh = fresh /\ d.p.hs = r1.hs /\ d.p.wr = r1.wr
    BY <1>3, <1>4, PacksFresh, ZenonT(30)
  <1> HIDE DEF d
  <1>6. /\ d.p.rd = s.rd /\ d.p.done = s.done /\ ~d.p.closing /\ d.p.done
        /\ mode = "direct" => d.p.hs = fresh /\ d.p.wr = fresh /\ d.p.dh = s.dh
        /\ mode = "dh" => d.p.dh = fresh /\ d.p.hs = Blank /\ d.p.wr = s.wr
    BY <1>2, <1>3, <1>5
  <1>7. fresh \in KeysOf(fresh + 1) /\ fresh # NoKey /\ Blank \in KeysOf(fresh + 1) /\ Blank # NoKey
    BY DEF KeysOf, Blank, NoKey
  <1>8. s.rd \in KeysOf(fresh + 1) /\ s.wr \in KeysOf(fresh + 1) /\ s.dh \in KeysOf(fresh + 1)
    BY ProtoStays DEF ProtoOK
  <1>9. d.p.has_data /\ d.p.update  BY <1>5 DEF Serving
  <1>10. ProtoOK(d.p, fresh + 1)
    <2>1. CASE mode = "direct"  BY <2>1, <1>0, <1>5, <1>6, <1>7, <1>8, <1>9 DEF ProtoOK
    <2>2. CASE mode = "dh"  BY <2>2, <1>0, <1>5, <1>6, <1>7, <1>8, <1>9 DEF ProtoOK
    <2> QED  BY <2>1, <2>2
  <1>11. Opens(d.p, s, mode, fresh)  BY <1>5, <1>6, <1>10 DEF Opens
  <1> QED  BY <1>1, <1>5, <1>11

(* Otherwise send_key_syn does nothing.                                    *)
LEMMA NoKeySyn ==
    ASSUME NEW s, s.hs = Plain \/ s.has_data
    PROVE  send_key_syn(s) = Does(s, <<>>)
  BY DEF send_key_syn


(* The first message of a new session.                                     *)
LEMMA AnswersStart ==
    ASSUME fresh \in Nat \ {0}, mode \in {"direct", "dh"}
    PROVE  LET m == [step |-> "start_req", cipher |-> TRUE]
               d == dispatch_data(NewProto, m)
           IN  d.out = <<start_rsp(FALSE, mode, fresh)>> /\ Opens(d.p, NewProto, mode, fresh)
  <1> DEFINE m == [step |-> "start_req", cipher |-> TRUE]
             r0 == setup_handshake(NewProto, mode)
             r1 == [r0 EXCEPT !.sid = TRUE]
             d == pack_handshake_start_rsp(r1, TRUE, FALSE)
  <1>1. m.step = "start_req" /\ m.cipher = TRUE  OBVIOUS
  <1>2. dispatch_data(NewProto, m) = Handler(NewProto, m)
    BY <1>1, NewObject, Dispatched
  <1>3. Handler(NewProto, m) = dispatch_handshake_start_req(NewProto, m)
    BY <1>1 DEF Handler
  <1>4. (m.cipher /\ mode # "none") = TRUE  BY <1>1
  <1>5. dispatch_handshake_start_req(NewProto, m) = d
    BY <1>4 DEF dispatch_handshake_start_req
  <1> HIDE DEF m
  <1>6. /\ r0 \in Proto /\ r0.hs = Blank /\ r0.rd = NoKey /\ r0.wr = NoKey /\ r0.dh = Blank
        /\ r0.sw = mode /\ r0.has_data /\ r0.update
        /\ r0.done = NewProto.done /\ r0.closing = NewProto.closing
    BY NewObject, OpenedHandshake
  <1> HIDE DEF r0
  <1>7. /\ r1 \in Proto /\ r1.hs = r0.hs /\ r1.rd = r0.rd /\ r1.wr = r0.wr /\ r1.dh = r0.dh
        /\ r1.sw = r0.sw /\ r1.has_data = r0.has_data /\ r1.update = r0.update
        /\ r1.done = r0.done /\ r1.closing = r0.closing
    BY <1>6, SetId
  <1> HIDE DEF r1
  <1>8. Serving(r1, mode)  BY <1>6, <1>7 DEF Serving
  <1>9. /\ d.out = <<start_rsp(FALSE, mode, fresh)>>
        /\ d.p \in Proto /\ d.p.rd = r1.rd /\ Serving(d.p, mode)
        /\ d.p.done = r1.done /\ d.p.closing = r1.closing
        /\ mode = "direct" => d.p.hs = fresh /\ d.p.wr = fresh /\ d.p.dh = r1.dh
        /\ mode = "dh" => d.p.dh = fresh /\ d.p.hs = r1.hs /\ d.p.wr = r1.wr
    BY <1>7, <1>8, PacksFresh
  <1> HIDE DEF d
  <1>10. d.p.done = NewProto.done /\ ~d.p.closing /\ ~d.p.done /\ d.p.rd = NewProto.rd
    BY <1>6, <1>7, <1>9, NewObject
  <1>11. /\ mode = "direct" => d.p.hs = fresh /\ d.p.wr = fresh /\ d.p.dh = Blank
         /\ mode = "dh" => d.p.dh = fresh /\ d.p.hs = Blank /\ d.p.wr = NewProto.wr
         /\ d.p.rd = NoKey /\ NewProto.wr = NoKey
    BY <1>6, <1>7, <1>9, NewObject
  <1>12. /\ fresh \in KeysOf(fresh + 1) /\ fresh # NoKey /\ Blank \in KeysOf(fresh + 1)
         /\ Blank # NoKey /\ NoKey \in KeysOf(fresh + 1)
    BY DEF KeysOf, Blank, NoKey
  <1>13. d.p.has_data /\ d.p.update  BY <1>9 DEF Serving
  <1>14. ProtoOK(d.p, fresh + 1)
    <2>1. CASE mode = "direct"  BY <2>1, <1>9, <1>10, <1>11, <1>12, <1>13 DEF ProtoOK
    <2>2. CASE mode = "dh"  BY <2>2, <1>9, <1>10, <1>11, <1>12, <1>13 DEF ProtoOK
    <2> QED  BY <2>1, <2>2
  <1>15. Opens(d.p, NewProto, mode, fresh)  BY <1>9, <1>10, <1>11, <1>14 DEF Opens
  <1>16. dispatch_data(NewProto, m) = d  BY <1>2, <1>3, <1>5
  <1> QED  BY <1>9, <1>15, <1>16 DEF m

(* A session the client asks for without a cipher.                         *)
LEMMA AnswersPlainStart ==
    ASSUME fresh \in Nat \ {0}, mode \in {"direct", "dh"}
    PROVE  LET m == [step |-> "start_req", cipher |-> FALSE]
               d == dispatch_data(NewProto, m)
           IN  /\ d.out = <<start_rsp(FALSE, "direct", Plain)>>
               /\ ProtoOK(d.p, fresh) /\ ~d.p.closing /\ d.p.done /\ ~d.p.has_data
               /\ d.p.hs = Plain /\ d.p.rd = Plain /\ d.p.wr = Plain
  <1> DEFINE m == [step |-> "start_req", cipher |-> FALSE]
             r0 == setup_handshake(NewProto, mode)
             r1 == [r0 EXCEPT !.sid = TRUE]
             r2 == [r1 EXCEPT !.hs = Plain, !.rd = Plain, !.wr = Plain]
             r3 == close_handshake(r2)
  <1>1. m.step = "start_req" /\ m.cipher = FALSE  OBVIOUS
  <1>2. dispatch_data(NewProto, m) = Handler(NewProto, m)
    BY <1>1, NewObject, Dispatched
  <1>3. Handler(NewProto, m) = dispatch_handshake_start_req(NewProto, m)
    BY <1>1 DEF Handler
  <1>4. (m.cipher /\ mode # "none") = FALSE  BY <1>1
  <1>5. dispatch_handshake_start_req(NewProto, m) = pack_handshake_start_rsp(r1, FALSE, FALSE)
    BY <1>4 DEF dispatch_handshake_start_req
  <1> HIDE DEF m
  <1>6. r0 \in Proto /\ r0.closing = NewProto.closing
    BY NewObject, OpenedHandshake
  <1> HIDE DEF r0
  <1>7. r1 \in Proto /\ r1.closing = r0.closing
    BY <1>6, SetId
  <1> HIDE DEF r1
  <1>8. pack_handshake_start_rsp(r1, FALSE, FALSE)
            = Does(r3, <<start_rsp(FALSE, "direct", Plain)>>)
    BY DEF pack_handshake_start_rsp
  <1>9. /\ r2 \in Proto /\ r2.hs = Plain /\ r2.rd = Plain /\ r2.wr = Plain
        /\ r2.closing = r1.closing
    <2>1. Plain \in Int  BY DEF Plain
    <2> QED  BY ONLY <1>7, <2>1, SetAll, Zenon
  <1> HIDE DEF r2
  <1>10. /\ r3 \in Proto /\ r3.hs = r2.hs /\ r3.rd = r2.rd /\ r3.wr = r2.wr /\ r3.dh = Blank
         /\ r3.done /\ ~r3.has_data /\ r3.closing = r2.closing
    BY <1>9, ClosedHandshake
  <1> HIDE DEF r3
  <1>11. ~r3.closing  BY <1>6, <1>7, <1>9, <1>10, NewObject
  <1>12. ProtoOK(r3, fresh)  BY <1>9, <1>10, <1>11, KeysAreInt DEF ProtoOK
  <1> DEFINE d == pack_handshake_start_rsp(r1, FALSE, FALSE)
             out == <<start_rsp(FALSE, "direct", Plain)>>
  <1>13. dispatch_data(NewProto, m) = d /\ d = Does(r3, out)
    BY <1>2, <1>3, <1>5, <1>8
  <1> HIDE DEF d, out
  <1>14. d.p = r3 /\ d.out = out  BY <1>13 DEF Does
  <1> QED  BY <1>9, <1>10, <1>11, <1>12, <1>13, <1>14 DEF m, out


(* What a handler leaves: the object and the messages it wrote.            *)
LEMMA TwoParts ==
    ASSUME NEW p, NEW out
    PROVE  Does(p, out).p = p /\ Does(p, out).out = out
  BY DEF Does

(* A reconnect: refused, accepted without encryption, or accepted and      *)
(* followed at once by the exchange that replaces the secret.              *)
LEMMA AnswersReconnect ==
    ASSUME fresh \in Nat \ {0}, mode \in {"direct", "dh"},
           NEW h \in KeysOf(fresh), h # NoKey
    PROVE  LET d == dispatch_data(NewProto, [step |-> "reconn_req", key |-> h])
           IN  \/ /\ ProtoOK(d.p, fresh) /\ d.p.closing
                  /\ d.out = <<refused("direct"), send_kickoff>>
               \/ /\ ProtoOK(d.p, fresh) /\ ~d.p.closing /\ d.p.done /\ ~d.p.has_data
                  /\ h = Plain /\ d.p.hs = h /\ d.p.rd = h /\ d.p.wr = h
                  /\ d.out = <<accepted(mode)>>
               \/ \E s : /\ s.done /\ s.rd = h /\ s.wr = h
                         /\ Opens(d.p, s, mode, fresh)
                         /\ d.out = <<accepted(mode)>> \o <<start_rsp(TRUE, mode, fresh)>>
  <1> DEFINE m == [step |-> "reconn_req", key |-> h]
             d == dispatch_data(NewProto, m)
  <1>0. h \in Int /\ Blank \in KeysOf(fresh)  BY KeysAreInt
  <1>1. m.step = "reconn_req" /\ m.key = h  OBVIOUS
  <1>2. d = dispatch_handshake_reconn_req(NewProto, m)
    <2>1. dispatch_data(NewProto, m) = Handler(NewProto, m)
      BY <1>1, NewObject, Dispatched
    <2>2. Handler(NewProto, m) = dispatch_handshake_reconn_req(NewProto, m)
      BY <1>1 DEF Handler
    <2> QED  BY <2>1, <2>2
  <1> HIDE DEF m
  <1>3. CASE ~check_reconnect(kept, h)
    <2> DEFINE r0 == close_handshake(NewProto)
               r1 == [r0 EXCEPT !.closing = TRUE]
               out == <<refused("direct"), send_kickoff>>
    <2>1. dispatch_handshake_reconn_req(NewProto, m) = Does(r1, out)
      BY <1>1, <1>3, NewObject DEF dispatch_handshake_reconn_req, refused
    <2>2. /\ r0 \in Proto /\ r0.hs = Blank /\ r0.rd = NoKey /\ r0.wr = NoKey /\ r0.dh = Blank
          /\ ~r0.has_data
      BY NewObject, ClosedHandshake
    <2> HIDE DEF r0
    <2>3. /\ r1 \in Proto /\ r1.hs = r0.hs /\ r1.rd = r0.rd /\ r1.wr = r0.wr /\ r1.dh = r0.dh
          /\ r1.has_data = r0.has_data /\ r1.closing
      BY <2>2, SetClosing
    <2> HIDE DEF r1
    <2>4. ProtoOK(r1, fresh)  BY <2>2, <2>3, KeysAreInt DEF ProtoOK
    <2> HIDE DEF out, d
    <2>5. d.p = r1 /\ d.out = out  BY <1>2, <2>1, TwoParts
    <2>6. ProtoOK(d.p, fresh) /\ d.p.closing /\ d.out = out  BY <2>3, <2>4, <2>5
    <2> QED  BY <2>6 DEF out, d, m
  <1>4. CASE check_reconnect(kept, h)
    <2> DEFINE q0 == [NewProto EXCEPT !.hs = h, !.sid = TRUE]
               q == setup_handshake(q0, mode)
               r0 == [q EXCEPT !.rd = h, !.wr = h]
               r == close_handshake(r0)
               u == send_key_syn(r)
               out == <<accepted(mode)>> \o u.out
    <2>1. /\ q0 \in Proto /\ q0.hs = h /\ q0.has_data = NewProto.has_data
          /\ q0.closing = NewProto.closing
      BY <1>0, NewObject, SetSecretId, ZenonT(30)
    <2>2. /\ q \in Proto /\ q.hs = q0.hs /\ q.closing = q0.closing /\ q.sw = mode
      <3>1. ~q0.has_data  BY <2>1, NewObject
      <3> HIDE DEF q0
      <3> QED  BY <2>1, <3>1, OpenedHandshake
    <2>3. dispatch_handshake_reconn_req(NewProto, m) = Does(u.p, out)
      BY <1>1, <1>4, <2>2 DEF dispatch_handshake_reconn_req, accepted
    <2> HIDE DEF q0, q
    <2>4. r0 \in Proto /\ r0.hs = q.hs /\ r0.rd = h /\ r0.wr = h /\ r0.closing = q.closing
      BY <1>0, <2>2, SetReadWrite
    <2> HIDE DEF r0
    <2>5. /\ r \in Proto /\ r.hs = r0.hs /\ r.rd = r0.rd /\ r.wr = r0.wr /\ r.dh = Blank
          /\ r.done /\ ~r.has_data /\ r.closing = r0.closing
      BY <2>4, ClosedHandshake
    <2> HIDE DEF r
    <2>6. ~r.closing  BY <2>1, <2>2, <2>4, <2>5, NewObject
    <2>7. r.hs = h /\ r.rd = h /\ r.wr = h  BY <2>1, <2>2, <2>4, <2>5
    <2>8. ProtoOK(r, fresh)  BY <1>0, <2>5, <2>6, <2>7 DEF ProtoOK
    <2> HIDE DEF out, d
    <2>9. d.p = u.p /\ d.out = out  BY <1>2, <2>3, TwoParts
    <2>10. CASE h = Plain
      <3>1. u = Does(r, <<>>)  BY <2>7, <2>10, NoKeySyn
      <3> HIDE DEF u
      <3>2. u.p = r /\ u.out = <<>>  BY <3>1, TwoParts
      <3>3. out = <<accepted(mode)>>
        <4> DEFINE am == accepted(mode)
        <4>1. out = <<am>> \o <<>>  BY <3>2 DEF out
        <4> HIDE DEF am
        <4>2. <<am>> \o <<>> = <<am>>  OBVIOUS
        <4> QED  BY <4>1, <4>2 DEF am
      <3>4. /\ ProtoOK(d.p, fresh) /\ ~d.p.closing /\ d.p.done /\ ~d.p.has_data
            /\ h = Plain /\ d.p.hs = h /\ d.p.rd = h /\ d.p.wr = h
            /\ d.out = <<accepted(mode)>>
        BY <2>5, <2>6, <2>7, <2>8, <2>9, <2>10, <3>2, <3>3
      <3> QED  BY <3>4 DEF d, m
    <2>11. CASE h # Plain
      <3>1. r.hs # Plain  BY <2>7, <2>11
      <3>2. u.out = <<start_rsp(TRUE, mode, fresh)>> /\ Opens(u.p, r, mode, fresh)
        BY <2>5, <2>6, <2>8, <3>1, KeySyn
      <3> HIDE DEF u
      <3>3. out = <<accepted(mode)>> \o <<start_rsp(TRUE, mode, fresh)>>  BY <3>2 DEF out
      <3>4. Opens(d.p, r, mode, fresh)  BY <2>9, <3>2
      <3>5. d.out = <<accepted(mode)>> \o <<start_rsp(TRUE, mode, fresh)>>  BY <2>9, <3>3
      <3>6. \E s : /\ s.done /\ s.rd = h /\ s.wr = h
                   /\ Opens(d.p, s, mode, fresh)
                   /\ d.out = <<accepted(mode)>> \o <<start_rsp(TRUE, mode, fresh)>>
        BY <2>5, <2>7, <3>4, <3>5
      <3> QED  BY <3>6 DEF d, m
    <2> QED  BY <2>10, <2>11
  <1> QED  BY <1>3, <1>4


-----------------------------------------------------------------------------
(* From phase to phase *)

(* The messages are messages.                                              *)
LEMMA Messages ==
    ASSUME NEW k \in Int, NEW sw \in {"direct", "dh"}, NEW syn \in BOOLEAN
    PROVE  /\ Post(k) \in Message /\ send_kickoff \in Message
           /\ send_verify(sw, k) \in Message /\ start_rsp(syn, sw, k) \in Message
           /\ accepted(sw) \in Message /\ refused(sw) \in Message
           /\ pubkey_req(k) \in Message /\ pubkey_rsp(k) \in Message
           /\ [step |-> "start_req", cipher |-> syn] \in Message
           /\ [step |-> "reconn_req", key |-> k] \in Message
  <1>1. Post(k) \in Message /\ send_kickoff \in Message  BY DEF Post, send_kickoff, Message
  <1>2. send_verify(sw, k) \in Message  BY DEF send_verify, Message
  <1>3. start_rsp(syn, sw, k) \in Message  BY DEF start_rsp, Message
  <1>4. accepted(sw) \in Message /\ refused(sw) \in Message
    BY DEF accepted, refused, Message
  <1>5. pubkey_req(k) \in Message /\ pubkey_rsp(k) \in Message
    BY DEF pubkey_req, pubkey_rsp, Message
  <1>6. [step |-> "start_req", cipher |-> syn] \in Message  BY DEF Message
  <1>7. [step |-> "reconn_req", key |-> k] \in Message  BY DEF Message
  <1> QED  BY <1>1, <1>2, <1>3, <1>4, <1>5, <1>6, <1>7

(* Two objects, two channels, and nobody is closing.                       *)
Ctx(c, s, a, b, f) ==
    /\ f \in Nat \ {0} /\ ProtoOK(c, f) /\ ProtoOK(s, f)
    /\ a \in Seq(Message) /\ b \in Seq(Message)
    /\ ~c.closing /\ ~s.closing

(* What an object reads and writes with, once its handshake is done.       *)
LEMMA Keyed ==
    ASSUME NEW c, NEW s, NEW a, NEW b, NEW f, Ctx(c, s, a, b, f)
    PROVE  /\ c.done => Reads(c) = c.rd /\ Writes(c) = c.wr /\ c.rd # NoKey /\ c.wr # NoKey
           /\ s.done => Reads(s) = s.rd /\ Writes(s) = s.wr /\ s.rd # NoKey /\ s.wr # NoKey
           /\ ~c.done => Reads(c) = NoKey /\ Writes(c) = NoKey
           /\ ~s.done => Reads(s) = NoKey /\ Writes(s) = NoKey
           /\ c \in Proto /\ s \in Proto /\ c.wr \in Int /\ s.wr \in Int
  BY DEF Ctx, ProtoOK, Proto, Reads, Writes

(* An exchange is one of the phases.                                       *)
LEMMA InExchange ==
    ASSUME NEW c, NEW s, NEW a, NEW b, NEW f, NEW k \in 1..(f - 1),
           ~c.closing, ~s.closing, Exchange(c, s, a, b, k)
    PROVE  Phase(c, s, a, b, f)
  BY DEF Phase, Open

(* So is the time between exchanges.                                       *)
LEMMA InPhase ==
    ASSUME NEW c, NEW s, NEW a, NEW b, NEW f, ~c.closing, ~s.closing,
           Starting(c, s, a, b) \/ Idle(c, s, a, b) \/ Plainly(c, s, a, b)
    PROVE  Phase(c, s, a, b, f)
  BY DEF Phase, Open

(* The number of the next secret, after the messages out.                  *)
NextFresh(out) ==
    IF \E m \in Range(out) : m.step = "start_rsp" /\ m.key = fresh
    THEN fresh + 1 ELSE fresh

(* The reader of a channel takes its first message, and all is well.       *)
CliReads(c, s, a, b, f) ==
    LET m == Head(b)
        d == dispatch_data(c, m)
    IN  /\ ~Misread(c, m)
        /\ ProtoOK(d.p, f) /\ a \o d.out \in Seq(Message)
        /\ Phase(d.p, s, a \o d.out, Tail(b), f)

SrvReads(c, s, a, b) ==
    LET m == Head(a)
        d == dispatch_data(s, m)
    IN  /\ ~Misread(s, m)
        /\ ProtoOK(d.p, NextFresh(d.out)) /\ b \o d.out \in Seq(Message)
        /\ Phase(c, d.p, Tail(a), b \o d.out, NextFresh(d.out))

(* No new secret without a START_RSP.                                      *)
LEMMA NothingFresh ==
    ASSUME NEW out, \A m \in Range(out) : m.step # "start_rsp"
    PROVE  NextFresh(out) = fresh
  BY DEF NextFresh

(* A post on the way to the client is read.                                *)
LEMMA CliReadsPost ==
    ASSUME NEW c, NEW s, NEW a, NEW b, NEW f, Ctx(c, s, a, b, f),
           IsPost(Head(b), Reads(c)), Phase(c, s, a, Tail(b), f)
    PROVE  CliReads(c, s, a, b, f)
  <1> DEFINE m == Head(b)
             d == dispatch_data(c, m)
  <1>0. ~c.closing /\ a \in Seq(Message) /\ ProtoOK(c, f)  BY DEF Ctx
  <1>1. d = Does(c, <<>>) /\ ~Misread(c, m)  BY <1>0, PostIsRead
  <1>2. d.p = c /\ d.out = <<>>
    <2> HIDE DEF d
    <2> QED  BY <1>1, TwoParts
  <1>3. a \o d.out = a
    <2>1. a \o <<>> = a  BY <1>0
    <2> QED  BY <1>2, <2>1
  <1> HIDE DEF d, m
  <1>4. ProtoOK(d.p, f) /\ a \o d.out \in Seq(Message)  BY <1>0, <1>2, <1>3
  <1>5. Phase(d.p, s, a \o d.out, Tail(b), f)  BY <1>2, <1>3
  <1> QED  BY <1>1, <1>4, <1>5 DEF CliReads, d, m

(* A post on the way to the gateway is read.                               *)
LEMMA SrvReadsPost ==
    ASSUME NEW c, NEW s, NEW a, NEW b, Ctx(c, s, a, b, fresh),
           IsPost(Head(a), Reads(s)), Phase(c, s, Tail(a), b, fresh)
    PROVE  SrvReads(c, s, a, b)
  <1> DEFINE m == Head(a)
             d == dispatch_data(s, m)
  <1>0. ~s.closing /\ b \in Seq(Message) /\ ProtoOK(s, fresh)  BY DEF Ctx
  <1>1. d = Does(s, <<>>) /\ ~Misread(s, m)  BY <1>0, PostIsRead
  <1>2. d.p = s /\ d.out = <<>>
    <2> HIDE DEF d
    <2> QED  BY <1>1, TwoParts
  <1>3. b \o d.out = b
    <2>1. b \o <<>> = b  BY <1>0
    <2> QED  BY <1>2, <2>1
  <1>4. NextFresh(d.out) = fresh
    <2>1. Range(<<>>) = {}  BY DEF Range
    <2> QED  BY <1>2, <2>1, NothingFresh
  <1> HIDE DEF d, m
  <1>5. ProtoOK(d.p, NextFresh(d.out)) /\ b \o d.out \in Seq(Message)  BY <1>0, <1>2, <1>3, <1>4
  <1>6. Phase(c, d.p, Tail(a), b \o d.out, NextFresh(d.out))  BY <1>2, <1>3, <1>4
  <1> QED  BY <1>1, <1>5, <1>6 DEF SrvReads, d, m

(* A handshake message, to which the client answers with out.              *)
LEMMA CliReadsMessage ==
    ASSUME NEW c, NEW s, NEW a, NEW b, NEW f, NEW p, NEW out,
           a \in Seq(Message), out \in Seq(Message), Head(b).step # "post",
           dispatch_data(c, Head(b)).p = p, dispatch_data(c, Head(b)).out = out,
           ProtoOK(p, f), Phase(p, s, a \o out, Tail(b), f)
    PROVE  CliReads(c, s, a, b, f)
  <1>1. ~Misread(c, Head(b))  BY HandshakeIsRead
  <1>2. a \o out \in Seq(Message)  OBVIOUS
  <1> QED  BY <1>1, <1>2 DEF CliReads

(* A handshake message, to which the gateway answers with out.             *)
LEMMA SrvReadsMessage ==
    ASSUME NEW c, NEW s, NEW a, NEW b, NEW p, NEW out, NEW f,
           b \in Seq(Message), out \in Seq(Message), Head(a).step # "post",
           dispatch_data(s, Head(a)).p = p, dispatch_data(s, Head(a)).out = out,
           NextFresh(out) = f, ProtoOK(p, f), Phase(c, p, Tail(a), b \o out, f)
    PROVE  SrvReads(c, s, a, b)
  <1>1. ~Misread(s, Head(a))  BY HandshakeIsRead
  <1>2. b \o out \in Seq(Message)  OBVIOUS
  <1> QED  BY <1>1, <1>2 DEF SrvReads


(* The client, while the secret is on its way to it.                       *)
LEMMA CliInDirect1 ==
    ASSUME NEW c, NEW s, NEW a, NEW b, NEW f, Ctx(c, s, a, b, f),
           NEW k \in 1..(f - 1), Direct1(c, s, a, b, k)
    PROVE  CliReads(c, s, a, b, f)
  <1> USE DEF Ctx
  <1>1. PICK syn \in BOOLEAN : /\ c.done => syn
                               /\ Split(b, Reads(c), start_rsp(syn, "direct", k), k)
    BY DEF Direct1
  <1> DEFINE m == start_rsp(syn, "direct", k)
             v == send_verify("direct", k)
             d == dispatch_data(c, m)
  <1>2. \/ IsPost(Head(b), Reads(c)) /\ Split(Tail(b), Reads(c), m, k)
        \/ Head(b) = m /\ Posts(Tail(b), k)
    BY <1>1, SplitTaken
  <1>3. CASE IsPost(Head(b), Reads(c)) /\ Split(Tail(b), Reads(c), m, k)
    <2>1. Direct1(c, s, a, Tail(b), k)  BY <1>1, <1>3 DEF Direct1
    <2>2. Phase(c, s, a, Tail(b), f)  BY <2>1, InExchange DEF Exchange
    <2> QED  BY <1>3, <2>2, CliReadsPost
  <1>4. CASE Head(b) = m /\ Posts(Tail(b), k)
    <2>1. k \in KeysOf(f) /\ k # NoKey /\ k # Plain /\ k \in Int  BY SecretIsKey
    <2>2. ~c.has_data  BY DEF Direct1
    <2>3. /\ d.out = <<v>>
          /\ ProtoOK(d.p, f) /\ ~d.p.closing /\ ~d.p.has_data
          /\ d.p.done /\ d.p.rd = k /\ d.p.wr = k
      <3>1. m.step = "start_rsp" /\ m.sw = "direct" /\ m.key = k  BY DEF start_rsp
      <3>2. m.syn \in BOOLEAN /\ (c.done => m.syn)  BY <1>1 DEF start_rsp
      <3>3. f \in Nat \ {0} /\ ProtoOK(c, f) /\ ~c.closing  OBVIOUS
      <3> HIDE DEF m
      <3>4. d.out = <<v>> /\ Settles(d.p, f, k)
        BY ONLY <2>1, <2>2, <3>1, <3>2, <3>3, TakesSecret
      <3> HIDE DEF d, v
      <3> QED  BY <3>4 DEF Settles
    <2>4. v \in Message  BY <2>1, Messages
    <2>5. m.step # "post"  BY DEF start_rsp
    <2> HIDE DEF m, v, d
    <2>6. Split(a \o <<v>>, Reads(s), v, k)  BY <2>4, SplitBegun DEF Direct1
    <2>7. Direct2(d.p, s, a \o <<v>>, Tail(b), k)
      BY <1>4, <2>3, <2>6 DEF Direct1, Direct2, v
    <2>8. Phase(d.p, s, a \o <<v>>, Tail(b), f)  BY <2>3, <2>7, InExchange DEF Exchange
    <2>9. <<v>> \in Seq(Message)  BY <2>4
    <2> QED  BY <1>4, <2>3, <2>5, <2>8, <2>9, CliReadsMessage DEF d
  <1> QED  BY <1>2, <1>3, <1>4

(* The gateway reads while its START_RSP (direct) is on its way.           *)
LEMMA SrvInDirect1 ==
    ASSUME NEW c, NEW s, NEW a, NEW b, Ctx(c, s, a, b, fresh), a # <<>>,
           NEW k \in 1..(fresh - 1), Direct1(c, s, a, b, k)
    PROVE  SrvReads(c, s, a, b)
  <1> USE DEF Ctx
  <1>1. IsPost(Head(a), Reads(s)) /\ Posts(Tail(a), Reads(s))
    BY PostsTaken DEF Direct1
  <1>2. Direct1(c, s, Tail(a), b, k)  BY <1>1 DEF Direct1
  <1>3. Phase(c, s, Tail(a), b, fresh)  BY <1>2, InExchange DEF Exchange
  <1> QED  BY <1>1, <1>3, SrvReadsPost

(* The verification is on its way to the gateway.                          *)
LEMMA CliInDirect2 ==
    ASSUME NEW c, NEW s, NEW a, NEW b, NEW f, Ctx(c, s, a, b, f), b # <<>>,
           NEW k \in 1..(f - 1), Direct2(c, s, a, b, k)
    PROVE  CliReads(c, s, a, b, f)
  <1> USE DEF Ctx
  <1>1. IsPost(Head(b), k) /\ Posts(Tail(b), k)  BY PostsTaken DEF Direct2
  <1>2. Reads(c) = k  BY DEF Direct2, Reads
  <1>3. Direct2(c, s, a, Tail(b), k)  BY <1>1 DEF Direct2
  <1>4. Phase(c, s, a, Tail(b), f)  BY <1>3, InExchange DEF Exchange
  <1> QED  BY <1>1, <1>2, <1>4, CliReadsPost

(* The client reads in the last phase of a dh exchange.                    *)
LEMMA CliInDh4 ==
    ASSUME NEW c, NEW s, NEW a, NEW b, NEW f, Ctx(c, s, a, b, f), b # <<>>,
           NEW k \in 1..(f - 1), Dh4(c, s, a, b, k)
    PROVE  CliReads(c, s, a, b, f)
  <1> USE DEF Ctx
  <1>1. IsPost(Head(b), k) /\ Posts(Tail(b), k)  BY PostsTaken DEF Dh4
  <1>2. Reads(c) = k  BY DEF Dh4, Reads
  <1>3. Dh4(c, s, a, Tail(b), k)  BY <1>1 DEF Dh4
  <1>4. Phase(c, s, a, Tail(b), f)  BY <1>3, InExchange DEF Exchange
  <1> QED  BY <1>1, <1>2, <1>4, CliReadsPost

(* The gateway takes the verification of either kind.                      *)
LEMMA SrvVerified ==
    ASSUME NEW c, NEW s, NEW a, NEW b, Ctx(c, s, a, b, fresh),
           NEW k \in 1..(fresh - 1), NEW sw \in {"direct", "dh"}, Serving(s, sw),
           s.wr = k, sw = "direct" => s.hs = k, sw = "dh" => s.rd = k,
           ~c.has_data, c.done, c.rd = k, c.wr = k,
           Head(a) = send_verify(sw, k), Posts(Tail(a), k), Posts(b, k)
    PROVE  SrvReads(c, s, a, b)
  <1> USE DEF Ctx
  <1> DEFINE m == send_verify(sw, k)
             d == dispatch_data(s, m)
  <1>1. /\ d.out = <<>>
        /\ ProtoOK(d.p, fresh) /\ ~d.p.closing /\ ~d.p.has_data
        /\ d.p.done /\ d.p.rd = k /\ d.p.wr = k
    BY TakesVerification
  <1>2. m.step # "post"  BY DEF send_verify
  <1> HIDE DEF m, d
  <1>3. Idle(c, d.p, Tail(a), b)  BY <1>1 DEF Idle
  <1>4. b \o <<>> = b  OBVIOUS
  <1>5. Phase(c, d.p, Tail(a), b \o <<>>, fresh)  BY <1>1, <1>3, <1>4, InPhase
  <1>6. NextFresh(<<>>) = fresh
    <2>1. Range(<<>>) = {}  BY DEF Range
    <2> QED  BY <2>1, NothingFresh
  <1>7. Head(a) = m  BY DEF m
  <1>8. <<>> \in Seq(Message)  OBVIOUS
  <1> QED  BY <1>1, <1>2, <1>5, <1>6, <1>7, <1>8, SrvReadsMessage DEF d

(* The gateway reads when VERIFY (direct) is on its way.                   *)
LEMMA SrvInDirect2 ==
    ASSUME NEW c, NEW s, NEW a, NEW b, Ctx(c, s, a, b, fresh),
           NEW k \in 1..(fresh - 1), Direct2(c, s, a, b, k)
    PROVE  SrvReads(c, s, a, b)
  <1> USE DEF Ctx
  <1> DEFINE m == send_verify("direct", k)
  <1>1. \/ IsPost(Head(a), Reads(s)) /\ Split(Tail(a), Reads(s), m, k)
        \/ Head(a) = m /\ Posts(Tail(a), k)
    BY SplitTaken DEF Direct2
  <1>2. CASE IsPost(Head(a), Reads(s)) /\ Split(Tail(a), Reads(s), m, k)
    <2>1. Direct2(c, s, Tail(a), b, k)  BY <1>2 DEF Direct2
    <2>2. Phase(c, s, Tail(a), b, fresh)  BY <2>1, InExchange DEF Exchange
    <2> QED  BY <1>2, <2>2, SrvReadsPost
  <1>3. CASE Head(a) = m /\ Posts(Tail(a), k)
    BY <1>3, SrvVerified DEF Direct2
  <1> QED  BY <1>1, <1>2, <1>3

(* The gateway reads when VERIFY (dh) is on its way.                       *)
LEMMA SrvInDh4 ==
    ASSUME NEW c, NEW s, NEW a, NEW b, Ctx(c, s, a, b, fresh),
           NEW k \in 1..(fresh - 1), Dh4(c, s, a, b, k)
    PROVE  SrvReads(c, s, a, b)
  <1> USE DEF Ctx
  <1> DEFINE m == send_verify("dh", k)
  <1>1. \/ IsPost(Head(a), Reads(s)) /\ Split(Tail(a), Reads(s), m, k)
        \/ Head(a) = m /\ Posts(Tail(a), k)
    BY SplitTaken DEF Dh4
  <1>2. CASE IsPost(Head(a), Reads(s)) /\ Split(Tail(a), Reads(s), m, k)
    <2>1. Dh4(c, s, Tail(a), b, k)  BY <1>2 DEF Dh4
    <2>2. Phase(c, s, Tail(a), b, fresh)  BY <2>1, InExchange DEF Exchange
    <2> QED  BY <1>2, <2>2, SrvReadsPost
  <1>3. CASE Head(a) = m /\ Posts(Tail(a), k)
    BY <1>3, SrvVerified DEF Dh4
  <1> QED  BY <1>1, <1>2, <1>3


(* The parameters are on their way to the client.                          *)
LEMMA CliInDh1 ==
    ASSUME NEW c, NEW s, NEW a, NEW b, NEW f, Ctx(c, s, a, b, f),
           NEW k \in 1..(f - 1), Dh1(c, s, a, b, k)
    PROVE  CliReads(c, s, a, b, f)
  <1> USE DEF Ctx
  <1>1. PICK syn \in BOOLEAN : /\ c.done => syn
                               /\ Split(b, Reads(c), start_rsp(syn, "dh", k), Reads(c))
    BY DEF Dh1
  <1> DEFINE m == start_rsp(syn, "dh", k)
             v == pubkey_req(k)
             d == dispatch_data(c, m)
  <1>2. \/ IsPost(Head(b), Reads(c)) /\ Split(Tail(b), Reads(c), m, Reads(c))
        \/ Head(b) = m /\ Posts(Tail(b), Reads(c))
    BY <1>1, SplitTaken
  <1>3. CASE IsPost(Head(b), Reads(c)) /\ Split(Tail(b), Reads(c), m, Reads(c))
    <2>1. Dh1(c, s, a, Tail(b), k)  BY <1>1, <1>3 DEF Dh1
    <2>2. Phase(c, s, a, Tail(b), f)  BY <2>1, InExchange DEF Exchange
    <2> QED  BY <1>3, <2>2, CliReadsPost
  <1>4. CASE Head(b) = m /\ Posts(Tail(b), Reads(c))
    <2>1. k \in KeysOf(f) /\ k # NoKey /\ k # Plain /\ k \in Int  BY SecretIsKey
    <2>2. ~c.has_data  BY DEF Dh1
    <2>3. /\ d.out = <<v>>
          /\ ProtoOK(d.p, f) /\ ~d.p.closing /\ Asking(d.p, k)
          /\ d.p.done = c.done /\ d.p.rd = c.rd
      <3>1. m.step = "start_rsp" /\ m.sw = "dh" /\ m.key = k  BY DEF start_rsp
      <3>2. m.syn \in BOOLEAN /\ (c.done => m.syn)  BY <1>1 DEF start_rsp
      <3>3. f \in Nat \ {0} /\ ProtoOK(c, f) /\ ~c.closing  OBVIOUS
      <3> HIDE DEF m
      <3> QED  BY ONLY <2>2, <3>1, <3>2, <3>3, k \in 1..(f - 1), TakesParameters
    <2>4. v \in Message  BY <2>1, Messages
    <2>5. m.step # "post"  BY DEF start_rsp
    <2> HIDE DEF m, v, d
    <2>6. Split(a \o <<v>>, Reads(s), v, Writes(d.p))  BY <2>4, SplitBegun DEF Dh1
    <2>7. Reads(d.p) = Reads(c)  BY <2>3 DEF Reads
    <2>8. Dh2(d.p, s, a \o <<v>>, Tail(b), k)
      BY <1>4, <2>3, <2>6, <2>7 DEF Dh1, Dh2, v
    <2>9. Phase(d.p, s, a \o <<v>>, Tail(b), f)  BY <2>3, <2>8, InExchange DEF Exchange
    <2>10. <<v>> \in Seq(Message)  BY <2>4
    <2> QED  BY <1>4, <2>3, <2>5, <2>9, <2>10, CliReadsMessage DEF d
  <1> QED  BY <1>2, <1>3, <1>4

(* The gateway reads while its START_RSP (dh) is on its way.               *)
LEMMA SrvInDh1 ==
    ASSUME NEW c, NEW s, NEW a, NEW b, Ctx(c, s, a, b, fresh), a # <<>>,
           NEW k \in 1..(fresh - 1), Dh1(c, s, a, b, k)
    PROVE  SrvReads(c, s, a, b)
  <1> USE DEF Ctx
  <1>1. IsPost(Head(a), Reads(s)) /\ Posts(Tail(a), Reads(s))
    BY PostsTaken DEF Dh1
  <1>2. Dh1(c, s, Tail(a), b, k)  BY <1>1 DEF Dh1
  <1>3. Phase(c, s, Tail(a), b, fresh)  BY <1>2, InExchange DEF Exchange
  <1> QED  BY <1>1, <1>3, SrvReadsPost

(* The client's public key is on its way to the gateway.                   *)
LEMMA CliInDh2 ==
    ASSUME NEW c, NEW s, NEW a, NEW b, NEW f, Ctx(c, s, a, b, f), b # <<>>,
           NEW k \in 1..(f - 1), Dh2(c, s, a, b, k)
    PROVE  CliReads(c, s, a, b, f)
  <1> USE DEF Ctx
  <1>1. IsPost(Head(b), Reads(c)) /\ Posts(Tail(b), Reads(c))
    BY PostsTaken DEF Dh2
  <1>2. Dh2(c, s, a, Tail(b), k)  BY <1>1 DEF Dh2
  <1>3. Phase(c, s, a, Tail(b), f)  BY <1>2, InExchange DEF Exchange
  <1> QED  BY <1>1, <1>3, CliReadsPost

(* The gateway reads when the client's public key is on its way.           *)
LEMMA SrvInDh2 ==
    ASSUME NEW c, NEW s, NEW a, NEW b, Ctx(c, s, a, b, fresh),
           NEW k \in 1..(fresh - 1), Dh2(c, s, a, b, k)
    PROVE  SrvReads(c, s, a, b)
  <1> USE DEF Ctx
  <1> DEFINE m == pubkey_req(k)
             v == pubkey_rsp(k)
             d == dispatch_data(s, m)
  <1>1. \/ IsPost(Head(a), Reads(s)) /\ Split(Tail(a), Reads(s), m, Writes(c))
        \/ Head(a) = m /\ Posts(Tail(a), Writes(c))
    BY SplitTaken DEF Dh2
  <1>2. CASE IsPost(Head(a), Reads(s)) /\ Split(Tail(a), Reads(s), m, Writes(c))
    <2>1. Dh2(c, s, Tail(a), b, k)  BY <1>2 DEF Dh2
    <2>2. Phase(c, s, Tail(a), b, fresh)  BY <2>1, InExchange DEF Exchange
    <2> QED  BY <1>2, <2>2, SrvReadsPost
  <1>3. CASE Head(a) = m /\ Posts(Tail(a), Writes(c))
    <2>1. k \in Int /\ k # NoKey  BY SecretIsKey
    <2>2. /\ d.out = <<v>>
          /\ ProtoOK(d.p, fresh) /\ ~d.p.closing /\ Serving(d.p, "dh")
          /\ d.p.done = s.done /\ d.p.rd = k /\ d.p.wr = k
      BY AnswersPublicKey DEF Dh2
    <2>3. v \in Message  BY <2>1, Messages
    <2>4. m.step # "post"  BY DEF pubkey_req
    <2>5. NextFresh(<<v>>) = fresh
      <3>1. \A x \in Range(<<v>>) : x = v  BY DEF Range
      <3>2. v.step # "start_rsp"  BY DEF pubkey_rsp
      <3> HIDE DEF v
      <3> QED  BY <3>1, <3>2, NothingFresh
    <2> HIDE DEF m, v, d
    <2>6. Split(b \o <<v>>, Reads(c), v, k)  BY <2>3, SplitBegun DEF Dh2
    <2>7. Posts(Tail(a), Reads(d.p))
      <3>1. Reads(d.p) = Writes(c)  BY <2>2 DEF Dh2, Asking, Reads, Writes
      <3> QED  BY <1>3, <3>1
    <2>8. Dh3(c, d.p, Tail(a), b \o <<v>>, k)
      BY <2>2, <2>6, <2>7 DEF Dh2, Dh3, v
    <2>9. Phase(c, d.p, Tail(a), b \o <<v>>, fresh)  BY <2>2, <2>8, InExchange DEF Exchange
    <2>10. <<v>> \in Seq(Message)  BY <2>3
    <2> QED  BY <1>3, <2>2, <2>4, <2>5, <2>9, <2>10, SrvReadsMessage DEF d
  <1> QED  BY <1>1, <1>2, <1>3


(* The gateway's public key is on its way to the client.                   *)
LEMMA CliInDh3 ==
    ASSUME NEW c, NEW s, NEW a, NEW b, NEW f, Ctx(c, s, a, b, f),
           NEW k \in 1..(f - 1), Dh3(c, s, a, b, k)
    PROVE  CliReads(c, s, a, b, f)
  <1> USE DEF Ctx
  <1> DEFINE m == pubkey_rsp(k)
             v == send_verify("dh", k)
             d == dispatch_data(c, m)
  <1>1. \/ IsPost(Head(b), Reads(c)) /\ Split(Tail(b), Reads(c), m, k)
        \/ Head(b) = m /\ Posts(Tail(b), k)
    BY SplitTaken DEF Dh3
  <1>2. CASE IsPost(Head(b), Reads(c)) /\ Split(Tail(b), Reads(c), m, k)
    <2>1. Dh3(c, s, a, Tail(b), k)  BY <1>2 DEF Dh3
    <2>2. Phase(c, s, a, Tail(b), f)  BY <2>1, InExchange DEF Exchange
    <2> QED  BY <1>2, <2>2, CliReadsPost
  <1>3. CASE Head(b) = m /\ Posts(Tail(b), k)
    <2>1. k \in Int /\ k # NoKey  BY SecretIsKey
    <2>2. /\ d.out = <<v>>
          /\ ProtoOK(d.p, f) /\ ~d.p.closing /\ ~d.p.has_data
          /\ d.p.done /\ d.p.rd = k /\ d.p.wr = k
      BY TakesPublicKey DEF Dh3
    <2>3. v \in Message  BY <2>1, Messages
    <2>4. m.step # "post"  BY DEF pubkey_rsp
    <2> HIDE DEF m, v, d
    <2>5. Split(a \o <<v>>, Reads(s), v, k)  BY <2>3, SplitBegun DEF Dh3
    <2>6. Dh4(d.p, s, a \o <<v>>, Tail(b), k)
      BY <1>3, <2>2, <2>5 DEF Dh3, Dh4, v
    <2>7. Phase(d.p, s, a \o <<v>>, Tail(b), f)  BY <2>2, <2>6, InExchange DEF Exchange
    <2>8. <<v>> \in Seq(Message)  BY <2>3
    <2> QED  BY <1>3, <2>2, <2>4, <2>7, <2>8, CliReadsMessage DEF d
  <1> QED  BY <1>1, <1>2, <1>3

(* The gateway reads while its own public key is on its way.               *)
LEMMA SrvInDh3 ==
    ASSUME NEW c, NEW s, NEW a, NEW b, Ctx(c, s, a, b, fresh), a # <<>>,
           NEW k \in 1..(fresh - 1), Dh3(c, s, a, b, k)
    PROVE  SrvReads(c, s, a, b)
  <1> USE DEF Ctx
  <1>1. IsPost(Head(a), Reads(s)) /\ Posts(Tail(a), Reads(s))
    BY PostsTaken DEF Dh3
  <1>2. Dh3(c, s, Tail(a), b, k)  BY <1>1 DEF Dh3
  <1>3. Phase(c, s, Tail(a), b, fresh)  BY <1>2, InExchange DEF Exchange
  <1> QED  BY <1>1, <1>3, SrvReadsPost

(* No exchange is open.                                                    *)
LEMMA CliInIdle ==
    ASSUME NEW c, NEW s, NEW a, NEW b, NEW f, Ctx(c, s, a, b, f), b # <<>>,
           Idle(c, s, a, b)
    PROVE  CliReads(c, s, a, b, f)
  <1> USE DEF Ctx
  <1>1. IsPost(Head(b), s.rd) /\ Posts(Tail(b), s.rd)  BY PostsTaken DEF Idle
  <1>2. Reads(c) = s.rd  BY DEF Idle, Reads
  <1>3. Idle(c, s, a, Tail(b))  BY <1>1 DEF Idle
  <1>4. Phase(c, s, a, Tail(b), f)  BY <1>3, InPhase
  <1> QED  BY <1>1, <1>2, <1>4, CliReadsPost

(* The gateway reads between exchanges.                                    *)
LEMMA SrvInIdle ==
    ASSUME NEW c, NEW s, NEW a, NEW b, Ctx(c, s, a, b, fresh), a # <<>>,
           Idle(c, s, a, b)
    PROVE  SrvReads(c, s, a, b)
  <1> USE DEF Ctx
  <1>1. IsPost(Head(a), s.rd) /\ Posts(Tail(a), s.rd)  BY PostsTaken DEF Idle
  <1>2. Reads(s) = s.rd  BY DEF Idle, Reads
  <1>3. Idle(c, s, Tail(a), b)  BY <1>1 DEF Idle
  <1>4. Phase(c, s, Tail(a), b, fresh)  BY <1>3, InPhase
  <1> QED  BY <1>1, <1>2, <1>4, SrvReadsPost

(* The client hears of a session without encryption.                       *)
LEMMA CliInPlainly ==
    ASSUME NEW c, NEW s, NEW a, NEW b, NEW f, Ctx(c, s, a, b, f),
           Plainly(c, s, a, b)
    PROVE  CliReads(c, s, a, b, f)
  <1> USE DEF Ctx
  <1>0. /\ Plain \in KeysOf(f) /\ Plain # NoKey /\ Plain \in Int
        /\ s.done /\ ~s.has_data /\ s.rd = Plain /\ s.wr = Plain
        /\ ~c.done /\ ~c.has_data /\ a = <<>>
    BY KeysAreInt DEF Plainly
  <1> DEFINE m == Head(b)
             d == dispatch_data(c, m)
  <1>1. SUFFICES /\ m.step # "post" /\ d.out = <<>> /\ Settles(d.p, f, Plain)
                 /\ Posts(Tail(b), Plain)
    <2> HIDE DEF d
    <2>1. Posts(a, Plain)  BY <1>0, NonePosts
    <2>2. Idle(d.p, s, a, Tail(b))  BY <1>0, <1>1, <2>1 DEF Idle, Settles
    <2>3. a \o <<>> = a  OBVIOUS
    <2>4. Phase(d.p, s, a \o <<>>, Tail(b), f)  BY <1>1, <2>2, <2>3, InPhase DEF Settles
    <2>5. <<>> \in Seq(Message)  OBVIOUS
    <2>6. ProtoOK(d.p, f)  BY <1>1 DEF Settles
    <2> QED  BY <1>1, <2>4, <2>5, <2>6, CliReadsMessage DEF d
  <1>2. CASE Split(b, NoKey, start_rsp(FALSE, "direct", Plain), Plain)
    <2> DEFINE x == start_rsp(FALSE, "direct", Plain)
    <2>1. Split(b, NoKey, x, Plain)  BY <1>2
    <2>2. x.step = "start_rsp" /\ x.sw = "direct" /\ x.key = Plain /\ x.syn \in BOOLEAN
      BY DEF start_rsp
    <2> HIDE DEF x
    <2>3. m = x /\ Posts(Tail(b), Plain)  BY <2>1, SplitTaken DEF IsPost
    <2>4. m.step = "start_rsp" /\ m.sw = "direct" /\ m.key = Plain /\ m.syn \in BOOLEAN
      BY <2>2, <2>3
    <2> HIDE DEF m
    <2>5. d.out = <<>> /\ Settles(d.p, f, Plain)  BY <1>0, <2>4, TakesSecret
    <2> QED  BY <2>3, <2>4, <2>5
  <1>3. CASE /\ c.hs = Plain
             /\ \E sw \in {"direct", "dh"} : Split(b, NoKey, accepted(sw), Plain)
    <2>1. PICK sw \in {"direct", "dh"} : Split(b, NoKey, accepted(sw), Plain)  BY <1>3
    <2>2. m = accepted(sw) /\ Posts(Tail(b), Plain)  BY <2>1, SplitTaken DEF IsPost
    <2>3. m.step # "post"  BY <2>2 DEF accepted
    <2> HIDE DEF m
    <2>4. /\ d.out = <<>>
          /\ ProtoOK(d.p, f) /\ ~d.p.closing /\ ~d.p.has_data
          /\ d.p.done /\ d.p.rd = c.hs /\ d.p.wr = c.hs
      BY <1>0, <2>2, HearsAccepted
    <2>5. Settles(d.p, f, Plain)
      <3> HIDE DEF d
      <3> QED  BY <1>3, <2>4 DEF Settles
    <2> QED  BY <2>2, <2>3, <2>4, <2>5
  <1> QED  BY <1>2, <1>3 DEF Plainly


(* The client hears that its reconnect was accepted; the exchange that     *)
(* replaces the secret follows.                                            *)
LEMMA CliInResumed ==
    ASSUME NEW c, NEW s, NEW a, NEW b, NEW f, Ctx(c, s, a, b, f),
           NEW k \in 1..(f - 1), Resumed1(c, s, a, b, k)
    PROVE  CliReads(c, s, a, b, f)
  <1> USE DEF Ctx
  <1> DEFINE m == Head(b)
             d == dispatch_data(c, m)
  <1>0. /\ s.done /\ s.rd = c.hs /\ ~c.done /\ ~c.has_data /\ a = <<>> /\ b # <<>>
        /\ Tail(b) \in Seq(Message)
    BY DEF Resumed1, Resumed
  <1>1. PICK sw \in {"direct", "dh"} : m = accepted(sw)  BY DEF Resumed1, Resumed
  <1>2. m.step # "post"  BY <1>1 DEF accepted
  <1> HIDE DEF m
  <1>3. /\ d.out = <<>>
        /\ ProtoOK(d.p, f) /\ ~d.p.closing /\ ~d.p.has_data
        /\ d.p.done /\ d.p.rd = c.hs /\ d.p.wr = c.hs
    BY <1>0, <1>1, HearsAccepted
  <1> HIDE DEF d
  <1>4. Reads(d.p) = s.rd /\ Writes(d.p) = s.rd /\ Reads(s) = s.rd /\ Writes(s) = s.wr
    BY <1>0, <1>3 DEF Reads, Writes
  <1>5. Posts(a, Reads(s))  BY <1>0, NonePosts
  <1>6. TRUE \in BOOLEAN  OBVIOUS
  <1>7. Exchange(d.p, s, a, Tail(b), k)
    <2>1. CASE /\ Serving(s, "direct") /\ s.hs = k /\ s.wr = k
               /\ Split(Tail(b), NoKey, start_rsp(TRUE, "direct", k), k)
      <3> DEFINE x == start_rsp(TRUE, "direct", k)
      <3>1. Split(Tail(b), NoKey, x, k)  BY <2>1
      <3> HIDE DEF x
      <3>2. Split(Tail(b), Reads(d.p), x, k)  BY <1>0, <3>1, SplitAny
      <3>3. \E syn \in BOOLEAN : /\ d.p.done => syn
                                 /\ Split(Tail(b), Reads(d.p), start_rsp(syn, "direct", k), k)
        BY <1>6, <3>2, Zenon DEF x
      <3>4. Direct1(d.p, s, a, Tail(b), k)
        BY <1>0, <1>3, <1>4, <1>5, <2>1, <3>3 DEF Direct1
      <3> QED  BY <3>4 DEF Exchange
    <2>2. CASE /\ Serving(s, "dh") /\ s.dh = k /\ s.wr = c.hs
               /\ Split(Tail(b), NoKey, start_rsp(TRUE, "dh", k), c.hs)
      <3> DEFINE x == start_rsp(TRUE, "dh", k)
      <3>1. Split(Tail(b), NoKey, x, Reads(d.p))
        <4>1. Reads(d.p) = c.hs  BY <1>0, <1>4
        <4> QED  BY <2>2, <4>1, Zenon
      <3> HIDE DEF x
      <3>2. Split(Tail(b), Reads(d.p), x, Reads(d.p))  BY <1>0, <3>1, SplitAny
      <3>3. \E syn \in BOOLEAN :
               /\ d.p.done => syn
               /\ Split(Tail(b), Reads(d.p), start_rsp(syn, "dh", k), Reads(d.p))
        BY <1>6, <3>2, Zenon DEF x
      <3>4. Dh1(d.p, s, a, Tail(b), k)
        BY <1>0, <1>3, <1>4, <1>5, <2>2, <3>3 DEF Dh1
      <3> QED  BY <3>4 DEF Exchange
    <2> QED  BY <2>1, <2>2 DEF Resumed1
  <1>8. a \o <<>> = a  OBVIOUS
  <1>9. Phase(d.p, s, a \o <<>>, Tail(b), f)  BY <1>3, <1>7, <1>8, InExchange
  <1>10. <<>> \in Seq(Message)  OBVIOUS
  <1> QED  BY <1>2, <1>3, <1>9, <1>10, CliReadsMessage DEF d, m

(* The client hears that it was refused.                                   *)
LEMMA CliInRefused ==
    ASSUME NEW c, NEW s, NEW a, NEW b, NEW f \in Nat \ {0}, ProtoOK(c, f),
           b \in Seq(Message), b # <<>>, Refused(c, s, a, b)
    PROVE  CliReads(c, s, a, b, f)
  <1> DEFINE m == Head(b)
             d == dispatch_data(c, m)
  <1>0. a = <<>> /\ s.closing  BY DEF Refused
  <1>1. m = send_kickoff \/ \E sw \in {"direct", "dh"} : m = refused(sw)
    <2>1. 1 \in 1..Len(b) /\ m = b[1]  OBVIOUS
    <2> HIDE DEF m
    <2> QED  BY <2>1 DEF Refused
  <1>2. m.step # "post"  BY <1>1 DEF send_kickoff, refused
  <1>3. \A i \in 1..Len(Tail(b)) : \/ Tail(b)[i] = send_kickoff
                                   \/ \E sw \in {"direct", "dh"} : Tail(b)[i] = refused(sw)
    <2> SUFFICES ASSUME NEW i \in 1..Len(Tail(b))
                 PROVE  \/ Tail(b)[i] = send_kickoff
                        \/ \E sw \in {"direct", "dh"} : Tail(b)[i] = refused(sw)
      OBVIOUS
    <2>1. i + 1 \in 1..Len(b) /\ Tail(b)[i] = b[i + 1]  OBVIOUS
    <2> QED  BY <2>1 DEF Refused
  <1> HIDE DEF m
  <1>4. d.out = <<>> /\ ProtoOK(d.p, f) /\ d.p.closing
    <2>1. CASE c.closing
      <3>1. d = Does(c, <<>>)  BY <2>1, ClosingReadsNothing
      <3> HIDE DEF d
      <3>2. d.p = c /\ d.out = <<>>  BY <3>1, TwoParts
      <3> QED  BY <2>1, <3>2
    <2>2. CASE ~c.closing
      <3>1. ~c.done  BY <2>2 DEF Refused
      <3> QED  BY <1>1, <2>2, <3>1, HearsRefused
    <2> QED  BY <2>1, <2>2
  <1> HIDE DEF d
  <1>5. Refused(d.p, s, a \o <<>>, Tail(b))
    <2>1. a \o <<>> = <<>>  BY <1>0
    <2> QED  BY <1>0, <1>3, <1>4, <2>1 DEF Refused
  <1>6. Phase(d.p, s, a \o <<>>, Tail(b), f)  BY <1>5 DEF Phase
  <1>7. <<>> \in Seq(Message) /\ a \in Seq(Message)  BY <1>0
  <1> QED  BY <1>2, <1>4, <1>6, <1>7, CliReadsMessage DEF d, m

(* Whatever the client takes from its channel, it reads.                   *)
LEMMA ClientReads ==
    ASSUME NEW c, NEW s, NEW a, NEW b, NEW f \in Nat \ {0}, ProtoOK(c, f), ProtoOK(s, f),
           a \in Seq(Message), b \in Seq(Message), b # <<>>, Phase(c, s, a, b, f)
    PROVE  CliReads(c, s, a, b, f)
  <1>1. CASE Refused(c, s, a, b)  BY <1>1, CliInRefused
  <1>2. CASE ~c.closing /\ ~s.closing /\ Open(c, s, a, b, f)
    <2>1. Ctx(c, s, a, b, f)  BY <1>2 DEF Ctx
    <2>2. ~Starting(c, s, a, b)  BY DEF Starting
    <2>3. CASE Idle(c, s, a, b)  BY <2>1, <2>3, CliInIdle
    <2>4. CASE Plainly(c, s, a, b)  BY <2>1, <2>4, CliInPlainly
    <2>5. ASSUME NEW k \in 1..(f - 1), Exchange(c, s, a, b, k)
          PROVE  CliReads(c, s, a, b, f)
      BY <2>1, <2>5, CliInDirect1, CliInDirect2, CliInDh1, CliInDh2, CliInDh3, CliInDh4,
         CliInResumed DEF Exchange
    <2> QED  BY <1>2, <2>2, <2>3, <2>4, <2>5 DEF Open
  <1> QED  BY <1>1, <1>2 DEF Phase


(* The message that opens an exchange uses up the fresh secret.            *)
LEMMA FreshIsUsed ==
    ASSUME NEW out, NEW i \in DOMAIN out, out[i].step = "start_rsp", out[i].key = fresh
    PROVE  NextFresh(out) = fresh + 1
  BY DEF NextFresh, Range

(* The gateway opens an exchange where no exchange is open.                *)
LEMMA ExchangeOpened ==
    ASSUME NEW c, NEW s, NEW p, NEW a \in Seq(Message), NEW b \in Seq(Message),
           NEW k, NEW sw \in {"direct", "dh"}, NEW syn \in BOOLEAN, c.done => syn,
           start_rsp(syn, sw, k) \in Message,
           Opens(p, s, sw, k), ~c.has_data, c.done <=> s.done, Reads(c) = Reads(s),
           Writes(c) = Reads(s), Writes(s) = Reads(s), Posts(a, Reads(s)), Posts(b, Reads(s))
    PROVE  Exchange(c, p, a, b \o <<start_rsp(syn, sw, k)>>, k)
  <1> DEFINE x == start_rsp(syn, sw, k)
             e == b \o <<x>>
  <1>1. Reads(p) = Reads(s) /\ (c.done <=> p.done)  BY DEF Opens, Reads
  <1>2. \A j : Split(e, Reads(c), x, j)  BY SplitBegun
  <1> HIDE DEF e
  <1>3. CASE sw = "direct"
    <2>1. \E y \in BOOLEAN : /\ c.done => y
                             /\ Split(e, Reads(c), start_rsp(y, "direct", k), k)
      BY <1>2, <1>3
    <2>2. Serving(p, "direct") /\ p.hs = k /\ p.wr = k  BY <1>3 DEF Opens
    <2>3. Direct1(c, p, a, e, k)  BY <1>1, <2>1, <2>2 DEF Direct1
    <2> QED  BY <2>3 DEF Exchange, e
  <1>4. CASE sw = "dh"
    <2>1. \E y \in BOOLEAN : /\ c.done => y
                             /\ Split(e, Reads(c), start_rsp(y, "dh", k), Reads(c))
      BY <1>2, <1>4
    <2>2. Serving(p, "dh") /\ p.dh = k /\ p.wr = s.wr /\ (p.done <=> s.done)
      BY <1>4 DEF Opens
    <2>3. Writes(p) = Writes(s)  BY <2>2 DEF Writes
    <2>4. Dh1(c, p, a, e, k)  BY <1>1, <2>1, <2>2, <2>3 DEF Dh1
    <2> QED  BY <2>4 DEF Exchange, e
  <1> QED  BY <1>3, <1>4

(* The first message of a connection: a new session.                       *)
LEMMA SrvInStart ==
    ASSUME NEW c, NEW s, NEW a, NEW b, Ctx(c, s, a, b, fresh), Starting(c, s, a, b),
           mode \in {"direct", "dh"}, NEW cipher \in BOOLEAN,
           a = <<[step |-> "start_req", cipher |-> cipher]>>
    PROVE  SrvReads(c, s, a, b)
  <1> DEFINE m == [step |-> "start_req", cipher |-> cipher]
             d == dispatch_data(s, m)
  <1>0. /\ fresh \in Nat \ {0} /\ b = <<>> /\ s = NewProto /\ ~c.done /\ ~c.has_data
        /\ ~c.closing /\ b \in Seq(Message)
    BY DEF Ctx, Starting
  <1>1. Head(a) = m /\ Tail(a) = <<>> /\ m.step # "post"
    <2>1. m.step # "post"  OBVIOUS
    <2>2. a = <<m>>  OBVIOUS
    <2> HIDE DEF m
    <2> QED  BY <2>1, <2>2
  <1>2. CASE cipher = TRUE
    <2> DEFINE x == start_rsp(FALSE, mode, fresh)
    <2>1. m = [step |-> "start_req", cipher |-> TRUE]  BY <1>2
    <2> HIDE DEF m
    <2>2. d.out = <<x>> /\ Opens(d.p, s, mode, fresh)
      BY <1>0, <2>1, AnswersStart
    <2>3. x \in Message /\ x.step = "start_rsp" /\ x.key = fresh
      <3>1. FALSE \in BOOLEAN /\ fresh \in Int  BY <1>0
      <3>2. x \in Message  BY <3>1, Messages, Zenon
      <3> QED  BY <3>2 DEF start_rsp
    <2>4. Reads(c) = NoKey /\ Writes(c) = NoKey /\ Reads(s) = NoKey /\ Writes(s) = NoKey
          /\ ~s.done
      BY <1>0, NewObject DEF Reads, Writes
    <2>5. Posts(<<>>, Reads(s)) /\ <<>> \in Seq(Message)  BY NonePosts
    <2>6. Exchange(c, d.p, <<>>, b \o <<x>>, fresh)
      <3> HIDE DEF d
      <3>1. FALSE \in BOOLEAN /\ (c.done => FALSE) /\ (c.done <=> s.done)  BY <1>0, <2>4
      <3>2. /\ Reads(c) = Reads(s) /\ Writes(c) = Reads(s) /\ Writes(s) = Reads(s)
            /\ Posts(b, Reads(s))
        BY <1>0, <2>4, <2>5
      <3> QED  BY <1>0, <2>2, <2>3, <2>5, <3>1, <3>2, ExchangeOpened, Zenon
    <2> HIDE DEF x, d
    <2>7. NextFresh(<<x>>) = fresh + 1
      <3>1. 1 \in DOMAIN <<x>> /\ <<x>>[1] = x  OBVIOUS
      <3> QED  BY <2>3, <3>1, FreshIsUsed
    <2>8. fresh \in 1..((fresh + 1) - 1) /\ ~d.p.closing /\ ProtoOK(d.p, fresh + 1)
      BY <1>0, <2>2 DEF Opens
    <2>9. Phase(c, d.p, Tail(a), b \o <<x>>, fresh + 1)
      BY <1>0, <1>1, <2>6, <2>8, InExchange
    <2>10. <<x>> \in Seq(Message)  BY <2>3
    <2> QED  BY <1>0, <1>1, <2>2, <2>7, <2>8, <2>9, <2>10, SrvReadsMessage DEF d
  <1>3. CASE cipher = FALSE
    <2> DEFINE x == start_rsp(FALSE, "direct", Plain)
    <2>1. m = [step |-> "start_req", cipher |-> FALSE]  BY <1>3
    <2> HIDE DEF m
    <2>2. /\ d.out = <<x>>
          /\ ProtoOK(d.p, fresh) /\ ~d.p.closing /\ d.p.done /\ ~d.p.has_data
          /\ d.p.hs = Plain /\ d.p.rd = Plain /\ d.p.wr = Plain
      BY <1>0, <2>1, AnswersPlainStart
    <2>3. x \in Message /\ x.key = Plain
      <3>1. FALSE \in BOOLEAN /\ Plain \in Int /\ "direct" \in {"direct", "dh"}  BY DEF Plain
      <3>2. x \in Message  BY <3>1, Messages, Zenon
      <3> QED  BY <3>2 DEF start_rsp
    <2> HIDE DEF d
    <2>4. Split(b \o <<x>>, NoKey, x, Plain)
      <3> HIDE DEF x
      <3>1. Posts(b, NoKey)  BY <1>0, NonePosts
      <3> QED  BY <1>0, <2>3, <3>1, SplitBegun
    <2>5. Plainly(c, d.p, Tail(a), b \o <<x>>)
      <3>1. d.p.done /\ ~d.p.has_data /\ ~c.done /\ ~c.has_data /\ Tail(a) = <<>>
        BY <1>0, <1>1, <2>2
      <3> QED  BY <2>2, <2>4, <3>1, Zenon DEF Plainly
    <2> HIDE DEF x
    <2>6. NextFresh(<<x>>) = fresh
      <3>1. \A y \in Range(<<x>>) : y.key # fresh
        <4>1. \A y \in Range(<<x>>) : y = x  BY DEF Range
        <4>2. Plain # fresh  BY <1>0 DEF Plain
        <4> QED  BY <2>3, <4>1, <4>2
      <3> QED  BY <3>1 DEF NextFresh
    <2>7. Phase(c, d.p, Tail(a), b \o <<x>>, fresh)  BY <1>0, <2>2, <2>5, InPhase
    <2>8. <<x>> \in Seq(Message)  BY <2>3
    <2> QED  BY <1>0, <1>1, <2>2, <2>6, <2>7, <2>8, SrvReadsMessage DEF d
  <1> QED  BY <1>2, <1>3


(* Two messages on an empty channel.                                       *)
LEMMA TwoMessages ==
    ASSUME NEW M, NEW x \in M, NEW y \in M
    PROVE  LET out == <<x>> \o <<y>>
           IN  /\ out \in Seq(M) /\ <<>> \o out = out /\ out # <<>>
               /\ Head(out) = x /\ Tail(out) = <<y>> /\ 2 \in DOMAIN out /\ out[2] = y
  <1> DEFINE out == <<x>> \o <<y>>
  <1>1. <<x>> \in Seq(M) /\ <<y>> \in Seq(M)  OBVIOUS
  <1>2. out \in Seq(M)  BY <1>1
  <1>3. Len(out) = 2 /\ out[1] = x /\ out[2] = y  OBVIOUS
  <1> HIDE DEF out
  <1>4. <<>> \o out = out  BY <1>2
  <1>5. out # <<>> /\ Head(out) = x /\ 2 \in DOMAIN out
    <2>1. DOMAIN out = 1..2  BY <1>2, <1>3
    <2>2. out # <<>>  BY <1>3
    <2>3. Head(out) = out[1]  BY <1>2, <2>2, HeadTailProperties
    <2> QED  BY <1>3, <2>1, <2>2, <2>3
  <1>6. Len(Tail(out)) = 1 /\ Tail(out)[1] = y /\ Tail(out) \in Seq(M)  BY <1>2, <1>3, <1>5, SMTT(30)
  <1>7. Tail(out) = <<y>>
    <2>1. Len(<<y>>) = 1 /\ <<y>>[1] = y  OBVIOUS
    <2>2. \A i \in 1..1 : i = 1  OBVIOUS
    <2> QED  BY <1>1, <1>6, <2>1, <2>2, SeqEqual
  <1> QED  BY <1>2, <1>3, <1>4, <1>5, <1>7 DEF out

(* The first message of a connection: a reconnect.                         *)
LEMMA SrvInReconnect ==
    ASSUME NEW c, NEW s, NEW a, NEW b, Ctx(c, s, a, b, fresh), Starting(c, s, a, b),
           mode \in {"direct", "dh"},
           a = <<[step |-> "reconn_req", key |-> c.hs]>>
    PROVE  SrvReads(c, s, a, b)
  <1> DEFINE m == [step |-> "reconn_req", key |-> c.hs]
             d == dispatch_data(s, m)
  <1>0. /\ fresh \in Nat \ {0} /\ b = <<>> /\ s = NewProto /\ ~c.done /\ ~c.has_data
        /\ ~c.closing /\ b \in Seq(Message) /\ c.hs \in KeysOf(fresh) /\ c.hs # NoKey
        /\ c.hs \in Int
    BY DEF Ctx, Starting, ProtoOK, Proto
  <1>1. Head(a) = m /\ Tail(a) = <<>> /\ m.step # "post"
    <2>1. m.step # "post"  OBVIOUS
    <2>2. a = <<m>>  OBVIOUS
    <2> HIDE DEF m
    <2> QED  BY <2>1, <2>2
  <1>2. accepted(mode) \in Message /\ refused("direct") \in Message /\ send_kickoff \in Message
    BY <1>0, Messages
  <1>3. CASE /\ ProtoOK(d.p, fresh) /\ d.p.closing
             /\ d.out = <<refused("direct"), send_kickoff>>
    <2> DEFINE x == refused("direct")
               y == send_kickoff
               out == <<x, y>>
    <2>1. x.step # "start_rsp" /\ y.step # "start_rsp"  BY DEF refused, send_kickoff
    <2>2. x \in Message /\ y \in Message  BY <1>2
    <2>3. \A i \in 1..Len(b \o out) : \/ (b \o out)[i] = send_kickoff
                                      \/ \E sw \in {"direct", "dh"} : (b \o out)[i] = refused(sw)
      <3> SUFFICES ASSUME NEW i \in 1..Len(b \o out)
                   PROVE  (b \o out)[i] = x \/ (b \o out)[i] = y
        BY Zenon
      <3> HIDE DEF x, y
      <3>1. b \o out = out  BY <1>0, <2>2
      <3>2. Len(out) = 2 /\ out[1] = x /\ out[2] = y  OBVIOUS
      <3> HIDE DEF out
      <3>3. i = 1 \/ i = 2  BY <3>1, <3>2
      <3> QED  BY <3>1, <3>2, <3>3
    <2>4. d.out = out  BY <1>3
    <2> HIDE DEF x, y
    <2>5. NextFresh(out) = fresh
      <3>1. \A z \in Range(out) : z = x \/ z = y  BY DEF Range
      <3> HIDE DEF out
      <3> QED  BY <2>1, <3>1, NothingFresh
    <2>6. out \in Seq(Message)  BY <2>2
    <2> HIDE DEF out, d, m
    <2>7. Refused(c, d.p, Tail(a), b \o out)  BY <1>0, <1>1, <1>3, <2>3 DEF Refused
    <2>8. Phase(c, d.p, Tail(a), b \o out, fresh)  BY <2>7 DEF Phase
    <2> QED  BY <1>0, <1>1, <1>3, <2>4, <2>5, <2>6, <2>8, SrvReadsMessage DEF d
  <1>4. CASE /\ ProtoOK(d.p, fresh) /\ ~d.p.closing /\ d.p.done /\ ~d.p.has_data
             /\ c.hs = Plain /\ d.p.hs = c.hs /\ d.p.rd = c.hs /\ d.p.wr = c.hs
             /\ d.out = <<accepted(mode)>>
    <2> DEFINE x == accepted(mode)
    <2>1. x.step # "start_rsp" /\ x \in Message  BY <1>2 DEF accepted
    <2> HIDE DEF d, m
    <2>2. Split(b \o <<x>>, NoKey, x, Plain)
      <3> HIDE DEF x
      <3>1. Posts(b, NoKey)  BY <1>0, NonePosts
      <3> QED  BY <1>0, <2>1, <3>1, SplitBegun
    <2>3. \E sw \in {"direct", "dh"} : Split(b \o <<x>>, NoKey, accepted(sw), Plain)
      BY <2>2
    <2> HIDE DEF x
    <2>4. Plainly(c, d.p, Tail(a), b \o <<x>>)
      BY <1>0, <1>1, <1>4, <2>3 DEF Plainly
    <2>5. NextFresh(<<x>>) = fresh
      <3>1. \A z \in Range(<<x>>) : z = x  BY DEF Range
      <3> QED  BY <2>1, <3>1, NothingFresh
    <2>6. Phase(c, d.p, Tail(a), b \o <<x>>, fresh)  BY <1>0, <1>4, <2>4, InPhase
    <2>7. <<x>> \in Seq(Message)  BY <2>1
    <2>8. d.out = <<x>>  BY <1>4 DEF x
    <2> QED  BY <1>0, <1>1, <1>4, <2>5, <2>6, <2>7, <2>8, SrvReadsMessage DEF d
  <1>5. ASSUME NEW r, r.done, r.rd = c.hs, r.wr = c.hs, Opens(d.p, r, mode, fresh),
               d.out = <<accepted(mode)>> \o <<start_rsp(TRUE, mode, fresh)>>
        PROVE  SrvReads(c, s, a, b)
    <2> DEFINE x == accepted(mode)
               y == start_rsp(TRUE, mode, fresh)
               out == <<x>> \o <<y>>
    <2>1. x \in Message  BY <1>2
    <2>2. y \in Message /\ y.step = "start_rsp" /\ y.key = fresh
      <3>1. TRUE \in BOOLEAN /\ fresh \in Int  BY <1>0
      <3>2. y \in Message  BY <3>1, Messages, Zenon
      <3> QED  BY <3>2 DEF start_rsp
    <2>3. d.out = out  BY <1>5
    <2> HIDE DEF x, y, d, m
    <2>4. /\ out \in Seq(Message) /\ b \o out = out /\ b \o out # <<>>
          /\ Head(b \o out) = x /\ Tail(b \o out) = <<y>> /\ 2 \in DOMAIN out /\ out[2] = y
      <3>1. /\ out \in Seq(Message) /\ <<>> \o out = out /\ out # <<>>
            /\ Head(out) = x /\ Tail(out) = <<y>> /\ 2 \in DOMAIN out /\ out[2] = y
        BY ONLY <2>1, <2>2, TwoMessages
      <3> HIDE DEF out
      <3>2. b \o out = out  BY <1>0, <3>1
      <3> QED  BY ONLY <3>1, <3>2
    <2> HIDE DEF out
    <2>5. NextFresh(out) = fresh + 1  BY <2>2, <2>4, FreshIsUsed
    <2>6. \A j : Split(<<y>>, NoKey, y, j)
      <3> TAKE j
      <3>1. Posts(<<>>, NoKey) /\ <<>> \in Seq(Message)  BY NonePosts
      <3>2. Split(<<>> \o <<y>>, NoKey, y, j)  BY <2>2, <3>1, SplitBegun
      <3>3. <<>> \o <<y>> = <<y>>  OBVIOUS
      <3> QED  BY <3>2, <3>3
    <2>7. d.p.done /\ d.p.rd = c.hs /\ ~d.p.closing /\ ProtoOK(d.p, fresh + 1)
      BY <1>5 DEF Opens
    <2>8. Resumed(c, d.p, Tail(a), b \o out)
      BY <1>0, <1>1, <2>4, <2>7 DEF Resumed, x
    <2>9. Resumed1(c, d.p, Tail(a), b \o out, fresh)
      <3>1. CASE mode = "direct"
        <4>1. y = start_rsp(TRUE, "direct", fresh)  BY <3>1 DEF y
        <4>2. Serving(d.p, "direct") /\ d.p.hs = fresh /\ d.p.wr = fresh
          BY <1>5, <3>1 DEF Opens
        <4>3. Split(Tail(b \o out), NoKey, start_rsp(TRUE, "direct", fresh), fresh)
          BY <2>4, <2>6, <4>1, Zenon
        <4> QED  BY <2>8, <4>2, <4>3, Zenon DEF Resumed1
      <3>2. CASE mode = "dh"
        <4>1. y = start_rsp(TRUE, "dh", fresh)  BY <3>2 DEF y
        <4>2. Serving(d.p, "dh") /\ d.p.dh = fresh /\ d.p.wr = c.hs
          BY <1>5, <3>2 DEF Opens
        <4>3. Split(Tail(b \o out), NoKey, start_rsp(TRUE, "dh", fresh), c.hs)
          BY <2>4, <2>6, <4>1, Zenon
        <4> QED  BY <2>8, <4>2, <4>3, Zenon DEF Resumed1
      <3> QED  BY <3>1, <3>2
    <2>10. fresh \in 1..((fresh + 1) - 1)  BY <1>0
    <2>11. Phase(c, d.p, Tail(a), b \o out, fresh + 1)
      BY <1>0, <2>7, <2>9, <2>10, InExchange DEF Exchange
    <2> QED  BY <1>0, <1>1, <2>3, <2>4, <2>5, <2>7, <2>11, SrvReadsMessage DEF d
  <1> QED
    <2> DEFINE x == <<accepted(mode)>> \o <<start_rsp(TRUE, mode, fresh)>>
    <2>1. \/ /\ ProtoOK(d.p, fresh) /\ d.p.closing
             /\ d.out = <<refused("direct"), send_kickoff>>
          \/ /\ ProtoOK(d.p, fresh) /\ ~d.p.closing /\ d.p.done /\ ~d.p.has_data
             /\ c.hs = Plain /\ d.p.hs = c.hs /\ d.p.rd = c.hs /\ d.p.wr = c.hs
             /\ d.out = <<accepted(mode)>>
          \/ \E r : /\ r.done /\ r.rd = c.hs /\ r.wr = c.hs
                    /\ Opens(d.p, r, mode, fresh)
                    /\ d.out = x
      BY <1>0, AnswersReconnect, Zenon
    <2> HIDE DEF d
    <2>2. ASSUME NEW r, r.done, r.rd = c.hs, r.wr = c.hs, Opens(d.p, r, mode, fresh),
                 d.out = x
          PROVE  SrvReads(c, s, a, b)
      BY <1>5, <2>2, Zenon
    <2> HIDE DEF x
    <2> QED  BY <1>3, <1>4, <2>1, <2>2, Zenon


(* Whatever the gateway takes from its channel, it reads.                  *)
LEMMA GatewayReads ==
    ASSUME NEW c, NEW s, NEW a, NEW b, fresh \in Nat \ {0}, ProtoOK(c, fresh),
           ProtoOK(s, fresh), mode \in {"direct", "dh"},
           a \in Seq(Message), b \in Seq(Message), a # <<>>, Phase(c, s, a, b, fresh)
    PROVE  SrvReads(c, s, a, b)
  <1>1. ~Refused(c, s, a, b)  BY DEF Refused
  <1>2. CASE ~c.closing /\ ~s.closing /\ Open(c, s, a, b, fresh)
    <2>1. Ctx(c, s, a, b, fresh)  BY <1>2 DEF Ctx
    <2>2. CASE Starting(c, s, a, b)
      <3>1. \/ \E cipher \in BOOLEAN : a = <<[step |-> "start_req", cipher |-> cipher]>>
            \/ a = <<[step |-> "reconn_req", key |-> c.hs]>>
        BY <2>2 DEF Starting
      <3>2. ASSUME NEW cipher \in BOOLEAN,
                   a = <<[step |-> "start_req", cipher |-> cipher]>>
            PROVE  SrvReads(c, s, a, b)
        BY <2>1, <2>2, <3>2, SrvInStart, Zenon
      <3>3. CASE a = <<[step |-> "reconn_req", key |-> c.hs]>>
        BY <2>1, <2>2, <3>3, SrvInReconnect, Zenon
      <3> QED  BY <3>1, <3>2, <3>3, Zenon
    <2>3. CASE Idle(c, s, a, b)  BY <2>1, <2>3, SrvInIdle
    <2>4. ~Plainly(c, s, a, b)  BY DEF Plainly
    <2>5. ASSUME NEW k \in 1..(fresh - 1), Exchange(c, s, a, b, k)
          PROVE  SrvReads(c, s, a, b)
      <3>1. ~Resumed1(c, s, a, b, k)  BY DEF Resumed1, Resumed
      <3> QED
        BY <2>1, <2>5, <3>1, SrvInDirect1, SrvInDirect2, SrvInDh1, SrvInDh2, SrvInDh3,
           SrvInDh4 DEF Exchange
    <2> QED  BY <1>2, <2>2, <2>3, <2>4, <2>5 DEF Open
  <1> QED  BY <1>1, <1>2 DEF Phase

(* The client writes a post.                                               *)
LEMMA ClientPosts ==
    ASSUME NEW c, NEW s, NEW a, NEW b, NEW f \in Nat \ {0}, ProtoOK(c, f), ProtoOK(s, f),
           a \in Seq(Message), b \in Seq(Message), Phase(c, s, a, b, f),
           c.done, ~c.closing
    PROVE  Phase(c, s, Append(a, Post(c.wr)), b, f)
  <1>1. ~Refused(c, s, a, b)  BY DEF Refused
  <1>2. ~s.closing /\ Open(c, s, a, b, f)  BY <1>1 DEF Phase
  <1>3. Ctx(c, s, a, b, f)  BY <1>2 DEF Ctx
  <1>4. /\ Reads(c) = c.rd /\ Writes(c) = c.wr /\ c.wr # NoKey /\ c.wr \in Int
        /\ s.done => Reads(s) = s.rd
    BY <1>3, Keyed
  <1> DEFINE p == Post(c.wr)
             a1 == Append(a, p)
  <1>5. p \in Message /\ IsPost(p, c.wr)  BY <1>4, Messages DEF IsPost
  <1>6. Posts(a, c.wr) => Posts(a1, c.wr)  BY <1>5, PostsAdded
  <1>7. \A o, m : Split(a, o, m, c.wr) => Split(a1, o, m, c.wr)  BY <1>5, SplitAdded
  <1> HIDE DEF a1
  <1>8. ~Starting(c, s, a, b) /\ ~Plainly(c, s, a, b)  BY DEF Starting, Plainly
  <1>9. CASE Idle(c, s, a, b)
    <2>1. Idle(c, s, a1, b)  BY <1>6, <1>9 DEF Idle
    <2> QED  BY <1>2, <2>1, InPhase DEF a1
  <1>10. ASSUME NEW k \in 1..(f - 1), Exchange(c, s, a, b, k)
         PROVE  Phase(c, s, a1, b, f)
    <2>1. ~Resumed1(c, s, a, b, k)  BY DEF Resumed1, Resumed
    <2>2. Direct1(c, s, a, b, k) => Direct1(c, s, a1, b, k)
      BY <1>4, <1>6 DEF Direct1
    <2>3. Direct2(c, s, a, b, k) => Direct2(c, s, a1, b, k)
      BY <1>7 DEF Direct2
    <2>4. Dh1(c, s, a, b, k) => Dh1(c, s, a1, b, k)
      BY <1>4, <1>6 DEF Dh1
    <2>5. Dh2(c, s, a, b, k) => Dh2(c, s, a1, b, k)
      BY <1>4, <1>7 DEF Dh2
    <2>6. Dh3(c, s, a, b, k) => Dh3(c, s, a1, b, k)
      BY <1>4, <1>6 DEF Dh3, Asking
    <2>7. Dh4(c, s, a, b, k) => Dh4(c, s, a1, b, k)
      BY <1>7 DEF Dh4
    <2>8. Exchange(c, s, a1, b, k)
      BY <1>10, <2>1, <2>2, <2>3, <2>4, <2>5, <2>6, <2>7 DEF Exchange
    <2> QED  BY <1>2, <2>8, InExchange
  <1> QED  BY <1>2, <1>8, <1>9, <1>10 DEF Open, a1

(* The gateway writes a post.                                              *)
LEMMA GatewayPosts ==
    ASSUME NEW c, NEW s, NEW a, NEW b, NEW f \in Nat \ {0}, ProtoOK(c, f), ProtoOK(s, f),
           a \in Seq(Message), b \in Seq(Message), Phase(c, s, a, b, f),
           s.done, ~s.closing
    PROVE  Phase(c, s, a, Append(b, Post(s.wr)), f)
  <1>1. ~Refused(c, s, a, b)  BY DEF Refused
  <1>2. ~c.closing /\ Open(c, s, a, b, f)  BY <1>1 DEF Phase
  <1>3. Ctx(c, s, a, b, f)  BY <1>2 DEF Ctx
  <1>4. /\ Reads(s) = s.rd /\ Writes(s) = s.wr /\ s.wr # NoKey /\ s.wr \in Int
        /\ c.done => Reads(c) = c.rd
    BY <1>3, Keyed
  <1> DEFINE p == Post(s.wr)
             b1 == Append(b, p)
  <1>5. p \in Message /\ IsPost(p, s.wr)  BY <1>4, Messages DEF IsPost
  <1>6. Posts(b, s.wr) => Posts(b1, s.wr)  BY <1>5, PostsAdded
  <1>7. \A o, m : Split(b, o, m, s.wr) => Split(b1, o, m, s.wr)  BY <1>5, SplitAdded
  <1>8. b # <<>> => b1 # <<>> /\ Head(b1) = Head(b) /\ Tail(b1) = Append(Tail(b), p)
    BY <1>5
  <1>9. b # <<>> => \A o, m : Split(Tail(b), o, m, s.wr) => Split(Tail(b1), o, m, s.wr)
    <2>1. b # <<>> => Tail(b) \in Seq(Message)  OBVIOUS
    <2> HIDE DEF p
    <2>2. b # <<>> => \A o, m : Split(Tail(b), o, m, s.wr) => Split(Append(Tail(b), p), o, m, s.wr)
      BY <1>5, <2>1, SplitAdded
    <2> QED  BY <1>8, <2>2
  <1> HIDE DEF b1
  <1>10. ~Starting(c, s, a, b)  BY NewObject DEF Starting
  <1>11. CASE Idle(c, s, a, b)
    <2>1. Idle(c, s, a, b1)  BY <1>6, <1>11 DEF Idle
    <2> QED  BY <1>2, <2>1, InPhase DEF b1
  <1>12. CASE Plainly(c, s, a, b)
    <2>1. Plainly(c, s, a, b1)
      <3>1. s.wr = Plain  BY <1>12 DEF Plainly
      <3>2. \A m : Split(b, NoKey, m, Plain) => Split(b1, NoKey, m, Plain)  BY <1>7, <3>1
      <3> QED  BY <1>12, <3>2, Zenon DEF Plainly
    <2> QED  BY <1>2, <2>1, InPhase DEF b1
  <1>13. ASSUME NEW k \in 1..(f - 1), Exchange(c, s, a, b, k)
         PROVE  Phase(c, s, a, b1, f)
    <2>1. Direct1(c, s, a, b, k) => Direct1(c, s, a, b1, k)
      BY <1>7 DEF Direct1
    <2>2. Direct2(c, s, a, b, k) => Direct2(c, s, a, b1, k)
      BY <1>6 DEF Direct2
    <2>3. Dh1(c, s, a, b, k) => Dh1(c, s, a, b1, k)
      BY <1>4, <1>7 DEF Dh1
    <2>4. Dh2(c, s, a, b, k) => Dh2(c, s, a, b1, k)
      BY <1>4, <1>6 DEF Dh2
    <2>5. Dh3(c, s, a, b, k) => Dh3(c, s, a, b1, k)
      BY <1>4, <1>7 DEF Dh3
    <2>6. Dh4(c, s, a, b, k) => Dh4(c, s, a, b1, k)
      BY <1>6 DEF Dh4
    <2>7. Resumed1(c, s, a, b, k) => Resumed1(c, s, a, b1, k)
      <3> HAVE Resumed1(c, s, a, b, k)
      <3>1. Resumed(c, s, a, b1)  BY <1>8 DEF Resumed1, Resumed
      <3>2. b # <<>>  BY DEF Resumed1, Resumed
      <3>3. \A o, m : Split(Tail(b), o, m, s.wr) => Split(Tail(b1), o, m, s.wr)
        BY <1>9, <3>2
      <3> QED  BY <3>1, <3>3, Zenon DEF Resumed1
    <2>8. Exchange(c, s, a, b1, k)
      BY <1>13, <2>1, <2>2, <2>3, <2>4, <2>5, <2>6, <2>7 DEF Exchange
    <2> QED  BY <1>2, <2>8, InExchange
  <1> QED  BY <1>2, <1>10, <1>11, <1>12, <1>13 DEF Open, b1

(* The timer of the gateway's session opens an exchange, or does nothing.  *)
LEMMA GatewayUpdates ==
    ASSUME NEW c, NEW s, NEW a, NEW b, fresh \in Nat \ {0}, ProtoOK(c, fresh),
           ProtoOK(s, fresh), mode \in {"direct", "dh"},
           a \in Seq(Message), b \in Seq(Message), Phase(c, s, a, b, fresh),
           s.done, ~s.closing
    PROVE  LET u == send_key_syn(s)
           IN  /\ ProtoOK(u.p, NextFresh(u.out)) /\ b \o u.out \in Seq(Message)
               /\ Phase(c, u.p, a, b \o u.out, NextFresh(u.out))
               /\ NextFresh(u.out) \in {fresh, fresh + 1}
  <1> DEFINE u == send_key_syn(s)
  <1>1. CASE s.hs = Plain \/ s.has_data
    <2>1. u = Does(s, <<>>)  BY <1>1, NoKeySyn
    <2> HIDE DEF u
    <2>2. u.p = s /\ u.out = <<>>  BY <2>1, TwoParts
    <2>3. b \o <<>> = b  OBVIOUS
    <2>4. NextFresh(<<>>) = fresh
      <3>1. Range(<<>>) = {}  BY DEF Range
      <3> QED  BY <3>1, NothingFresh
    <2> QED  BY <2>2, <2>3, <2>4 DEF u
  <1>2. CASE ~(s.hs = Plain \/ s.has_data)
    <2>1. ~Refused(c, s, a, b)  BY DEF Refused
    <2>2. ~c.closing /\ Open(c, s, a, b, fresh)  BY <2>1 DEF Phase
    <2>3. Idle(c, s, a, b)
      <3>1. ~Starting(c, s, a, b)  BY NewObject DEF Starting
      <3>2. ~Plainly(c, s, a, b)  BY <1>2 DEF Plainly
      <3>3. \A k : ~Exchange(c, s, a, b, k)
        BY <1>2 DEF Exchange, Direct1, Direct2, Dh1, Dh2, Dh3, Dh4, Resumed1, Serving
      <3> QED  BY <2>2, <3>1, <3>2, <3>3 DEF Open
    <2> DEFINE x == start_rsp(TRUE, mode, fresh)
    <2>4. u.out = <<x>> /\ Opens(u.p, s, mode, fresh)  BY <1>2, KeySyn
    <2> HIDE DEF u
    <2>5. x \in Message /\ x.step = "start_rsp" /\ x.key = fresh
      <3>1. TRUE \in BOOLEAN /\ fresh \in Int  OBVIOUS
      <3>2. x \in Message  BY <3>1, Messages, Zenon
      <3> QED  BY <3>2 DEF start_rsp
    <2>6. Exchange(c, u.p, a, b \o <<x>>, fresh)
      <3>1. /\ Reads(c) = Reads(s) /\ Writes(c) = Reads(s) /\ Writes(s) = Reads(s)
            /\ ~c.has_data /\ (c.done <=> s.done) /\ Posts(a, Reads(s)) /\ Posts(b, Reads(s))
        BY <2>3 DEF Idle, Reads, Writes
      <3>2. TRUE \in BOOLEAN /\ (c.done => TRUE)  OBVIOUS
      <3> QED  BY <2>4, <2>5, <3>1, <3>2, ExchangeOpened, Zenon
    <2> HIDE DEF x
    <2>7. NextFresh(<<x>>) = fresh + 1
      <3>1. 1 \in DOMAIN <<x>> /\ <<x>>[1] = x  OBVIOUS
      <3> QED  BY <2>5, <3>1, FreshIsUsed
    <2>8. fresh \in 1..((fresh + 1) - 1) /\ ~u.p.closing /\ ProtoOK(u.p, fresh + 1)
      BY <2>4 DEF Opens
    <2>9. Phase(c, u.p, a, b \o <<x>>, fresh + 1)  BY <2>2, <2>6, <2>8, InExchange
    <2>10. b \o <<x>> \in Seq(Message)  BY <2>5
    <2> QED  BY <2>4, <2>7, <2>8, <2>9, <2>10 DEF u
  <1> QED  BY <1>1, <1>2


-----------------------------------------------------------------------------
(* The theorems *)

(* The modes left when encryption is never turned off.                     *)
LEMMA ModeIsEncrypting ==
    ASSUME "none" \notin Modes, mode \in Modes
    PROVE  mode \in {"direct", "dh"}
  BY ModesAssumption

(* The number of the next secret does not go back.                         *)
LEMMA FreshGrows ==
    ASSUME NEW out, fresh \in Nat \ {0}
    PROVE  /\ NextFresh(out) \in Nat \ {0}
           /\ \A p : ProtoOK(p, fresh) => ProtoOK(p, NextFresh(out))
  BY ProtoStays DEF NextFresh

(* The invariant holds initially.                                          *)
LEMMA InitInv ==
    ASSUME Init
    PROVE  IndInv
  <1>1. ProtoOK(NewProto, 1)
    <2>1. 1 \in Nat \ {0}  OBVIOUS
    <2> QED  BY <2>1, NewObjectOK
  <1>2. /\ fresh \in Nat \ {0} /\ mode \in Modes /\ conn \in BOOLEAN /\ ~conn
        /\ toSrv = <<>> /\ toCli = <<>> /\ toSrv \in Seq(Message) /\ toCli \in Seq(Message)
    <2>1. <<>> \in Seq(Message)  OBVIOUS
    <2>2. toSrv = <<>> /\ toCli = <<>> /\ fresh = 1 /\ conn = FALSE /\ mode \in Modes
      BY DEF Init
    <2>3. fresh \in Nat \ {0}  BY ONLY <2>2
    <2>4. conn \in BOOLEAN /\ ~conn  BY ONLY <2>2, Zenon
    <2> QED  BY ONLY <2>1, <2>2, <2>3, <2>4, Zenon
  <1>3. ProtoOK(cli, fresh) /\ ProtoOK(srv, fresh) /\ ProtoOK(kept, fresh)
    BY <1>1 DEF Init
  <1>4. seen \in [misread : BOOLEAN, refused : BOOLEAN] /\ ~seen.misread  BY DEF Init
  <1> QED  BY <1>2, <1>3, <1>4 DEF IndInv

(* The client reads a message.                                             *)
LEMMA CliDispatchKeeps ==
    ASSUME IndInv, CliDispatch
    PROVE  IndInv'
  <1> DEFINE m == Head(toCli)
             d == dispatch_data(cli, m)
  <1>1. CliReads(cli, srv, toSrv, toCli, fresh)
    BY ClientReads DEF IndInv, CliDispatch
  <1>2. /\ ~Misread(cli, m) /\ ProtoOK(d.p, fresh) /\ toSrv \o d.out \in Seq(Message)
        /\ Phase(d.p, srv, toSrv \o d.out, Tail(toCli), fresh)
    BY <1>1 DEF CliReads
  <1>3. /\ conn /\ conn' = conn /\ mode' = mode /\ srv' = srv /\ kept' = kept /\ fresh' = fresh
        /\ cli' = d.p /\ toSrv' = toSrv \o d.out /\ toCli' = Tail(toCli)
        /\ seen' = [seen EXCEPT !.misread = @ \/ Misread(cli, m)]
    BY DEF CliDispatch
  <1>4. Tail(toCli) \in Seq(Message)  BY DEF IndInv, CliDispatch
  <1> HIDE DEF d, m
  <1>5. seen' \in [misread : BOOLEAN, refused : BOOLEAN] /\ ~seen'.misread
    BY <1>2, <1>3 DEF IndInv
  <1> QED  BY <1>2, <1>3, <1>4, <1>5 DEF IndInv

(* The gateway reads a message.                                            *)
LEMMA SrvDispatchKeeps ==
    ASSUME IndInv, SrvDispatch, "none" \notin Modes
    PROVE  IndInv'
  <1> DEFINE m == Head(toSrv)
             d == dispatch_data(srv, m)
             f == NextFresh(d.out)
             r == m.step = "reconn_req" /\ d.p.closing /\ kept.done
  <1>0. mode \in {"direct", "dh"} /\ fresh \in Nat \ {0}  BY ModeIsEncrypting DEF IndInv
  <1>1. SrvReads(cli, srv, toSrv, toCli)
    BY <1>0, GatewayReads DEF IndInv, SrvDispatch
  <1>2. /\ ~Misread(srv, m) /\ ProtoOK(d.p, f) /\ toCli \o d.out \in Seq(Message)
        /\ Phase(cli, d.p, Tail(toSrv), toCli \o d.out, f)
    BY <1>1 DEF SrvReads
  <1>3. /\ conn /\ conn' = conn /\ mode' = mode /\ cli' = cli /\ kept' = kept /\ fresh' = f
        /\ srv' = d.p /\ toCli' = toCli \o d.out /\ toSrv' = Tail(toSrv)
        /\ seen' = [seen EXCEPT !.misread = @ \/ Misread(srv, m), !.refused = @ \/ r]
    BY DEF SrvDispatch, UsedUp, NextFresh
  <1>4. Tail(toSrv) \in Seq(Message)  BY DEF IndInv, SrvDispatch
  <1>5. f \in Nat \ {0} /\ ProtoOK(cli, f) /\ ProtoOK(kept, f)
    BY <1>0, FreshGrows DEF IndInv
  <1> HIDE DEF d, m, f, r
  <1>6. seen' \in [misread : BOOLEAN, refused : BOOLEAN] /\ ~seen'.misread
    BY <1>2, <1>3 DEF IndInv
  <1> QED  BY <1>2, <1>3, <1>4, <1>5, <1>6 DEF IndInv

(* The posts of both sides.                                                *)
LEMMA PostKeeps ==
    ASSUME IndInv, CliPost \/ SrvPost
    PROVE  IndInv'
  <1>1. CASE CliPost
    <2> DEFINE a == Append(toSrv, Post(cli.wr))
    <2>1. /\ conn /\ conn' = conn /\ mode' = mode /\ cli' = cli /\ srv' = srv /\ kept' = kept
          /\ fresh' = fresh /\ seen' = seen /\ toCli' = toCli /\ toSrv' = a
          /\ cli.done /\ ~cli.closing
      BY <1>1 DEF CliPost, Post
    <2>2. Phase(cli, srv, a, toCli, fresh)  BY <2>1, ClientPosts DEF IndInv
    <2>3. cli.wr \in Int  BY DEF IndInv, ProtoOK, Proto
    <2>4. Post(cli.wr) \in Message  BY <2>3 DEF Post, Message
    <2>5. a \in Seq(Message)  BY <2>4 DEF IndInv
    <2> HIDE DEF a
    <2> QED  BY <2>1, <2>2, <2>5 DEF IndInv
  <1>2. CASE SrvPost
    <2> DEFINE b == Append(toCli, Post(srv.wr))
    <2>1. /\ conn /\ conn' = conn /\ mode' = mode /\ cli' = cli /\ srv' = srv /\ kept' = kept
          /\ fresh' = fresh /\ seen' = seen /\ toSrv' = toSrv /\ toCli' = b
          /\ srv.done /\ ~srv.closing
      BY <1>2 DEF SrvPost, Post
    <2>2. Phase(cli, srv, toSrv, b, fresh)  BY <2>1, GatewayPosts DEF IndInv
    <2>3. srv.wr \in Int  BY DEF IndInv, ProtoOK, Proto
    <2>4. Post(srv.wr) \in Message  BY <2>3 DEF Post, Message
    <2>5. b \in Seq(Message)  BY <2>4 DEF IndInv
    <2> HIDE DEF b
    <2> QED  BY <2>1, <2>2, <2>5 DEF IndInv
  <1> QED  BY <1>1, <1>2

(* A new connection, for a new session or for a reconnect.                 *)
LEMMA ConnectKeeps ==
    ASSUME IndInv, start_session \/ reconnect_session
    PROVE  IndInv'
  <1>0. fresh \in Nat \ {0} /\ ProtoOK(NewProto, fresh)  BY NewObjectOK DEF IndInv
  <1>1. /\ conn' = TRUE /\ mode' = mode /\ fresh' = fresh /\ seen' = seen
        /\ srv' = NewProto /\ toCli' = <<>> /\ toCli' \in Seq(Message)
    BY DEF start_session, reconnect_session, IndInv
  <1>2. CASE start_session
    <2>1. cli' = NewProto /\ kept' = NewProto  BY <1>2 DEF start_session
    <2>2. PICK cipher \in BOOLEAN : toSrv' = <<[step |-> "start_req", cipher |-> cipher]>>
      BY <1>2 DEF start_session
    <2>3. [step |-> "start_req", cipher |-> cipher] \in Message  BY DEF Message
    <2>4. toSrv' \in Seq(Message)  BY <2>2, <2>3
    <2>5. Starting(cli', srv', toSrv', toCli')
      BY <1>1, <2>1, <2>2, NewObject DEF Starting
    <2>6. Phase(cli', srv', toSrv', toCli', fresh')
      BY <1>1, <2>1, <2>5, NewObject, InPhase
    <2> QED  BY <1>0, <1>1, <2>1, <2>4, <2>6 DEF IndInv
  <1>3. CASE reconnect_session
    <2> DEFINE c == [NewProto EXCEPT !.hs = cli.hs]
    <2>1. /\ cli' = c /\ kept' = srv
          /\ toSrv' = <<[step |-> "reconn_req", key |-> cli.hs]>>
      BY <1>3 DEF reconnect_session
    <2>2. cli.hs \in Int /\ cli.hs \in KeysOf(fresh) /\ cli.hs # NoKey
      BY DEF IndInv, ProtoOK, Proto
    <2>3. /\ c \in Proto /\ c.hs = cli.hs /\ c.rd = NewProto.rd /\ c.wr = NewProto.wr
          /\ c.dh = NewProto.dh /\ c.done = NewProto.done /\ c.has_data = NewProto.has_data
          /\ c.closing = NewProto.closing
      BY <2>2, NewObject, SetSecret
    <2> HIDE DEF c
    <2>4. ProtoOK(c, fresh) /\ ~c.done /\ ~c.has_data /\ ~c.closing
      BY <1>0, <2>2, <2>3, NewObject DEF ProtoOK
    <2>5. [step |-> "reconn_req", key |-> cli.hs] \in Message  BY <2>2 DEF Message
    <2>6. toSrv' \in Seq(Message)  BY <2>1, <2>5
    <2>7. Starting(cli', srv', toSrv', toCli')
      BY <1>1, <2>1, <2>3, <2>4 DEF Starting
    <2>8. Phase(cli', srv', toSrv', toCli', fresh')
      BY <1>1, <2>1, <2>4, <2>7, NewObject, InPhase
    <2> QED  BY <1>0, <1>1, <2>1, <2>4, <2>6, <2>8 DEF IndInv
  <1> QED  BY <1>2, <1>3

(* A key update, a reload and the loss of the connection.                  *)
LEMMA SurroundingsKeep ==
    ASSUME IndInv, handshake_update \/ global_reload \/ Drop, "none" \notin Modes
    PROVE  IndInv'
  <1>0. mode \in {"direct", "dh"} /\ fresh \in Nat \ {0}  BY ModeIsEncrypting DEF IndInv
  <1>1. CASE handshake_update
    <2> DEFINE u == send_key_syn(srv)
               f == NextFresh(u.out)
    <2>1. /\ conn /\ conn' = conn /\ mode' = mode /\ cli' = cli /\ kept' = kept
          /\ seen' = seen /\ toSrv' = toSrv /\ srv.done /\ ~srv.closing
          /\ srv' = u.p /\ toCli' = toCli \o u.out /\ fresh' = f
      BY <1>1 DEF handshake_update, UsedUp, NextFresh
    <2>2. /\ ProtoOK(u.p, f) /\ toCli \o u.out \in Seq(Message)
          /\ Phase(cli, u.p, toSrv, toCli \o u.out, f)
      BY <1>0, <2>1, GatewayUpdates DEF IndInv
    <2>3. f \in Nat \ {0} /\ ProtoOK(cli, f) /\ ProtoOK(kept, f)
      BY <1>0, FreshGrows DEF IndInv
    <2> HIDE DEF u, f
    <2> QED  BY <2>1, <2>2, <2>3 DEF IndInv
  <1>2. CASE global_reload
    BY <1>2 DEF global_reload, IndInv
  <1>3. CASE Drop
    <2>1. ProtoOK(NewProto, fresh)  BY <1>0, NewObjectOK
    <2>2. /\ ~conn' /\ conn' \in BOOLEAN /\ mode' = mode /\ fresh' = fresh /\ kept' = kept
          /\ seen' = seen /\ toSrv' = <<>> /\ toCli' = <<>>
          /\ toSrv' \in Seq(Message) /\ toCli' \in Seq(Message)
      <3>1. <<>> \in Seq(Message)  OBVIOUS
      <3>2. /\ conn' = FALSE /\ mode' = mode /\ fresh' = fresh /\ kept' = kept
            /\ seen' = seen /\ toSrv' = <<>> /\ toCli' = <<>>
        BY <1>3 DEF Drop
      <3> QED  BY <3>1, <3>2
    <2>3. ProtoOK(cli', fresh) /\ ProtoOK(srv', fresh)
      BY <1>3, <2>1 DEF Drop, IndInv
    <2> QED  BY <2>2, <2>3 DEF IndInv
  <1> QED  BY <1>1, <1>2, <1>3

(* Every step of the handshake keeps the invariant, if no reload turns     *)
(* encryption off (libatgw_proto_inner_v1::setup_handshake returns early   *)
(* then and leaves the exchange unmarked).                                 *)
THEOREM Invariance ==
    ASSUME "none" \notin Modes
    PROVE  Spec => []IndInv
  <1>1. Init => IndInv  BY InitInv
  <1>2. IndInv /\ [Next]_vars => IndInv'
    <2> SUFFICES ASSUME IndInv, [Next]_vars  PROVE IndInv'  OBVIOUS
    <2>1. CASE Next
      BY <2>1, CliDispatchKeeps, SrvDispatchKeeps, PostKeeps, ConnectKeeps,
         SurroundingsKeep DEF Next
    <2>2. CASE UNCHANGED vars
      BY <2>2 DEF vars, IndInv
    <2> QED  BY <2>1, <2>2
  <1> QED  BY <1>1, <1>2, PTL DEF Spec

(* The objects of both sides have their type: keys are keys that were      *)
(* exchanged, and an object that is done has both keys.                    *)
THEOREM TypeCorrect ==
    ASSUME "none" \notin Modes
    PROVE  Spec => []TypeOK
  <1>1. IndInv => TypeOK
    <2> SUFFICES ASSUME IndInv  PROVE TypeOK  OBVIOUS
    <2>1. Keys = KeysOf(fresh)  BY DEF Keys, KeysOf
    <2>2. ASSUME NEW p, ProtoOK(p, fresh)
          PROVE  /\ {p.hs, p.rd, p.wr, p.dh} \subseteq Keys
                 /\ p.done /\ ~p.closing => p.rd # NoKey /\ p.wr # NoKey
                 /\ p.has_data => p.update
      BY <2>1, <2>2 DEF ProtoOK
    <2> QED  BY <2>2 DEF IndInv, TypeOK
  <1> QED  BY <1>1, Invariance, PTL

(* No post is refused or garbled by an exchange of keys, however many      *)
(* posts, updates, reloads and reconnects there are.                       *)
THEOREM EveryPostIsRead ==
    ASSUME "none" \notin Modes
    PROVE  Spec => []PostsRead
  <1>1. IndInv => PostsRead  BY DEF IndInv, PostsRead
  <1> QED  BY <1>1, Invariance, PTL

(* When no handshake message is on its way, the two sides agree.           *)
THEOREM SidesAgree ==
    ASSUME "none" \notin Modes
    PROVE  Spec => []Agreement
  <1>1. IndInv => Agreement
    <2> SUFFICES ASSUME IndInv, conn, ~cli.closing, ~srv.closing,
                        \A m \in Range(toSrv) \cup Range(toCli) : m.step = "post"
                 PROVE  cli.rd = srv.wr /\ srv.rd = cli.wr
      BY DEF Agreement
    <2>0. toSrv \in Seq(Message) /\ toCli \in Seq(Message)  BY DEF IndInv
    <2>1. Open(cli, srv, toSrv, toCli, fresh)  BY DEF IndInv, Phase, Refused
    <2>2. \A o, m, k : m.step # "post" => /\ ~Split(toSrv, o, m, k)
                                          /\ ~Split(toCli, o, m, k)
      BY <2>0, SplitHolds
    <2>3. ~Starting(cli, srv, toSrv, toCli)
      <3>1. ASSUME NEW x, x.step # "post", toSrv = <<x>>  PROVE FALSE
        BY <3>1 DEF Range
      <3>2. \A y : [step |-> "start_req", cipher |-> y].step # "post"  OBVIOUS
      <3>3. \A y : [step |-> "reconn_req", key |-> y].step # "post"  OBVIOUS
      <3> QED  BY <3>1, <3>2, <3>3, Zenon DEF Starting
    <2>4. ~Plainly(cli, srv, toSrv, toCli)
      <3>1. start_rsp(FALSE, "direct", Plain).step # "post"  BY DEF start_rsp
      <3>2. \A sw : accepted(sw).step # "post"  BY DEF accepted
      <3> QED  BY <2>2, <3>1, <3>2, Zenon DEF Plainly
    <2>5. ASSUME NEW k, Exchange(cli, srv, toSrv, toCli, k)  PROVE FALSE
      <3>1. \A y, sw : start_rsp(y, sw, k).step # "post"  BY DEF start_rsp
      <3>2. \A sw : send_verify(sw, k).step # "post"  BY DEF send_verify
      <3>3. pubkey_req(k).step # "post" /\ pubkey_rsp(k).step # "post"
        BY DEF pubkey_req, pubkey_rsp
      <3>4. ~Resumed(cli, srv, toSrv, toCli)
        <4> SUFFICES ASSUME Resumed(cli, srv, toSrv, toCli)  PROVE FALSE  OBVIOUS
        <4>1. Head(toCli).step # "post"  BY DEF Resumed, accepted
        <4>2. Head(toCli) \in Range(toCli)  BY <2>0 DEF Resumed, Range
        <4> QED  BY <4>1, <4>2
      <3>5. ~Direct1(cli, srv, toSrv, toCli, k) /\ ~Dh1(cli, srv, toSrv, toCli, k)
        BY <2>2, <3>1, Zenon DEF Direct1, Dh1
      <3>6. ~Direct2(cli, srv, toSrv, toCli, k) /\ ~Dh4(cli, srv, toSrv, toCli, k)
        BY <2>2, <3>2, Zenon DEF Direct2, Dh4
      <3>7. ~Dh2(cli, srv, toSrv, toCli, k) /\ ~Dh3(cli, srv, toSrv, toCli, k)
        BY <2>2, <3>3, Zenon DEF Dh2, Dh3
      <3> QED  BY <2>5, <3>4, <3>5, <3>6, <3>7 DEF Exchange, Resumed1
    <2> QED  BY <2>1, <2>3, <2>4, <2>5 DEF Open, Idle
  <1> QED  BY <1>1, Invariance, PTL


=============================================================================
