---------------------------- MODULE InnerStream ----------------------------
(***************************************************************************)
(* libatgw_proto_inner_v1 below its handshake: the write buffers and the   *)
(* merging of small blocks, one write in flight at a time, the small head  *)
(* buffer and the block of a large message on the reading side, and        *)
(* closing with a kickoff.  Two protocol objects, the client's and the     *)
(* gateway's, are joined by a byte stream that may break.                  *)
(*                                                                         *)
(* A byte is a pair <<message, position>>: positions 1 and 2 are the hash  *)
(* and the length field, the rest the payload.  The hash check compares    *)
(* what was cut out of the stream with what the sender framed.             *)
(***************************************************************************)
EXTENDS Integers, Sequences, SequencesExt, FiniteSetsExt

CONSTANTS Ends,       \* the client's and the gateway's protocol object
          Lens,       \* the lengths of a post
          CtlLen,     \* the length of a ping, a pong and a kickoff
          Small,      \* ATFRAME_GATEWAY_MACRO_DATA_SMALL_SIZE: the head buffer
          MergeLen,   \* the length of the merge buffer
          SendLimit,  \* set_send_buffer_limit
          RecvLimit,  \* set_recv_buffer_limit
          MayBreak,   \* the connection may break
          MaxSend     \* bound: MaxSend[e] posts and pings e sends by itself

ASSUME SizeAssumption == /\ \A l \in Lens \cup {CtlLen} : l \in Nat \ {0}
                         /\ Small \in Nat /\ Small > 3
                         /\ MergeLen \in Nat /\ MergeLen >= Small
                         /\ SendLimit \in Nat
                         /\ RecvLimit \in Nat
                         /\ MayBreak \in BOOLEAN

(* A connection has two ends.                                              *)
ASSUME EndsAssumption == \E a, b \in Ends : a # b /\ Ends = {a, b}

VARIABLES proto,  \* proto[e]: the protocol object of e
          wire,   \* wire[e]: the bytes e has written and its peer not yet read
          up      \* the connection is not broken

vars == <<proto, wire, up>>

Peer(e) == CHOOSE p \in Ends : p # e

HeaderLen == 2

Bytes(m) == [i \in 1..(HeaderLen + m.len) |-> <<m, i>>]

NoBlock == [need |-> 0, data |-> <<>>]

NewProto == [out |-> <<>>,         \* write_buffers_: a sequence of blocks
             writing |-> FALSE,    \* EN_PFT_WRITING: out[1] is being written
             handed |-> FALSE,     \* the kernel has taken out[1]
             closing |-> FALSE,    \* EN_PFT_CLOSING
             closed |-> FALSE,     \* EN_PFT_CLOSED: close_fn has been called
             head |-> <<>>,        \* read_head_
             block |-> NoBlock,    \* read_buffers_: a message being received
             sent |-> <<>>,        \* the messages write_msg accepted
             got |-> <<>>]         \* the messages dispatched

Init == /\ proto = [e \in Ends |-> NewProto]
        /\ wire = [e \in Ends |-> <<>>]
        /\ up = TRUE

-----------------------------------------------------------------------------
(* Writing *)

(* A slip: the blocks that were merged are not all popped.                 *)
Merged_Kept(out) ==
    IF Len(out) > 1 /\ Len(out[1]) <= Small
    THEN <<FlattenSeq(SubSeq(out, 1, 2))>> \o Tail(out)
    ELSE out

Merged(out) ==
    IF Len(out) > 1 /\ Len(out[1]) <= Small
    THEN LET fits == {n \in 1..Len(out) :
                         Len(FlattenSeq(SubSeq(out, 1, n))) <= MergeLen}
             n == Max(fits)
         IN  <<FlattenSeq(SubSeq(out, 1, n))>> \o SubSeq(out, n + 1, Len(out))
    ELSE out

(* A slip: an end that closes still writes its kickoff, before what waits. *)
try_write_Kickoff(p) ==
    IF p.writing \/ p.out = <<>> THEN p
    ELSE IF p.closing /\ Last(p.out)[1][1].kind # "kickoff" THEN [p EXCEPT !.out = <<>>]
    ELSE [p EXCEPT !.out = IF p.closing THEN <<Last(@)>> ELSE Merged(@),
                   !.writing = TRUE, !.handed = FALSE]

try_write(p) ==
    IF p.writing \/ p.out = <<>> THEN p
    ELSE IF p.closing THEN [p EXCEPT !.out = <<>>]
    ELSE [p EXCEPT !.out = Merged(@), !.writing = TRUE, !.handed = FALSE]

Message(p, kind, len) == [kind |-> kind, len |-> len, seq |-> Len(p.sent) + 1]

write_msg(p, m) ==
    IF Len(FlattenSeq(p.out)) + HeaderLen + m.len > SendLimit THEN p
    ELSE try_write([p EXCEPT !.out = Append(@, Bytes(m)),
                             !.sent = Append(@, m)])

(* A slip: what waits is left for the next write_msg.                      *)
write_done_Idle(p) ==
    LET q == [p EXCEPT !.out = Tail(@), !.writing = FALSE]
    IN  [q EXCEPT !.closed = @ \/ q.closing]

(* A slip: only close() calls close_fn.                                    *)
write_done_Open(p) == try_write([p EXCEPT !.out = Tail(@), !.writing = FALSE])

write_done(p) ==
    LET q == try_write([p EXCEPT !.out = Tail(@), !.writing = FALSE])
    IN  [q EXCEPT !.closed = @ \/ (q.closing /\ ~q.writing)]

close(p, kickoff) ==
    IF p.closing THEN p
    ELSE LET q == IF kickoff THEN write_msg(p, Message(p, "kickoff", CtlLen)) ELSE p
         IN  [q EXCEPT !.closing = TRUE, !.closed = ~q.writing]

-----------------------------------------------------------------------------
(* Reading *)

dispatch_data(p, m) ==
    IF p.closing THEN p
    ELSE LET q == [p EXCEPT !.got = Append(@, m)]
         IN  CASE m.kind = "ping"    -> write_msg(q, Message(q, "pong", CtlLen))
               [] m.kind = "kickoff" -> close(q, FALSE)
               [] OTHER              -> q

HashOk(frame) == frame = Bytes(frame[1][1])

(* A bad hash is remembered until the end of the call of read().           *)
DispatchFrame(r, frame) ==
    LET bad == r.bad \/ ~HashOk(frame)
    IN  [p |-> IF bad THEN r.p ELSE dispatch_data(r.p, frame[1][1]), bad |-> bad]

LengthAt(s, i) == s[i + HeaderLen][1].len

(* The messages that are complete in s, and where the rest begins.         *)
Scan(s) ==
    LET scan[i \in 0..Len(s)] ==
            IF /\ Len(s) - i > HeaderLen
               /\ Len(s) - i >= HeaderLen + LengthAt(s, i)
            THEN LET j == i + HeaderLen + LengthAt(s, i)
                 IN  [scan[j] EXCEPT !.frames = <<SubSeq(s, i + 1, j)>> \o @]
            ELSE [rest |-> SubSeq(s, i + 1, Len(s)), frames |-> <<>>]
    IN  scan[0]

(* A slip: a message that is not complete waits in the head buffer.        *)
Settle_Wait(r, rest) == [r EXCEPT !.p.head = rest]

(* What the head buffer holds after the messages complete in it are gone:  *)
(* less than a header, or the beginning of a message that gets a block.    *)
Settle(r, rest) ==
    IF Len(rest) <= HeaderLen
    THEN [r EXCEPT !.p.head = rest]
    ELSE LET need == HeaderLen + LengthAt(rest, 0)
         IN  IF need <= RecvLimit
             THEN [r EXCEPT !.p.head = <<>>,
                            !.p.block = [need |-> need, data |-> rest]]
             ELSE [r EXCEPT !.p.head = SubSeq(rest, HeaderLen + 1, Len(rest)),
                            !.bad = TRUE]

ReadHead(p, bytes) ==
    LET s == Scan(p.head \o bytes)
    IN  Settle(FoldLeft(DispatchFrame, [p |-> p, bad |-> FALSE], s.frames), s.rest)

ReadBlock(p, bytes) ==
    LET data == p.block.data \o bytes
    IN  IF Len(data) < p.block.need
        THEN [p |-> [p EXCEPT !.block.data = data], bad |-> FALSE]
        ELSE LET r == DispatchFrame([p |-> p, bad |-> FALSE], data)
             IN  [r EXCEPT !.p.block = NoBlock]

(* alloc_recv_buffer: the rest of the block, or of the head buffer.        *)
Room(p) == IF p.block = NoBlock THEN Small - Len(p.head)
           ELSE p.block.need - Len(p.block.data)

read(p, bytes) ==
    IF p.block = NoBlock THEN ReadHead(p, bytes) ELSE ReadBlock(p, bytes)

-----------------------------------------------------------------------------
(* The steps of an end *)

Become(e, p) == proto' = [proto EXCEPT ![e] = p]

Own(p) == Len(SelectSeq(p.sent, LAMBDA m : m.kind \in {"post", "ping"}))

Post(e, len) ==
    /\ ~proto[e].closing /\ Own(proto[e]) < MaxSend[e]
    /\ Become(e, write_msg(proto[e], Message(proto[e], "post", len)))
    /\ UNCHANGED <<wire, up>>

Ping(e) ==
    /\ ~proto[e].closing /\ Own(proto[e]) < MaxSend[e]
    /\ Become(e, write_msg(proto[e], Message(proto[e], "ping", CtlLen)))
    /\ UNCHANGED <<wire, up>>

Close(e) ==
    /\ ~proto[e].closing
    /\ Become(e, close(proto[e], TRUE))
    /\ UNCHANGED <<wire, up>>

(* The kernel takes the block being written.                               *)
Transmit(e) ==
    /\ up /\ proto[e].writing /\ ~proto[e].handed
    /\ Become(e, [proto[e] EXCEPT !.handed = TRUE])
    /\ wire' = [wire EXCEPT ![e] =
                   IF proto[Peer(e)].closed THEN <<>> ELSE @ \o proto[e].out[1]]
    /\ UNCHANGED up

(* The callback of a write: it is done, or the connection is gone.         *)
WriteDone(e) ==
    /\ proto[e].writing
    /\ proto[e].handed \/ ~up
    /\ Become(e, write_done(proto[e]))
    /\ UNCHANGED <<wire, up>>

(* The callback of a read, whole: the buffer is chosen, some bytes arrive  *)
(* in it, and session::on_read closes the session when read() complains.   *)
Read(e) ==
    LET in == wire[Peer(e)]
    IN  /\ ~proto[e].closing
        /\ \E n \in 1..Min({Room(proto[e]), Len(in)}) :
              LET r == read(proto[e], SubSeq(in, 1, n))
              IN  /\ Become(e, IF r.bad THEN close(r.p, TRUE) ELSE r.p)
                  /\ wire' = [wire EXCEPT ![Peer(e)] = SubSeq(@, n + 1, Len(@))]
        /\ UNCHANGED up

(* The callback of a read that fails: end of file, or the connection broke. *)
ReadError(e) ==
    /\ ~proto[e].closing
    /\ ~up \/ (proto[Peer(e)].closed /\ wire[Peer(e)] = <<>>)
    /\ Become(e, close(proto[e], TRUE))
    /\ UNCHANGED <<wire, up>>

Break ==
    /\ MayBreak /\ up
    /\ up' = FALSE
    /\ wire' = [e \in Ends |-> <<>>]
    /\ UNCHANGED proto

Next == \/ \E e \in Ends : \/ \E len \in Lens : Post(e, len)
                           \/ Ping(e)
                           \/ Close(e)
                           \/ Transmit(e)
                           \/ WriteDone(e)
                           \/ Read(e)
                           \/ ReadError(e)
        \/ Break

Spec == Init /\ [][Next]_vars

(* The event loop runs the callbacks that are due.                         *)
FairSpec == /\ Spec
            /\ \A e \in Ends : /\ WF_vars(Transmit(e))
                               /\ WF_vars(WriteDone(e))
                               /\ WF_vars(Read(e))
                               /\ WF_vars(ReadError(e))

-----------------------------------------------------------------------------
(* Properties *)

(* Type correctness: the kinds of values the buffers hold, within their    *)
(* limits; the assertion in alloc_recv_buffer that the head buffer is      *)
(* never full, and a block in read_buffers_ is never complete.             *)
TypeOK ==
    /\ up \in BOOLEAN
    /\ \A e \in Ends :
          /\ proto[e].writing => proto[e].out # <<>>
          /\ proto[e].closed => proto[e].closing
          /\ Len(FlattenSeq(proto[e].out)) <= SendLimit
          /\ ~proto[e].closing => Room(proto[e]) > 0

(* An end that is not writing has nothing left to write, whatever order    *)
(* the calls of write_msg, write_done and close came in: a block that      *)
(* waits always has a callback to come that will look at it again.         *)
NothingStranded ==
    \A e \in Ends : proto[e].out # <<>> => proto[e].writing

(* The bytes on their way, from the block being received to the last block *)
(* queued, are the frames of the messages not yet dispatched, in order, as *)
(* long as both ends are open: merging, cutting and the switch between the *)
(* head buffer and a block neither lose nor reorder a byte.                *)
BytesInOrder ==
    \A e \in Ends :
        LET p == proto[e]
            r == proto[Peer(e)]
            queued == IF p.writing /\ p.handed THEN Tail(p.out) ELSE p.out
            left == SubSeq(p.sent, Len(r.got) + 1, Len(p.sent))
        IN  up /\ ~p.closing /\ ~r.closing =>
               r.head \o r.block.data \o wire[e] \o FlattenSeq(queued)
                   = FlattenSeq([i \in 1..Len(left) |-> Bytes(left[i])])

(* close() always ends in close_fn: an end that has begun to close calls   *)
(* it, and so does, in the end, the other end.                             *)
CloseEnds ==
    \A e \in Ends : proto[e].closing ~> (proto[e].closed /\ proto[Peer(e)].closed)

(* The two ends with their buffers implement the FIFO of whole messages    *)
(* that the handshake and the posts rely on.                               *)
Stream == INSTANCE MessageStream WITH
              sent <- [e \in Ends |-> proto[e].sent],
              got <- [e \in Ends |-> proto[e].got],
              open <- [e \in Ends |-> ~proto[e].closing]

Refines == Stream!Spec

=============================================================================
