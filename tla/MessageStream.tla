--------------------------- MODULE MessageStream ---------------------------
(***************************************************************************)
(* What the framing and buffering of inner_v1 promise to the layers that   *)
(* use them (the handshake, post_msg, the gateway session): until one end  *)
(* closes or the connection breaks, each direction is a reliable FIFO of   *)
(* whole messages.  After that, what an end has dispatched stays a prefix  *)
(* of what the other end accepted, and the rest is lost.                   *)
(***************************************************************************)
EXTENDS Integers, Sequences, SequencesExt

CONSTANTS Ends,    \* the two ends of a connection
          Lens,    \* the lengths of a post
          CtlLen   \* the length of a ping, a pong and a kickoff

VARIABLES sent,  \* sent[e]: the messages accepted from e, in order
          got,   \* got[e]: the messages dispatched at e, in order
          open,  \* open[e]: e has not begun to close
          up     \* the connection is not broken

vars == <<sent, got, open, up>>

Peer(e) == CHOOSE p \in Ends : p # e

Pending(e) == SubSeq(sent[Peer(e)], Len(got[e]) + 1, Len(sent[Peer(e)]))

Of(kind, s) == Len(SelectSeq(s, LAMBDA m : m.kind = kind))

Init == /\ sent = [e \in Ends |-> <<>>]
        /\ got = [e \in Ends |-> <<>>]
        /\ open = [e \in Ends |-> TRUE]
        /\ up = TRUE

Message(kind, len, seq) == [kind |-> kind, len |-> len, seq |-> seq]

Send(e) ==
    /\ open[e]
    /\ \E kind \in {"post", "ping"}, len \in Lens \cup {CtlLen} :
          sent' = [sent EXCEPT ![e] = Append(@, Message(kind, len, Len(@) + 1))]
    /\ UNCHANGED <<got, open, up>>

(* A message is dispatched whole and in order; a ping is answered in the   *)
(* same call, a kickoff ends the end that gets it.                         *)
Receive(e, n) ==
    LET new == SubSeq(Pending(e), 1, n)
        pongs(k) == [i \in 1..k |-> Message("pong", CtlLen, Len(sent[e]) + i)]
        bye(k) == <<Message("kickoff", CtlLen, Len(sent[e]) + k + 1)>>
    IN  /\ open[e]
        /\ \A i \in 1..(n - 1) : new[i].kind # "kickoff"
        /\ got' = [got EXCEPT ![e] = @ \o new]
        /\ \E k \in 0..Of("ping", new), kick, shut \in BOOLEAN :
              /\ kick \/ Of("kickoff", new) > 0 => shut
              /\ shut \/ n > 0
              /\ sent' = [sent EXCEPT ![e] =
                             @ \o pongs(k) \o IF kick THEN bye(k) ELSE <<>>]
              /\ open' = [open EXCEPT ![e] = ~shut]
        /\ UNCHANGED up

Close(e) == Receive(e, 0)

Break == up /\ up' = FALSE /\ UNCHANGED <<sent, got, open>>

Deliver(e) ==
    /\ up /\ open[Peer(e)]
    /\ \E n \in 1..Len(Pending(e)) : Receive(e, n)

Next == \/ \E e \in Ends : \/ Send(e)
                           \/ Close(e)
                           \/ \E n \in 1..Len(Pending(e)) : Receive(e, n)
        \/ Break

Spec == Init /\ [][Next]_vars /\ \A e \in Ends : WF_vars(Deliver(e))

=============================================================================
