-------------------------- MODULE MCInnerHandshake --------------------------
(* InnerHandshake for TLC. *)
EXTENDS InnerHandshake
=============================================================================
