--------------------------- MODULE MCInnerStream ---------------------------
(* InnerStream for TLC: the client talks, the gateway answers. *)
EXTENDS InnerStream

CONSTANTS client, gateway, ByClient, ByGateway

MCMaxSend == [e \in Ends |-> IF e = client THEN ByClient ELSE ByGateway]
=============================================================================
