-------------------------- MODULE MCSessionLimits --------------------------
(* SessionLimits for TLC: the limits an operator may configure.                *)
EXTENDS SessionLimits, TLC

\* every limit is 0 but those of L
Only(L) == L @@ [c \in Counter |-> 0]

\* the send limits whose checks look at nothing after they closed the session
SendLimits == Only(<<"minute", "send", "bytes">> :> 3 @@ <<"minute", "send", "times">> :> 2
                     @@ <<"hour", "send", "times">> :> 3 @@ <<"total", "send", "times">> :> 4)
MinuteRecvLimit == Only(<<"minute", "recv", "bytes">> :> 2)
TotalRecvLimit == Only(<<"total", "recv", "bytes">> :> 4)
=============================================================================
