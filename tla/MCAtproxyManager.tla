-------------------------- MODULE MCAtproxyManager --------------------------
(* The instance of AtproxyManager for TLC: what proxies announce. *)
EXTENDS AtproxyManager

Info(l, v, m) == [listens |-> l, version |-> v, min |-> m]

\* a local socket that others cannot use, an address where nobody answers, a good one
Mixed == Info(<<"unix", "dead", "good">>, 2, 2)
TooNew == Info(<<"good">>, 3, 3)

LiveInfos == {Mixed, TooNew}
=============================================================================
