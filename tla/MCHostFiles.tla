----------------------------- MODULE MCHostFiles -----------------------------
(* TLC instance of HostFiles: a run of the user's and the smoke test's, a  *)
(* server of another program, and a configuration in each of its shapes.   *)
EXTENDS HostFiles, TLC

CONSTANTS w1, w2, n1, n2, n3, byTest, byUser, other, r

MCLaunchOf == (w1 :> byUser) @@ (w2 :> byTest)

Full == [Empty EXCEPT !.section = "map", !.servers = (n1 :> other) @@ (n2 :> NoEntry) @@ (n3 :> NoEntry), !.rest = r]

MCForeign == {<<n2, Scalar>>}

MCInitFiles ==
  {Shaped("absent"), Shaped("invalid"), Full, [Full EXCEPT !.readable = FALSE],
   [Empty EXCEPT !.section = "bad", !.rest = r]}
=============================================================================
