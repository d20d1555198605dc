--------------------------- MODULE MCSplunkClient ---------------------------
(* TLC instances of SplunkClient: a server (concurrent calls of the one    *)
(* configuration it was started with, a password or a token), and a wizard *)
(* (one configuration per probe, one probe at a time).                     *)
EXTENDS SplunkClient, TLC

CONSTANTS c1, c2, c3, c4, c5, f1, f2, f3, u1, u2, k1, k2, k3

MCCalls == {c1, c2, c3}
MCKeys == {k1, k2, k3}

ServerCalls == MCCalls \cup {c4, c5}
ServerConfigs == {f1, f2}
ServerConfigOf == [c \in ServerCalls |-> IF c \in MCCalls THEN f1 ELSE f2]
ServerUserOf == [f \in ServerConfigs |-> u1]
ServerTokens == {f2}
NoConfigs == {}

ProbeConfigs == {f1, f2, f3}
ProbeConfigOf == (c1 :> f1) @@ (c2 :> f2) @@ (c3 :> f3)
ProbeUserOf == (f1 :> u1) @@ (f2 :> u1) @@ (f3 :> u2)
ProbeCorrect == {f1, f2, f3}
ProbeMistyped == {f1, f3}

Symmetric == Permutations(MCCalls) \cup Permutations(MCKeys)
KeySymmetry == Permutations(MCKeys)
=============================================================================
