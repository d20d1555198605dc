---------------------------- MODULE SingleSession ----------------------------
(***************************************************************************)
(* What password mode amounts to in a process with one configuration: one  *)
(* login at most, whose key every later request carries, for good.         *)
(***************************************************************************)
CONSTANTS Calls, Keys, None

VARIABLES
  key,    \* the key of the process, None before the login
  used    \* used[c]: the key call c sends, None when it sends none

Init ==
  /\ key = None
  /\ used = [c \in Calls |-> None]

Login(c, k) ==
  /\ key = None
  /\ key' = k
  /\ used' = [used EXCEPT ![c] = k]

Use(c) ==
  /\ key # None
  /\ used' = [used EXCEPT ![c] = key]
  /\ UNCHANGED key

Forget(c) ==
  /\ used' = [used EXCEPT ![c] = None]
  /\ UNCHANGED key

Next ==
  \E c \in Calls :
    \/ \E k \in Keys : Login(c, k)
    \/ Use(c)
    \/ Forget(c)

Spec == Init /\ [][Next]_<<key, used>>
==============================================================================
