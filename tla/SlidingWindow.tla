---------------------------- MODULE SlidingWindow ----------------------------
(***************************************************************************)
(* What a RateLimiter promises, with no threads, locks or deque: a log of  *)
(* admissions per limiter, in the order they were made, each no earlier    *)
(* than the last and each Window after the Max[l]-th before it.            *)
(***************************************************************************)
EXTENDS Naturals, Sequences

CONSTANTS Limiters, Max, Window

VARIABLES time, log

Init ==
  /\ time \in Nat
  /\ log = [l \in Limiters |-> <<>>]

(* There is room for an admission at time n in the window that ends at n.  *)
Room(l, n) ==
  /\ Max[l] > 0
  /\ Len(log[l]) >= Max[l] => log[l][Len(log[l]) + 1 - Max[l]] + Window < n

Admission(l, n) ==
  /\ n <= time
  /\ \A i \in 1..Len(log[l]) : log[l][i] <= n
  /\ Room(l, n)
  /\ log' = [log EXCEPT ![l] = Append(@, n)]
  /\ time' = time

Advance == time' > time /\ log' = log

Next ==
  \/ \E l \in Limiters : \E n \in 0..time : Admission(l, n)
  \/ Advance

Spec == Init /\ [][Next]_<<time, log>>
==============================================================================
