--------------------------- MODULE RateLimitProofs ---------------------------
(***************************************************************************)
(* Proofs about RateLimit for every number of threads, tools, limits and   *)
(* every window: type correctness, the window bound, that refusals are     *)
(* justified, that the limiter implements SlidingWindow, and that its lock *)
(* is held briefly.                                                        *)
(***************************************************************************)
EXTENDS RateLimit, FiniteSetTheorems, TLAPS

(* Of a deque q, the admissions a it was filled from and the number d of   *)
(* them popped: q is what is left of a.                                    *)
Left(q, a, d) ==
  /\ Len(a) = d + Len(q)
  /\ \A i \in 1..Len(q) : q[i] = a[d + i]

Sorted(a) == \A i, j \in 1..Len(a) : i <= j => a[i] <= a[j]

(* No admission of a is later than n.                                      *)
Past(a, n) == \A i \in 1..Len(a) : a[i] <= n

(* The first d admissions of a are out of the window that ends at n.       *)
Gone(a, d, n) == \A i \in 1..Len(a) : i <= d => a[i] + Window < n

(* Each lock region belongs to the thread recorded in its lock.            *)
LockInv ==
  \A t \in Threads : pc[t] \in {"read", "decide"} => lock[at[t]] = t

DequeInv ==
  \A l \in Limiters :
    /\ Left(timestamps[l], admitted[l], dropped[l])
    /\ Sorted(admitted[l])
    /\ Past(admitted[l], clock)
    /\ Gone(admitted[l], dropped[l], clock)

(* What a thread's clock reading says of the limiter it is deciding in.    *)
ReadingInv ==
  \A t \in Threads : pc[t] = "decide" =>
    /\ now[t] <= clock
    /\ Past(admitted[at[t]], now[t])
    /\ Gone(admitted[at[t]], dropped[at[t]], now[t])

IInv == TypeOK /\ LockInv /\ DequeInv /\ ReadingInv
------------------------------------------------------------------------------
(* What Append and Tail do to lengths and elements, in the form the        *)
(* invariants use.                                                         *)
LEMMA AppendFacts ==
  ASSUME NEW s \in Seq(Nat), NEW e \in Nat
  PROVE  /\ Append(s, e) \in Seq(Nat)
         /\ Len(s) \in Nat
         /\ Len(Append(s, e)) = Len(s) + 1
         /\ \A i \in 1..Len(s) : Append(s, e)[i] = s[i]
         /\ Append(s, e)[Len(s) + 1] = e
  OBVIOUS

LEMMA TailFacts ==
  ASSUME NEW s \in Seq(Nat), s # <<>>
  PROVE  /\ Tail(s) \in Seq(Nat)
         /\ Len(s) \in Nat \ {0}
         /\ Head(s) = s[1]
         /\ Len(Tail(s)) = Len(s) - 1
         /\ \A i \in 1..Len(Tail(s)) : Tail(s)[i] = s[i + 1]
  OBVIOUS

(* An admission at n, no earlier than those before it, keeps the deque the *)
(* rest of the history and the history sorted.                             *)
LEMMA AdmitHistory ==
  ASSUME NEW q \in Seq(Nat), NEW a \in Seq(Nat), NEW d \in Nat, NEW n \in Nat,
         Left(q, a, d), Sorted(a), Past(a, n)
  PROVE  /\ Left(Append(q, n), Append(a, n), d)
         /\ Sorted(Append(a, n))
<1>1. /\ Len(Append(a, n)) = Len(a) + 1
      /\ \A i \in 1..Len(a) : Append(a, n)[i] = a[i]
      /\ Append(a, n)[Len(a) + 1] = n
      /\ Len(a) \in Nat
  BY AppendFacts
<1>2. /\ Len(Append(q, n)) = Len(q) + 1
      /\ \A i \in 1..Len(q) : Append(q, n)[i] = q[i]
      /\ Append(q, n)[Len(q) + 1] = n
      /\ Len(q) \in Nat
  BY AppendFacts
<1>3. Left(Append(q, n), Append(a, n), d)
  <2>1. Len(a) = d + Len(q) /\ \A i \in 1..Len(q) : q[i] = a[d + i]
    BY DEF Left
  <2>2. ASSUME NEW i \in 1..(Len(q) + 1)
        PROVE  Append(q, n)[i] = Append(a, n)[d + i]
    <3>1. CASE i = Len(q) + 1
      BY <3>1, <2>1, <1>1, <1>2
    <3>2. CASE i # Len(q) + 1
      <4>1. i \in 1..Len(q) /\ d + i \in 1..Len(a)
        BY <3>2, <2>1, <1>2
      <4> QED BY <4>1, <2>1, <1>1, <1>2
    <3> QED BY <3>1, <3>2
  <2>3. Len(Append(a, n)) = d + Len(Append(q, n))
    BY <2>1, <1>1, <1>2
  <2> QED BY <2>2, <2>3, <1>2 DEF Left
<1>4. Sorted(Append(a, n))
  <2> SUFFICES ASSUME NEW i \in 1..(Len(a) + 1), NEW j \in 1..(Len(a) + 1), i <= j
               PROVE  Append(a, n)[i] <= Append(a, n)[j]
    BY <1>1 DEF Sorted
  <2>1. CASE j = Len(a) + 1 /\ i = Len(a) + 1
    BY <2>1, <1>1
  <2>2. CASE j = Len(a) + 1 /\ i \in 1..Len(a)
    BY <2>2, <1>1 DEF Past
  <2>3. CASE i \in 1..Len(a) /\ j \in 1..Len(a)
    BY <2>3, <1>1 DEF Sorted
  <2> QED BY <2>1, <2>2, <2>3, <1>1
<1> QED BY <1>3, <1>4

LEMMA AdmitBounds ==
  ASSUME NEW a \in Seq(Nat), NEW d \in Nat, NEW n \in Nat, NEW m \in Nat,
         Past(a, m), Gone(a, d, m), n <= m, d <= Len(a)
  PROVE  Past(Append(a, n), m) /\ Gone(Append(a, n), d, m)
<1>1. /\ Len(Append(a, n)) = Len(a) + 1
      /\ \A i \in 1..Len(a) : Append(a, n)[i] = a[i]
      /\ Append(a, n)[Len(a) + 1] = n
      /\ Len(a) \in Nat
  BY AppendFacts
<1>2. ASSUME NEW i \in 1..(Len(a) + 1)
      PROVE  /\ Append(a, n)[i] <= m
             /\ i <= d => Append(a, n)[i] + Window < m
  <2>1. CASE i = Len(a) + 1
    BY <2>1, <1>1
  <2>2. CASE i \in 1..Len(a)
    BY <2>2, <1>1 DEF Past, Gone
  <2> QED BY <2>1, <2>2, <1>1
<1> QED BY <1>1, <1>2 DEF Past, Gone

(* A pop: the head of the deque is the first admission not popped yet.     *)
LEMMA PopHistory ==
  ASSUME NEW q \in Seq(Nat), NEW a \in Seq(Nat), NEW d \in Nat, NEW n \in Nat,
         q # <<>>, Left(q, a, d), Gone(a, d, n), Head(q) + Window < n
  PROVE  Left(Tail(q), a, d + 1) /\ Gone(a, d + 1, n)
<1>1. /\ Len(q) \in Nat \ {0}
      /\ Head(q) = q[1]
      /\ Len(Tail(q)) = Len(q) - 1
      /\ \A i \in 1..Len(Tail(q)) : Tail(q)[i] = q[i + 1]
  BY TailFacts
<1>2. Len(a) = d + Len(q) /\ \A i \in 1..Len(q) : q[i] = a[d + i]
  BY DEF Left
<1>3. Left(Tail(q), a, d + 1)
  <2>1. ASSUME NEW i \in 1..Len(Tail(q)) PROVE Tail(q)[i] = a[(d + 1) + i]
    <3>1. i + 1 \in 1..Len(q) /\ d + (i + 1) = (d + 1) + i
      BY <1>1
    <3> QED BY <3>1, <1>1, <1>2
  <2> QED BY <2>1, <1>1, <1>2 DEF Left
<1>4. a[d + 1] = Head(q)
  BY <1>1, <1>2
<1>5. Gone(a, d + 1, n)
  BY <1>1, <1>2, <1>4 DEF Gone
<1> QED BY <1>3, <1>5

LEMMA LaterReading ==
  ASSUME NEW a \in Seq(Nat), NEW d \in Nat, NEW m \in Nat, NEW n \in Nat,
         Past(a, m), Gone(a, d, m), m <= n
  PROVE  Past(a, n) /\ Gone(a, d, n)
<1>1. Window \in Nat /\ \A i \in 1..Len(a) : a[i] \in Nat
  BY ConstantsAssumption
<1> QED BY <1>1 DEF Past, Gone
------------------------------------------------------------------------------
LEMMA LimitersFacts == Limited \subseteq Limiters /\ Global \in Limiters
  BY DEF Limiters

(* Type correctness: every step of every thread, and of the clock, keeps   *)
(* the limiter's state well-typed.                                         *)
LEMMA TypeInit == Init => TypeOK
  BY ConstantsAssumption, LimitersFacts DEF Init, TypeOK

LEMMA TypeStep == TypeOK /\ [Next]_vars => TypeOK'
<1> SUFFICES ASSUME TypeOK, [Next]_vars PROVE TypeOK'
  OBVIOUS
<1> USE ConstantsAssumption, LimitersFacts DEF TypeOK, tally, deques
<1>1. ASSUME NEW t \in Threads, NEW x \in Tools, Check(t, x) PROVE TypeOK'
  BY <1>1 DEF Check, FirstLimiter
<1>2. ASSUME NEW t \in Threads, NEW l \in Limiters, Remaining(t, l) PROVE TypeOK'
  BY <1>2 DEF Remaining
<1>3. ASSUME NEW t \in Threads, Acquire(t) PROVE TypeOK'
  BY <1>3 DEF Acquire
<1>4. ASSUME NEW t \in Threads, ReadClock(t) PROVE TypeOK'
  BY <1>4 DEF ReadClock
<1>5. ASSUME NEW t \in Threads, PopStale(t) PROVE TypeOK'
  <2>1. Tail(timestamps[at[t]]) \in Seq(Nat)
    BY <1>5, TailFacts DEF PopStale, Stale
  <2> QED BY <1>5, <2>1 DEF PopStale
<1>5a. ASSUME NEW t \in Threads, Admit(t)
       PROVE  /\ timestamps' \in [Limiters -> Seq(Nat)]
              /\ admitted' \in [Limiters -> Seq(Nat)]
              /\ tool[t] \in Tools
  <2>1. /\ Append(timestamps[at[t]], now[t]) \in Seq(Nat)
        /\ Append(admitted[at[t]], now[t]) \in Seq(Nat)
    BY AppendFacts
  <2> QED BY <1>5a, <2>1 DEF Admit
<1>6. ASSUME NEW t \in Threads, PassTool(t) PROVE TypeOK'
  BY <1>6, <1>5a DEF PassTool, Admit
<1>6a. ASSUME NEW t \in Threads, Grant(t) PROVE TypeOK'
  BY <1>6a, <1>5a DEF Grant, Admit, Return
<1>7. ASSUME NEW t \in Threads, Refuse(t) PROVE TypeOK'
  <2>1. burned' \in [Limited -> Nat]
    BY <1>7 DEF Refuse
  <2>2. /\ UNCHANGED <<clock, deques, passed, granted>>
        /\ lock' \in [Limiters -> Threads \cup {None}]
        /\ pc' \in [Threads -> {"idle", "acquire", "read", "decide"}]
        /\ tool' \in [Threads -> Tools \cup {None}]
        /\ at' \in [Threads -> Limiters]
        /\ now' \in [Threads -> Nat]
    BY <1>7 DEF Refuse, Return
  <2> QED BY <2>1, <2>2
<1>8. ASSUME NEW t \in Threads, ReturnRemaining(t) PROVE TypeOK'
  BY <1>8 DEF ReturnRemaining, Return
<1>9. CASE Tick
  BY <1>9 DEF Tick
<1>10. CASE UNCHANGED vars
  BY <1>10 DEF vars
<1> QED
  BY <1>1, <1>2, <1>3, <1>4, <1>5, <1>6, <1>6a, <1>7, <1>8, <1>9, <1>10 DEF Next, Step

(* Every reachable state is well-typed.                                    *)
THEOREM TypeCorrect == Spec => []TypeOK
<1>1. Init => TypeOK
  BY TypeInit
<1>2. TypeOK /\ [Next]_vars => TypeOK'
  BY TypeStep
<1> QED BY <1>1, <1>2, PTL DEF Spec
------------------------------------------------------------------------------
LEMMA InvInit == Init => IInv
  BY TypeInit
  DEF Init, IInv, LockInv, DequeInv, ReadingInv, Left, Sorted, Past, Gone

(* A step that touches neither the deques nor the clock, and lets no       *)
(* thread but t decide, and t only with a fresh reading, keeps the parts   *)
(* of the invariant that speak of admissions.                              *)
LEMMA QuietStep ==
  ASSUME IInv, TypeOK', NEW t \in Threads,
         UNCHANGED <<clock, deques>>,
         \A u \in Threads \ {t} : /\ pc'[u] = pc[u]
                                  /\ at'[u] = at[u]
                                  /\ now'[u] = now[u],
         pc'[t] = "decide" => now'[t] = clock
  PROVE  DequeInv' /\ ReadingInv'
<1>1. DequeInv'
  BY DEF IInv, DequeInv, deques
<1>2. ASSUME NEW u \in Threads, pc'[u] = "decide"
      PROVE  /\ now'[u] <= clock
             /\ Past(admitted[at'[u]], now'[u])
             /\ Gone(admitted[at'[u]], dropped[at'[u]], now'[u])
  <2>1. CASE u = t
    <3>1. now'[t] = clock /\ clock \in Nat /\ at'[t] \in Limiters
      BY <1>2, <2>1 DEF IInv, TypeOK
    <3> QED BY <3>1, <2>1 DEF IInv, DequeInv
  <2>2. CASE u # t
    BY <1>2, <2>2 DEF IInv, ReadingInv
  <2> QED BY <2>1, <2>2
<1>3. ReadingInv'
  BY <1>2 DEF ReadingInv, deques
<1> QED BY <1>1, <1>3

(* Locks: a step of t that leaves the others alone and gives up only t's   *)
(* own lock keeps every lock region exclusive.                             *)
LEMMA LockStep == IInv /\ [Next]_vars => LockInv'
<1> SUFFICES ASSUME IInv, [Next]_vars PROVE LockInv'
  OBVIOUS
<1> USE ConstantsAssumption, LimitersFacts DEF IInv, TypeOK, LockInv
<1>1. ASSUME NEW t \in Threads, NEW x \in Tools, Check(t, x) PROVE LockInv'
  BY <1>1 DEF Check, FirstLimiter
<1>2. ASSUME NEW t \in Threads, NEW l \in Limiters, Remaining(t, l) PROVE LockInv'
  BY <1>2 DEF Remaining
<1>3. ASSUME NEW t \in Threads, Acquire(t) PROVE LockInv'
  BY <1>3 DEF Acquire
<1>4. ASSUME NEW t \in Threads, ReadClock(t) PROVE LockInv'
  BY <1>4 DEF ReadClock
<1>5. ASSUME NEW t \in Threads, PopStale(t) PROVE LockInv'
  BY <1>5 DEF PopStale
<1>6. ASSUME NEW t \in Threads, PassTool(t) PROVE LockInv'
  BY <1>6 DEF PassTool, Admit, Evicted
<1>7. ASSUME NEW t \in Threads, Grant(t) PROVE LockInv'
  BY <1>7 DEF Grant, Admit, Evicted, Return
<1>8. ASSUME NEW t \in Threads, Refuse(t) PROVE LockInv'
  BY <1>8 DEF Refuse, Evicted, Return
<1>9. ASSUME NEW t \in Threads, ReturnRemaining(t) PROVE LockInv'
  BY <1>9 DEF ReturnRemaining, Evicted, Return
<1>10. CASE Tick
  BY <1>10 DEF Tick
<1>11. CASE UNCHANGED vars
  BY <1>11 DEF vars
<1> QED
  BY <1>1, <1>2, <1>3, <1>4, <1>5, <1>6, <1>7, <1>8, <1>9, <1>10, <1>11 DEF Next, Step

(* An admission of t disturbs only the limiter t holds the lock of, and    *)
(* nobody else is deciding there.                                          *)
LEMMA AdmitStep ==
  ASSUME IInv, TypeOK', NEW t \in Threads, Admit(t),
         pc'[t] # "decide",
         \A u \in Threads \ {t} : /\ pc'[u] = pc[u]
                                  /\ at'[u] = at[u]
                                  /\ now'[u] = now[u]
  PROVE  DequeInv' /\ ReadingInv'
<1> DEFINE l == at[t]
           n == now[t]
<1>1. /\ l \in Limiters /\ n \in Nat /\ clock \in Nat
      /\ timestamps[l] \in Seq(Nat) /\ admitted[l] \in Seq(Nat) /\ dropped[l] \in Nat
  BY DEF IInv, TypeOK
<1>2. /\ pc[t] = "decide" /\ lock[l] = t
      /\ clock' = clock /\ dropped' = dropped
  BY DEF Admit, Evicted, IInv, LockInv
<1>3. /\ timestamps'[l] = Append(timestamps[l], n)
      /\ admitted'[l] = Append(admitted[l], n)
      /\ \A m \in Limiters \ {l} : /\ timestamps'[m] = timestamps[m]
                                   /\ admitted'[m] = admitted[m]
  BY <1>1 DEF Admit, IInv, TypeOK
<1>4. n <= clock /\ Past(admitted[l], n)
  BY <1>2 DEF IInv, ReadingInv
<1>5. /\ Left(timestamps[l], admitted[l], dropped[l])
      /\ Sorted(admitted[l])
      /\ Past(admitted[l], clock)
      /\ Gone(admitted[l], dropped[l], clock)
  BY <1>1 DEF IInv, DequeInv
<1>6. dropped[l] <= Len(admitted[l])
  BY <1>1, <1>5 DEF Left
<1>7. ASSUME NEW u \in Threads \ {t}, pc[u] = "decide" PROVE at[u] # l
  BY <1>2, <1>7 DEF IInv, LockInv
<1> HIDE DEF l, n
<1>8. /\ Left(timestamps'[l], admitted'[l], dropped[l])
      /\ Sorted(admitted'[l])
      /\ Past(admitted'[l], clock)
      /\ Gone(admitted'[l], dropped[l], clock)
  BY <1>1, <1>3, <1>4, <1>5, <1>6, AdmitHistory, AdmitBounds
<1>9. DequeInv'
  <2> SUFFICES ASSUME NEW m \in Limiters
               PROVE  /\ Left(timestamps'[m], admitted'[m], dropped[m])
                      /\ Sorted(admitted'[m])
                      /\ Past(admitted'[m], clock)
                      /\ Gone(admitted'[m], dropped[m], clock)
    BY <1>2 DEF DequeInv
  <2> QED BY <1>3, <1>8 DEF IInv, DequeInv
<1>10. ReadingInv'
  <2> SUFFICES ASSUME NEW u \in Threads, pc'[u] = "decide"
               PROVE  /\ now'[u] <= clock
                      /\ Past(admitted'[at'[u]], now'[u])
                      /\ Gone(admitted'[at'[u]], dropped[at'[u]], now'[u])
    BY <1>2 DEF ReadingInv
  <2>1. u \in Threads \ {t} /\ pc[u] = "decide" /\ at[u] \in Limiters \ {l}
    BY <1>7 DEF IInv, TypeOK
  <2> QED BY <2>1, <1>3 DEF IInv, ReadingInv
<1> QED BY <1>9, <1>10

(* So does an eviction.                                                    *)
LEMMA PopStep ==
  ASSUME IInv, NEW t \in Threads, PopStale(t)
  PROVE  DequeInv' /\ ReadingInv'
<1> DEFINE l == at[t]
           n == now[t]
<1>1. /\ l \in Limiters /\ n \in Nat /\ clock \in Nat
      /\ timestamps[l] \in Seq(Nat) /\ admitted[l] \in Seq(Nat) /\ dropped[l] \in Nat
      /\ Window \in Nat
  BY ConstantsAssumption DEF IInv, TypeOK
<1>2. /\ pc[t] = "decide" /\ lock[l] = t
      /\ timestamps[l] # <<>> /\ Head(timestamps[l]) + Window < n
      /\ UNCHANGED <<clock, pc, at, now, admitted>>
  BY DEF PopStale, Stale, IInv, LockInv
<1>3. /\ timestamps'[l] = Tail(timestamps[l])
      /\ dropped'[l] = dropped[l] + 1
      /\ \A m \in Limiters \ {l} : /\ timestamps'[m] = timestamps[m]
                                   /\ dropped'[m] = dropped[m]
  BY <1>1 DEF PopStale, IInv, TypeOK
<1>4. n <= clock /\ Past(admitted[l], n) /\ Gone(admitted[l], dropped[l], n)
  BY <1>2 DEF IInv, ReadingInv
<1>5. Left(timestamps[l], admitted[l], dropped[l]) /\ Sorted(admitted[l])
  BY <1>1 DEF IInv, DequeInv
<1>6. ASSUME NEW u \in Threads \ {t}, pc[u] = "decide" PROVE at[u] # l
  BY <1>2, <1>6 DEF IInv, LockInv
<1> HIDE DEF l, n
<1>7. /\ Left(timestamps'[l], admitted[l], dropped'[l])
      /\ Gone(admitted[l], dropped'[l], n)
  BY <1>1, <1>2, <1>3, <1>4, <1>5, PopHistory
<1>8. Past(admitted[l], clock) /\ Gone(admitted[l], dropped'[l], clock)
  <2>1. dropped'[l] \in Nat
    BY <1>1, <1>3
  <2> QED BY <2>1, <1>1, <1>4, <1>7, LaterReading
<1>9. DequeInv'
  <2> SUFFICES ASSUME NEW m \in Limiters
               PROVE  /\ Left(timestamps'[m], admitted[m], dropped'[m])
                      /\ Sorted(admitted[m])
                      /\ Past(admitted[m], clock)
                      /\ Gone(admitted[m], dropped'[m], clock)
    BY <1>2 DEF DequeInv
  <2> QED BY <1>3, <1>5, <1>7, <1>8 DEF IInv, DequeInv
<1>10. ReadingInv'
  <2> SUFFICES ASSUME NEW u \in Threads, pc[u] = "decide"
               PROVE  /\ now[u] <= clock
                      /\ Past(admitted[at[u]], now[u])
                      /\ Gone(admitted[at[u]], dropped'[at[u]], now[u])
    BY <1>2 DEF ReadingInv
  <2>1. CASE u = t
    BY <2>1, <1>4, <1>7 DEF l, n
  <2>2. CASE u # t
    <3>1. at[u] \in Limiters \ {l}
      BY <2>2, <1>6 DEF IInv, TypeOK
    <3> QED BY <3>1, <1>3 DEF IInv, ReadingInv
  <2> QED BY <2>1, <2>2
<1> QED BY <1>9, <1>10

LEMMA TickStep ==
  ASSUME IInv, Tick
  PROVE  DequeInv' /\ ReadingInv'
<1>1. /\ clock \in Nat /\ clock' \in Nat /\ clock <= clock'
      /\ UNCHANGED <<pc, at, now, timestamps, admitted, dropped>>
  BY DEF Tick, deques, IInv, TypeOK
<1>2. ASSUME NEW l \in Limiters
      PROVE  Past(admitted[l], clock') /\ Gone(admitted[l], dropped[l], clock')
  <2>1. admitted[l] \in Seq(Nat) /\ dropped[l] \in Nat
    BY DEF IInv, TypeOK
  <2> QED BY <1>1, <2>1, LaterReading DEF IInv, DequeInv
<1>3. DequeInv'
  BY <1>1, <1>2 DEF IInv, DequeInv
<1>4. ReadingInv'
  <2>1. \A t \in Threads : now[t] \in Nat
    BY DEF IInv, TypeOK
  <2> QED BY <2>1, <1>1 DEF IInv, ReadingInv
<1> QED BY <1>3, <1>4

LEMMA InvStep == IInv /\ [Next]_vars => IInv'
<1> SUFFICES ASSUME IInv, [Next]_vars PROVE IInv'
  OBVIOUS
<1>0. TypeOK' /\ LockInv'
  BY TypeStep, LockStep DEF IInv
<1> SUFFICES DequeInv' /\ ReadingInv'
  BY <1>0 DEF IInv
<1>t. /\ pc \in [Threads -> {"idle", "acquire", "read", "decide"}]
      /\ at \in [Threads -> Limiters] /\ now \in [Threads -> Nat]
  BY DEF IInv, TypeOK
<1>1. ASSUME NEW t \in Threads, NEW x \in Tools, Check(t, x)
      PROVE  DequeInv' /\ ReadingInv'
  BY <1>0, <1>t, <1>1, QuietStep DEF Check
<1>2. ASSUME NEW t \in Threads, NEW l \in Limiters, Remaining(t, l)
      PROVE  DequeInv' /\ ReadingInv'
  BY <1>0, <1>t, <1>2, QuietStep DEF Remaining
<1>3. ASSUME NEW t \in Threads, Acquire(t) PROVE DequeInv' /\ ReadingInv'
  BY <1>0, <1>t, <1>3, QuietStep DEF Acquire
<1>4. ASSUME NEW t \in Threads, ReadClock(t) PROVE DequeInv' /\ ReadingInv'
  BY <1>0, <1>t, <1>4, QuietStep DEF ReadClock
<1>5. ASSUME NEW t \in Threads, PopStale(t) PROVE DequeInv' /\ ReadingInv'
  BY <1>5, PopStep
<1>6. ASSUME NEW t \in Threads, PassTool(t) PROVE DequeInv' /\ ReadingInv'
  BY <1>0, <1>t, <1>6, AdmitStep DEF PassTool
<1>7. ASSUME NEW t \in Threads, Grant(t) PROVE DequeInv' /\ ReadingInv'
  BY <1>0, <1>t, <1>7, AdmitStep DEF Grant, Return
<1>8. ASSUME NEW t \in Threads, Refuse(t) PROVE DequeInv' /\ ReadingInv'
  BY <1>0, <1>t, <1>8, QuietStep DEF Refuse, Return
<1>9. ASSUME NEW t \in Threads, ReturnRemaining(t) PROVE DequeInv' /\ ReadingInv'
  BY <1>0, <1>t, <1>9, QuietStep DEF ReturnRemaining, Return
<1>10. CASE Tick
  BY <1>10, TickStep
<1>11. CASE UNCHANGED vars
  BY <1>11 DEF vars, deques, IInv, DequeInv, ReadingInv
<1> QED
  BY <1>1, <1>2, <1>3, <1>4, <1>5, <1>6, <1>7, <1>8, <1>9, <1>10, <1>11 DEF Next, Step

(* The inductive invariant holds in every reachable state.                 *)
THEOREM Invariance == Spec => []IInv
<1> QED BY InvInit, InvStep, PTL DEF Spec
------------------------------------------------------------------------------
(* When a limiter admits, its Max[l]-th last admission has been popped, so *)
(* it is out of the window of the new one.                                 *)
LEMMA RoomStep ==
  ASSUME IInv, NEW t \in Threads, Admit(t)
  PROVE  /\ at[t] \in Limiters /\ now[t] \in 0..clock
         /\ Past(admitted[at[t]], now[t])
         /\ SW!Room(at[t], now[t])
         /\ admitted' = [admitted EXCEPT ![at[t]] = Append(@, now[t])]
<1> DEFINE l == at[t]
           a == admitted[l]
           d == dropped[l]
<1>1. /\ l \in Limiters /\ now[t] \in Nat /\ clock \in Nat
      /\ a \in Seq(Nat) /\ d \in Nat /\ Len(timestamps[l]) \in Nat /\ Max[l] \in Nat
  BY ConstantsAssumption DEF IInv, TypeOK
<1>2. pc[t] = "decide" /\ Len(timestamps[l]) < Max[l]
  BY DEF Admit, Evicted
<1>3. now[t] <= clock /\ Past(a, now[t]) /\ Gone(a, d, now[t])
  BY <1>2 DEF IInv, ReadingInv
<1>4. Len(a) = d + Len(timestamps[l])
  BY <1>1 DEF IInv, DequeInv, Left
<1> HIDE DEF l, a, d
<1>5. ASSUME Len(a) >= Max[l]
      PROVE  a[Len(a) + 1 - Max[l]] + Window < now[t]
  <2>1. Len(a) + 1 - Max[l] \in 1..Len(a) /\ Len(a) + 1 - Max[l] <= d
    BY <1>1, <1>2, <1>4, <1>5
  <2> QED BY <2>1, <1>3 DEF Gone
<1>6. Max[l] > 0
  BY <1>1, <1>2
<1> QED BY <1>1, <1>3, <1>5, <1>6 DEF l, a, SW!Room, Admit

LEMMA OnlyAdmitLogs ==
  ASSUME IInv, [Next]_vars
  PROVE  \/ \E t \in Threads : Admit(t)
         \/ admitted' = admitted /\ clock' = clock
         \/ admitted' = admitted /\ Tick
  BY DEF Next, Step, vars, deques, Check, Remaining, Acquire, ReadClock, PopStale,
         PassTool, Grant, Refuse, ReturnRemaining, Tick

LEMMA WindowStep == IInv /\ WindowBound /\ [Next]_vars => WindowBound'
<1> SUFFICES ASSUME IInv, WindowBound, [Next]_vars PROVE WindowBound'
  OBVIOUS
<1>1. CASE admitted' = admitted
  BY <1>1 DEF WindowBound
<1>2. ASSUME NEW t \in Threads, Admit(t) PROVE WindowBound'
  <2> DEFINE l == at[t]
             a == admitted[l]
             n == now[t]
  <2>1. /\ l \in Limiters /\ n \in Nat /\ a \in Seq(Nat) /\ Max[l] \in Nat
        /\ SW!Room(l, n)
        /\ admitted' = [admitted EXCEPT ![l] = Append(@, n)]
    BY <1>2, RoomStep, ConstantsAssumption DEF IInv, TypeOK
  <2>2. /\ admitted'[l] = Append(a, n)
        /\ \A m \in Limiters \ {l} : admitted'[m] = admitted[m]
    BY <2>1 DEF IInv, TypeOK
  <2>3. /\ Len(Append(a, n)) = Len(a) + 1 /\ Len(a) \in Nat
        /\ \A i \in 1..Len(a) : Append(a, n)[i] = a[i]
        /\ Append(a, n)[Len(a) + 1] = n
    BY <2>1, AppendFacts
  <2>4. /\ Max[l] > 0
        /\ Len(a) >= Max[l] => a[Len(a) + 1 - Max[l]] + Window < n
    BY <2>1 DEF SW!Room
  <2>5. \A i \in 1..Len(a) : i + Max[l] <= Len(a) => a[i] + Window < a[i + Max[l]]
    BY <2>1 DEF WindowBound
  <2> HIDE DEF l, a, n
  <2>6. ASSUME NEW i \in 1..(Len(a) + 1), i + Max[l] <= Len(a) + 1
        PROVE  Append(a, n)[i] + Window < Append(a, n)[i + Max[l]]
    <3>1. CASE i + Max[l] = Len(a) + 1
      <4>1. i = Len(a) + 1 - Max[l] /\ i \in 1..Len(a) /\ Len(a) >= Max[l]
        BY <3>1, <2>1, <2>3, <2>4
      <4> QED BY <4>1, <3>1, <2>3, <2>4
    <3>2. CASE i + Max[l] # Len(a) + 1
      <4>0. Max[l] \in Nat /\ Max[l] > 0 /\ Len(a) \in Nat
        BY <2>1, <2>3, <2>4
      <4>1. i \in 1..Len(a) /\ i + Max[l] \in 1..Len(a)
        BY <4>0, <3>2, <2>6
      <4> QED BY <4>1, <2>3, <2>5
    <3> QED BY <3>1, <3>2
  <2>7. ASSUME NEW m \in Limiters, NEW i \in 1..Len(admitted'[m]),
               i + Max[m] <= Len(admitted'[m])
        PROVE  admitted'[m][i] + Window < admitted'[m][i + Max[m]]
    <3>1. CASE m = l
      BY <3>1, <2>2, <2>3, <2>6, <2>7
    <3>2. CASE m # l
      BY <3>2, <2>2, <2>7 DEF WindowBound
    <3> QED BY <3>1, <3>2
  <2> QED BY <2>7 DEF WindowBound
<1> QED BY <1>1, <1>2, OnlyAdmitLogs

(* The sliding window: whatever the interleaving, of any Max[l] + 1        *)
(* successive admissions of limiter l the last comes more than Window      *)
(* after the first.                                                        *)
THEOREM WindowCorrect == Spec => []WindowBound
<1>1. Init => WindowBound
  BY DEF Init, WindowBound
<1> QED BY <1>1, WindowStep, Invariance, PTL DEF Spec

(* The limiter with threads, locks and eviction implements SlidingWindow.  *)
THEOREM Refinement == Spec => Implements
<1>1. Init => SW!Init
  BY DEF Init, SW!Init
<1>2. IInv /\ [Next]_vars => [SW!Next]_<<clock, admitted>>
  <2> SUFFICES ASSUME IInv, [Next]_vars PROVE [SW!Next]_<<clock, admitted>>
    OBVIOUS
  <2>1. ASSUME NEW t \in Threads, Admit(t) PROVE SW!Next
    <3>1. /\ at[t] \in Limiters /\ now[t] \in 0..clock
          /\ \A i \in 1..Len(admitted[at[t]]) : admitted[at[t]][i] <= now[t]
          /\ SW!Room(at[t], now[t])
          /\ admitted' = [admitted EXCEPT ![at[t]] = Append(@, now[t])]
      BY <2>1, RoomStep DEF Past
    <3>2. clock' = clock /\ now[t] <= clock
      BY <2>1, <3>1 DEF Admit, IInv, TypeOK
    <3>3. SW!Admission(at[t], now[t])
      BY <3>1, <3>2 DEF SW!Admission
    <3> QED BY <3>1, <3>3 DEF SW!Next
  <2>2. CASE admitted' = admitted /\ clock' = clock
    BY <2>2
  <2>3. CASE admitted' = admitted /\ Tick
    BY <2>3 DEF Tick, SW!Next, SW!Advance, IInv, TypeOK
  <2> QED BY <2>1, <2>2, <2>3, OnlyAdmitLogs
<1> QED BY <1>1, <1>2, Invariance, PTL DEF Spec, Implements, SW!Spec
------------------------------------------------------------------------------
(* The only step that ends a check without an admission is Refuse.         *)
LEMMA RefusedIsRefuse ==
  ASSUME IInv, [Next]_vars, NEW t \in Threads, NEW l \in Limiters, RefusedFor(t, l)
  PROVE  Refuse(t)
<1>1. /\ pc \in [Threads -> {"idle", "acquire", "read", "decide"}]
      /\ pc[t] = "decide" /\ pc'[t] = "idle" /\ tool[t] # None
      /\ admitted' = admitted
      /\ admitted \in [Limiters -> Seq(Nat)] /\ at[t] \in Limiters /\ now[t] \in Nat
  BY DEF RefusedFor, IInv, TypeOK
<1>2. ~ \E u \in Threads \ {t} : Step(u) \/ (\E x \in Tools : Check(u, x))
                                         \/ (\E m \in Limiters : Remaining(u, m))
  BY <1>1 DEF Step, Check, Remaining, Acquire, ReadClock, PopStale, PassTool,
              Grant, Refuse, ReturnRemaining, Return
<1>3. ~ Tick /\ ~ UNCHANGED vars
  BY <1>1 DEF Tick, vars
<1>4. ~ Grant(t)
  <2>1. SUFFICES ASSUME Grant(t) PROVE FALSE
    OBVIOUS
  <2>2. admitted'[at[t]] = Append(admitted[at[t]], now[t])
    BY <1>1, <2>1 DEF Grant, Admit
  <2>3. Len(Append(admitted[at[t]], now[t])) = Len(admitted[at[t]]) + 1
        /\ Len(admitted[at[t]]) \in Nat
    BY <1>1, AppendFacts
  <2> QED BY <1>1, <2>2, <2>3
<1>5. ~ (Acquire(t) \/ ReadClock(t) \/ PopStale(t) \/ PassTool(t) \/ ReturnRemaining(t))
  BY <1>1 DEF Acquire, ReadClock, PopStale, PassTool, ReturnRemaining
<1>6. ~ (\E x \in Tools : Check(t, x)) /\ ~ (\E m \in Limiters : Remaining(t, m))
  BY <1>1 DEF Check, Remaining
<1> QED BY <1>2, <1>3, <1>4, <1>5, <1>6 DEF Next, Step

(* Refusals are never premature: when limiter l turns a check down, its    *)
(* last Max[l] admissions are all still in the window of that check.       *)
THEOREM RefusalCorrect == Spec => RefusalJustified
<1>1. ASSUME IInv, [Next]_vars, NEW t \in Threads, NEW l \in Limiters, RefusedFor(t, l)
      PROVE  /\ Len(admitted[l]) >= Max[l]
             /\ \A i \in 1..Len(admitted[l]) :
                  i + Max[l] > Len(admitted[l]) => now[t] <= admitted[l][i] + Window
  <2> DEFINE a == admitted[l]
             q == timestamps[l]
             d == dropped[l]
  <2>1. Refuse(t) /\ at[t] = l
    BY <1>1, RefusedIsRefuse DEF RefusedFor
  <2>2. /\ Len(q) >= Max[l]
        /\ q # <<>> => ~ (Head(q) + Window < now[t])
    BY <2>1 DEF Refuse, Evicted, Stale
  <2>3. /\ a \in Seq(Nat) /\ q \in Seq(Nat) /\ d \in Nat /\ now[t] \in Nat
        /\ Max[l] \in Nat /\ Window \in Nat
    BY <1>1, ConstantsAssumption DEF IInv, TypeOK
  <2>4. Left(q, a, d) /\ Sorted(a)
    BY <1>1 DEF IInv, DequeInv
  <2> HIDE DEF a, q, d
  <2>5. /\ Len(a) = d + Len(q) /\ Len(q) \in Nat
        /\ \A i \in 1..Len(q) : q[i] = a[d + i]
    BY <2>3, <2>4 DEF Left
  <2>6. ASSUME NEW i \in 1..Len(a), i + Max[l] > Len(a)
        PROVE  now[t] <= a[i] + Window
    <3>1. d + 1 \in 1..Len(a) /\ d + 1 <= i /\ Len(q) > 0
      BY <2>2, <2>3, <2>5, <2>6
    <3>2. a[d + 1] = Head(q) /\ q # <<>>
      BY <3>1, <2>3, <2>5
    <3>3. a[d + 1] <= a[i]
      BY <3>1, <2>4 DEF Sorted
    <3>4. a[d + 1] \in Nat /\ a[i] \in Nat
      BY <2>3, <3>1
    <3>5. ~ (a[d + 1] + Window < now[t])
      BY <2>2, <3>2
    <3>6. \A x, y, n, w \in Nat : x <= y /\ ~ (x + w < n) => n <= y + w
      OBVIOUS
    <3> QED BY <2>3, <3>3, <3>4, <3>5, <3>6
  <2> QED BY <2>2, <2>3, <2>5, <2>6 DEF a
<1>2. IInv /\ [Next]_vars =>
        [\A t \in Threads, l \in Limiters :
           RefusedFor(t, l) =>
             /\ Len(admitted[l]) >= Max[l]
             /\ \A i \in 1..Len(admitted[l]) :
                  i + Max[l] > Len(admitted[l]) => now[t] <= admitted[l][i] + Window]_vars
  BY <1>1
<1> QED BY <1>2, Invariance, PTL DEF Spec, RefusalJustified
------------------------------------------------------------------------------
(* A thread checks in the limiter of its tool or in the global one.        *)
PlaceInv ==
  \A t \in Threads :
    /\ pc[t] = "idle" => tool[t] = None
    /\ tool[t] # None => at[t] \in {tool[t], Global}

LEMMA PlaceStep == TypeOK /\ PlaceInv /\ [Next]_vars => PlaceInv'
<1> SUFFICES ASSUME TypeOK, PlaceInv, [Next]_vars PROVE PlaceInv'
  OBVIOUS
<1> USE ConstantsAssumption DEF TypeOK, PlaceInv
<1>1. ASSUME NEW t \in Threads, NEW x \in Tools, Check(t, x) PROVE PlaceInv'
  BY <1>1 DEF Check, FirstLimiter
<1>2. ASSUME NEW t \in Threads, NEW l \in Limiters, Remaining(t, l) PROVE PlaceInv'
  BY <1>2 DEF Remaining
<1>3. ASSUME NEW t \in Threads, Acquire(t) \/ ReadClock(t) \/ PopStale(t) PROVE PlaceInv'
  BY <1>3 DEF Acquire, ReadClock, PopStale
<1>4. ASSUME NEW t \in Threads, PassTool(t) PROVE PlaceInv'
  BY <1>4 DEF PassTool, Admit
<1>5. ASSUME NEW t \in Threads, Return(t) PROVE PlaceInv'
  BY <1>5 DEF Return
<1>6. CASE Tick
  BY <1>6 DEF Tick
<1>7. CASE UNCHANGED vars
  BY <1>7 DEF vars
<1> QED
  BY <1>1, <1>2, <1>3, <1>4, <1>5, <1>6, <1>7
  DEF Next, Step, Grant, Refuse, ReturnRemaining

(* The checks between two limiters can be counted, and the count goes up   *)
(* by one with a thread that joins them and down with one that leaves.     *)
LEMMA Count ==
  ASSUME NEW S \in SUBSET Threads
  PROVE  /\ Cardinality(S) \in Nat
         /\ \A t \in Threads \ S : Cardinality(S \cup {t}) = Cardinality(S) + 1
         /\ \A t \in S : Cardinality(S) = Cardinality(S \ {t}) + 1
<1>1. IsFiniteSet(S) /\ Cardinality(S) \in Nat
  BY ConstantsAssumption, FS_Subset, FS_CardinalityType
<1>2. \A t \in Threads \ S : Cardinality(S \cup {t}) = Cardinality(S) + 1
  BY <1>1, FS_AddElement
<1>3. \A t \in S : Cardinality(S) = Cardinality(S \ {t}) + 1
  <2> SUFFICES ASSUME NEW t \in S PROVE Cardinality(S) = Cardinality(S \ {t}) + 1
    OBVIOUS
  <2>1. Cardinality(S \ {t}) = Cardinality(S) - 1 /\ Cardinality(S \ {t}) \in Nat
    BY <1>1, FS_RemoveElement, FS_CardinalityType
  <2> QED BY <1>1, <2>1
<1> QED BY <1>1, <1>2, <1>3

(* The equation of one limiter, with one more admission and one more of    *)
(* the checks n between the limiters, or with one of those checks ended.   *)
LEMMA OneMore ==
  ASSUME NEW a, NEW g \in Nat, NEW b \in Nat, NEW n \in Nat, a = g + b + n,
         NEW c, c = a + 1, NEW m, m = n + 1
  PROVE  c = g + b + m
  OBVIOUS

LEMMA OneEnded ==
  ASSUME NEW a, NEW g \in Nat, NEW b \in Nat, NEW n \in Nat, a = g + b + (n + 1),
         NEW h \in Nat, NEW d \in Nat, h + d = g + b + 1
  PROVE  a = h + d + n
  OBVIOUS

(* A step that charges nobody and moves no check of a limited tool into or *)
(* out of the stretch between the limiters.                                *)
LEMMA FreeStep ==
  ASSUME BudgetConservation, UNCHANGED <<admitted, tally>>,
         \A x \in Limited : BetweenLimiters(x)' = BetweenLimiters(x)
  PROVE  BudgetConservation'
  BY DEF BudgetConservation, tally

LEMMA AdmitCharge ==
  ASSUME TypeOK, NEW t \in Threads, Admit(t)
  PROVE  /\ Len(admitted'[at[t]]) = Len(admitted[at[t]]) + 1
         /\ \A l \in Limiters \ {at[t]} : admitted'[l] = admitted[l]
<1>1. /\ admitted \in [Limiters -> Seq(Nat)] /\ at[t] \in Limiters /\ now[t] \in Nat
      /\ admitted' = [admitted EXCEPT ![at[t]] = Append(@, now[t])]
  BY DEF TypeOK, Admit
<1> QED BY <1>1, AppendFacts

LEMMA BudgetStep == TypeOK /\ PlaceInv /\ BudgetConservation /\ [Next]_vars => BudgetConservation'
<1> SUFFICES ASSUME TypeOK, PlaceInv, BudgetConservation, [Next]_vars
             PROVE  BudgetConservation'
  OBVIOUS
<1>0. /\ tool \in [Threads -> Tools \cup {None}] /\ at \in [Threads -> Limiters]
      /\ admitted \in [Limiters -> Seq(Nat)]
      /\ passed \in Nat /\ granted \in [Limited -> Nat] /\ burned \in [Limited -> Nat]
      /\ \A l \in Limiters : Len(admitted[l]) \in Nat
      /\ Global \notin Limited /\ None \notin Limited /\ Limited \subseteq Limiters
      /\ Global \in Limiters
  BY ConstantsAssumption DEF TypeOK, Limiters
<1>b. /\ Len(admitted[Global]) = passed
      /\ \A x \in Limited :
           Len(admitted[x]) = granted[x] + burned[x] + Cardinality(BetweenLimiters(x))
  BY DEF BudgetConservation
<1>c. \A x \in Limited : BetweenLimiters(x) \subseteq Threads
  BY DEF BetweenLimiters
<1>1. ASSUME NEW t \in Threads, NEW x \in Tools, Check(t, x) PROVE BudgetConservation'
  <2>1. \A y \in Limited : BetweenLimiters(y)' = BetweenLimiters(y)
    BY <1>0, <1>1 DEF Check, FirstLimiter, BetweenLimiters, PlaceInv
  <2> QED BY <1>1, <2>1, FreeStep DEF Check, deques
<1>2. ASSUME NEW t \in Threads, NEW l \in Limiters, Remaining(t, l) PROVE BudgetConservation'
  <2>1. \A y \in Limited : BetweenLimiters(y)' = BetweenLimiters(y)
    BY <1>0, <1>2 DEF Remaining, BetweenLimiters, PlaceInv
  <2> QED BY <1>2, <2>1, FreeStep DEF Remaining, deques
<1>3. ASSUME NEW t \in Threads, Acquire(t) \/ ReadClock(t) \/ PopStale(t)
      PROVE  BudgetConservation'
  <2>1. UNCHANGED <<tool, at, admitted, tally>>
    BY <1>3 DEF Acquire, ReadClock, PopStale, deques
  <2> QED BY <2>1, FreeStep DEF BetweenLimiters
<1>4. ASSUME NEW t \in Threads, ReturnRemaining(t) PROVE BudgetConservation'
  <2>1. \A y \in Limited : BetweenLimiters(y)' = BetweenLimiters(y)
    BY <1>0, <1>4 DEF ReturnRemaining, Return, BetweenLimiters
  <2> QED BY <1>4, <2>1, FreeStep DEF ReturnRemaining, deques
<1>5. CASE Tick \/ UNCHANGED vars
  <2>1. UNCHANGED <<tool, at, admitted, tally>>
    BY <1>5 DEF Tick, vars, deques
  <2> QED BY <2>1, FreeStep DEF BetweenLimiters
<1>6. ASSUME NEW t \in Threads, PassTool(t) PROVE BudgetConservation'
  <2>1. PICK z \in Limited : z = tool[t] /\ at[t] = z /\ UNCHANGED tally
    BY <1>0, <1>6 DEF PassTool, Admit, PlaceInv, Limiters
  <2>2. /\ Len(admitted'[z]) = Len(admitted[z]) + 1
        /\ \A l \in Limiters \ {z} : admitted'[l] = admitted[l]
    BY <1>6, <2>1, AdmitCharge DEF PassTool
  <2>3. /\ t \notin BetweenLimiters(z)
        /\ BetweenLimiters(z)' = BetweenLimiters(z) \cup {t}
        /\ \A x \in Limited \ {z} : BetweenLimiters(x)' = BetweenLimiters(x)
    BY <1>0, <1>6, <2>1 DEF PassTool, BetweenLimiters
  <2>4. Cardinality(BetweenLimiters(z)') = Cardinality(BetweenLimiters(z)) + 1
    BY <1>c, <2>1, <2>3, Count
  <2>5. Len(admitted'[Global]) = passed'
    BY <1>0, <1>b, <2>1, <2>2 DEF tally
  <2>6. ASSUME NEW x \in Limited
        PROVE  Len(admitted'[x]) = granted'[x] + burned'[x] + Cardinality(BetweenLimiters(x)')
    <3>1. Cardinality(BetweenLimiters(x)) \in Nat /\ granted[x] \in Nat /\ burned[x] \in Nat
      BY <1>0, <1>c, Count
    <3>2. CASE x = z
      <4>1. /\ Len(admitted'[x]) = Len(admitted[x]) + 1
            /\ Cardinality(BetweenLimiters(x)') = Cardinality(BetweenLimiters(x)) + 1
            /\ granted' = granted /\ burned' = burned
        BY <2>1, <2>2, <2>4, <3>2 DEF tally
      <4>2. Len(admitted[x]) = granted[x] + burned[x] + Cardinality(BetweenLimiters(x))
        BY <1>b
      <4>3. Len(admitted'[x]) = granted[x] + burned[x] + Cardinality(BetweenLimiters(x)')
        BY <3>1, <4>1, <4>2, OneMore
      <4> QED BY <4>1, <4>3
    <3>3. CASE x # z
      BY <1>0, <1>b, <2>1, <2>2, <2>3, <3>3 DEF tally
    <3> QED BY <3>2, <3>3
  <2> QED BY <2>5, <2>6 DEF BudgetConservation
<1>7. ASSUME NEW t \in Threads, at[t] = Global, tool[t] # None, Return(t),
             Len(admitted'[Global]) = passed',
             \A x \in Limited : admitted'[x] = admitted[x],
             \A x \in Limited : granted'[x] \in Nat /\ burned'[x] \in Nat,
             \A x \in Limited : granted'[x] + burned'[x] =
                                 granted[x] + burned[x] + (IF x = tool[t] THEN 1 ELSE 0)
      PROVE  BudgetConservation'
  <2>1. ASSUME NEW x \in Limited
        PROVE  BetweenLimiters(x)' = BetweenLimiters(x) \ {t}
    BY <1>0, <1>7 DEF Return, BetweenLimiters
  <2>2. ASSUME NEW x \in Limited
        PROVE  Len(admitted'[x]) = granted'[x] + burned'[x] + Cardinality(BetweenLimiters(x)')
    <3>1. PICK n \in Nat : n = Cardinality(BetweenLimiters(x) \ {t})
      BY <1>c, Count
    <3>2. CASE x = tool[t]
      <4>1. t \in BetweenLimiters(x)
        BY <1>7, <3>2 DEF BetweenLimiters
      <4>2. Cardinality(BetweenLimiters(x)) = n + 1
        BY <1>c, <3>1, <4>1, Count
      <4>3. /\ granted'[x] + burned'[x] = granted[x] + burned[x] + 1
            /\ granted[x] \in Nat /\ burned[x] \in Nat
            /\ granted'[x] \in Nat /\ burned'[x] \in Nat
        BY <1>0, <1>7, <3>2
      <4>4. Len(admitted[x]) = granted[x] + burned[x] + (n + 1)
        BY <1>b, <4>2
      <4>5. Len(admitted[x]) = granted'[x] + burned'[x] + n
        BY <4>3, <4>4, OneEnded
      <4> QED BY <1>7, <2>1, <3>1, <4>5
    <3>3. CASE x # tool[t]
      <4>1. t \notin BetweenLimiters(x)
        BY <3>3 DEF BetweenLimiters
      <4>2. BetweenLimiters(x)' = BetweenLimiters(x)
        BY <2>1, <4>1
      <4> QED BY <1>0, <1>7, <1>b, <3>1, <3>3, <4>2
    <3> QED BY <3>2, <3>3
  <2> QED BY <1>7, <2>2 DEF BudgetConservation
<1>8. ASSUME NEW t \in Threads, Grant(t) PROVE BudgetConservation'
  <2>1. /\ at[t] = Global /\ tool[t] # None /\ Return(t) /\ passed' = passed + 1
        /\ \A x \in Limited : granted'[x] = IF x = tool[t] THEN granted[x] + 1 ELSE granted[x]
        /\ burned' = burned
    BY <1>8 DEF Grant, Admit
  <2>2. /\ Len(admitted'[Global]) = Len(admitted[Global]) + 1
        /\ \A l \in Limiters \ {Global} : admitted'[l] = admitted[l]
    BY <1>8, <2>1, AdmitCharge DEF Grant
  <2>3. Len(admitted'[Global]) = passed' /\ \A x \in Limited : admitted'[x] = admitted[x]
    BY <1>0, <1>b, <2>1, <2>2
  <2>4. ASSUME NEW x \in Limited
        PROVE  /\ granted'[x] \in Nat /\ burned'[x] \in Nat
               /\ granted'[x] + burned'[x] = granted[x] + burned[x] + (IF x = tool[t] THEN 1 ELSE 0)
    BY <1>0, <2>1
  <2> QED BY <1>7, <2>1, <2>3, <2>4
<1>9. ASSUME NEW t \in Threads, Refuse(t) PROVE BudgetConservation'
  <2>1. /\ tool[t] # None /\ Return(t) /\ UNCHANGED <<admitted, passed, granted>>
        /\ \A x \in Limited : burned'[x] = IF at[t] = Global /\ x = tool[t]
                                          THEN burned[x] + 1 ELSE burned[x]
        /\ burned' = [x \in Limited |-> IF at[t] = Global /\ x = tool[t]
                                         THEN burned[x] + 1 ELSE burned[x]]
    BY <1>9 DEF Refuse, deques
  <2>2. CASE at[t] = Global
    <3>1. ASSUME NEW x \in Limited
          PROVE  /\ granted'[x] \in Nat /\ burned'[x] \in Nat
                 /\ granted'[x] + burned'[x] = granted[x] + burned[x] + (IF x = tool[t] THEN 1 ELSE 0)
      BY <1>0, <2>1, <2>2
    <3> QED BY <1>7, <1>b, <2>1, <2>2, <3>1
  <2>3. CASE at[t] # Global
    <3>1. burned' = burned
      BY <1>0, <2>1, <2>3
    <3>2. \A x \in Limited : BetweenLimiters(x)' = BetweenLimiters(x)
      BY <1>0, <2>1, <2>3 DEF Return, BetweenLimiters
    <3> QED BY <2>1, <3>1, <3>2, FreeStep DEF tally
  <2> QED BY <2>2, <2>3
<1> QED
  BY <1>1, <1>2, <1>3, <1>4, <1>5, <1>6, <1>8, <1>9 DEF Next, Step

(* Budget is conserved, for any number of threads and tools: the global    *)
(* limiter is charged once per check that passed, and a tool's own one for *)
(* those that passed, that the global limiter refused, and that are on     *)
(* their way to it.                                                        *)
THEOREM BudgetCorrect == Spec => []BudgetConservation
<1>1. Init => PlaceInv /\ BudgetConservation
  <2> SUFFICES ASSUME Init PROVE PlaceInv /\ BudgetConservation
    OBVIOUS
  <2>1. PlaceInv
    BY DEF Init, PlaceInv
  <2>2. \A x \in Limited : BetweenLimiters(x) = {}
    BY ConstantsAssumption DEF Init, BetweenLimiters
  <2>3. Cardinality({}) = 0
    BY FS_EmptySet
  <2>4. Len(admitted[Global]) = passed /\ \A x \in Limited : Len(admitted[x]) = 0
    BY LimitersFacts DEF Init
  <2>5. \A x \in Limited : granted[x] = 0 /\ burned[x] = 0
    BY DEF Init
  <2>6. \A x \in Limited : granted[x] + burned[x] + Cardinality(BetweenLimiters(x)) = 0
    BY <2>2, <2>3, <2>5
  <2> QED BY <2>1, <2>4, <2>6 DEF BudgetConservation
<1> QED BY <1>1, PlaceStep, BudgetStep, TypeCorrect, PTL DEF Spec
------------------------------------------------------------------------------
(* How long a limiter's lock is kept.  Its holder is inside that limiter,  *)
(* and a deque holds no more than the limiter admits.                      *)
HolderInv ==
  \A l \in Limiters :
    lock[l] # None => pc[lock[l]] \in {"read", "decide"} /\ at[lock[l]] = l

DequeBounded == \A l \in Limiters : Len(timestamps[l]) <= Max[l]

(* The steps the holder of the lock of l has left to the release: reading  *)
(* the clock, a pop for each timestamp at most, and the decision.          *)
HeldSteps(l) ==
  IF lock[l] = None THEN 0
  ELSE Len(timestamps[l]) + (IF pc[lock[l]] = "read" THEN 2 ELSE 1)

HeldOn(l) ==
  \/ HeldSteps(l)' < HeldSteps(l)
  \/ lock'[l] = lock[l] /\ HeldSteps(l)' = HeldSteps(l)

LEMMA HolderStep == TypeOK /\ HolderInv /\ [Next]_vars => HolderInv'
<1> SUFFICES ASSUME TypeOK, HolderInv, [Next]_vars, NEW l \in Limiters, lock'[l] # None
             PROVE  pc'[lock'[l]] \in {"read", "decide"} /\ at'[lock'[l]] = l
  BY DEF HolderInv
<1> DEFINE Goal == pc'[lock'[l]] \in {"read", "decide"} /\ at'[lock'[l]] = l
<1>types. /\ lock \in [Limiters -> Threads \cup {None}] /\ at \in [Threads -> Limiters]
          /\ pc \in [Threads -> {"idle", "acquire", "read", "decide"}]
  BY DEF TypeOK
<1>h. lock[l] # None => lock[l] \in Threads /\ pc[lock[l]] \in {"read", "decide"} /\ at[lock[l]] = l
  BY <1>types DEF HolderInv
<1>keep. ASSUME lock'[l] = lock[l], pc'[lock[l]] \in {"read", "decide"}, at'[lock[l]] = at[lock[l]]
         PROVE  Goal
  BY <1>h, <1>keep
<1>1. ASSUME NEW t \in Threads, NEW x \in Tools, Check(t, x) PROVE Goal
  <2>1. lock' = lock /\ lock[l] # t
    BY <1>1, <1>h DEF Check
  <2> QED BY <1>1, <1>h, <1>keep, <1>types, <2>1 DEF Check
<1>2. ASSUME NEW t \in Threads, NEW m \in Limiters, Remaining(t, m) PROVE Goal
  <2>1. lock' = lock /\ lock[l] # t
    BY <1>2, <1>h DEF Remaining
  <2> QED BY <1>2, <1>h, <1>keep, <1>types, <2>1 DEF Remaining
<1>3. ASSUME NEW t \in Threads, Acquire(t) PROVE Goal
  <2>1. CASE at[t] = l
    BY <1>3, <1>types, <2>1 DEF Acquire
  <2>2. CASE at[t] # l
    <3>1. lock'[l] = lock[l] /\ lock[l] # t
      BY <1>3, <1>h, <1>types, <2>2 DEF Acquire
    <3> QED BY <1>3, <1>h, <1>keep, <1>types, <3>1 DEF Acquire
  <2> QED BY <2>1, <2>2
<1>4. ASSUME NEW t \in Threads, ReadClock(t) PROVE Goal
  BY <1>4, <1>h, <1>keep, <1>types DEF ReadClock
<1>5. ASSUME NEW t \in Threads, PopStale(t) PROVE Goal
  BY <1>5, <1>h, <1>keep DEF PopStale
<1>6. ASSUME NEW t \in Threads, lock' = [lock EXCEPT ![at[t]] = None],
             \A u \in Threads \ {t} : pc'[u] = pc[u] /\ at'[u] = at[u]
      PROVE  Goal
  <2>1. at[t] # l /\ lock'[l] = lock[l]
    BY <1>6, <1>types
  <2> QED BY <1>6, <1>h, <1>keep, <2>1
<1>7. ASSUME NEW t \in Threads, PassTool(t) PROVE Goal
  BY <1>6, <1>7, <1>types DEF PassTool
<1>8. ASSUME NEW t \in Threads, Grant(t) \/ Refuse(t) \/ ReturnRemaining(t) PROVE Goal
  BY <1>6, <1>8, <1>types DEF Grant, Refuse, ReturnRemaining, Return
<1>9. CASE Tick \/ UNCHANGED vars
  BY <1>9, <1>h, <1>keep DEF Tick, vars
<1> QED
  BY <1>1, <1>2, <1>3, <1>4, <1>5, <1>7, <1>8, <1>9 DEF Next, Step

LEMMA DequeStep == TypeOK /\ DequeBounded /\ [Next]_vars => DequeBounded'
<1> SUFFICES ASSUME TypeOK, DequeBounded, [Next]_vars PROVE DequeBounded'
  OBVIOUS
<1>c. \A l \in Limiters : Max[l] \in Nat
  BY ConstantsAssumption
<1>1. ASSUME NEW t \in Threads, PopStale(t) PROVE DequeBounded'
  <2>1. /\ timestamps' = [timestamps EXCEPT ![at[t]] = Tail(@)]
        /\ timestamps[at[t]] \in Seq(Nat) /\ timestamps[at[t]] # <<>> /\ at[t] \in Limiters
    BY <1>1 DEF PopStale, Stale, TypeOK
  <2>2. Len(Tail(timestamps[at[t]])) <= Len(timestamps[at[t]]) /\ Len(Tail(timestamps[at[t]])) \in Nat
    BY <2>1, TailFacts
  <2> QED BY <1>c, <2>1, <2>2 DEF DequeBounded, TypeOK
<1>2. ASSUME NEW t \in Threads, Admit(t) PROVE DequeBounded'
  <2>1. /\ timestamps' = [timestamps EXCEPT ![at[t]] = Append(@, now[t])]
        /\ timestamps[at[t]] \in Seq(Nat) /\ now[t] \in Nat /\ at[t] \in Limiters
        /\ Len(timestamps[at[t]]) < Max[at[t]]
    BY <1>2 DEF Admit, TypeOK
  <2>2. Len(Append(timestamps[at[t]], now[t])) <= Max[at[t]]
    BY <1>c, <2>1, AppendFacts
  <2> QED BY <2>1, <2>2 DEF DequeBounded, TypeOK
<1>3. CASE timestamps' = timestamps
  BY <1>3 DEF DequeBounded
<1>4. \/ timestamps' = timestamps
      \/ \E t \in Threads : PopStale(t) \/ Admit(t)
  BY DEF Next, Step, Check, Remaining, Acquire, ReadClock, PassTool, Grant, Refuse, ReturnRemaining,
         Tick, vars, deques
<1> QED BY <1>1, <1>2, <1>3, <1>4

LEMMA HeldStep ==
  ASSUME TypeOK, LockInv, HolderInv, [Next]_vars, NEW l \in Limiters, lock[l] # None
  PROVE  HeldOn(l)
<1>h. lock[l] \in Threads /\ pc[lock[l]] \in {"read", "decide"} /\ at[lock[l]] = l
  BY DEF TypeOK, HolderInv
<1>n. Len(timestamps[l]) \in Nat /\ HeldSteps(l) \in Nat /\ HeldSteps(l) > 0
  BY DEF TypeOK, HeldSteps
<1>same. ASSUME lock'[l] = lock[l], pc'[lock[l]] = pc[lock[l]], timestamps'[l] = timestamps[l]
         PROVE  HeldOn(l)
  BY <1>same DEF HeldOn, HeldSteps
<1>free. ASSUME lock'[l] = None PROVE HeldOn(l)
  BY <1>n, <1>free DEF HeldOn, HeldSteps
<1>away. ASSUME NEW t \in Threads, at[t] # l \/ pc[t] \notin {"read", "decide"} PROVE lock[l] # t
  BY <1>h, <1>away
<1>1. ASSUME NEW t \in Threads, NEW x \in Tools, Check(t, x) PROVE HeldOn(l)
  BY <1>h, <1>same, <1>1 DEF Check, deques, TypeOK
<1>2. ASSUME NEW t \in Threads, NEW m \in Limiters, Remaining(t, m) PROVE HeldOn(l)
  BY <1>h, <1>same, <1>2 DEF Remaining, deques, TypeOK
<1>3. ASSUME NEW t \in Threads, Acquire(t) PROVE HeldOn(l)
  BY <1>h, <1>same, <1>3 DEF Acquire, deques, TypeOK
<1>4. ASSUME NEW t \in Threads, ReadClock(t) PROVE HeldOn(l)
  <2>1. CASE lock[l] = t
    <3>1. /\ lock'[l] = t /\ timestamps'[l] = timestamps[l] /\ t # None
          /\ pc[t] = "read" /\ pc'[t] = "decide"
      BY <1>4, <2>1 DEF ReadClock, deques, TypeOK
    <3> QED BY <1>n, <2>1, <3>1 DEF HeldOn, HeldSteps
  <2>2. CASE lock[l] # t
    BY <1>h, <1>same, <1>4, <2>2 DEF ReadClock, deques, TypeOK
  <2> QED BY <2>1, <2>2
<1>5. ASSUME NEW t \in Threads, PopStale(t) PROVE HeldOn(l)
  <2>1. CASE at[t] = l
    <3>1. /\ lock[l] = t /\ lock' = lock /\ pc' = pc /\ timestamps'[l] = Tail(timestamps[l])
          /\ timestamps[l] \in Seq(Nat) /\ timestamps[l] # <<>>
      BY <1>5, <2>1 DEF PopStale, Stale, TypeOK, LockInv
    <3>2. Len(timestamps'[l]) = Len(timestamps[l]) - 1
      BY <3>1, TailFacts
    <3>3. pc[t] = "decide" /\ t # None
      BY <1>5, <3>1 DEF PopStale
    <3>4. HeldSteps(l) = Len(timestamps[l]) + 1
      BY <3>1, <3>3 DEF HeldSteps
    <3>5. HeldSteps(l)' = Len(timestamps'[l]) + 1
      BY <3>1, <3>3 DEF HeldSteps
    <3> QED BY <1>n, <3>2, <3>4, <3>5 DEF HeldOn
  <2>2. CASE at[t] # l
    BY <1>same, <1>5, <2>2 DEF PopStale, TypeOK
  <2> QED BY <2>1, <2>2
<1>6. ASSUME NEW t \in Threads, lock' = [lock EXCEPT ![at[t]] = None],
             \A u \in Threads \ {t} : pc'[u] = pc[u],
             \A m \in Limiters \ {at[t]} : timestamps'[m] = timestamps[m]
      PROVE  HeldOn(l)
  <2>1. CASE at[t] = l
    BY <1>free, <1>6, <2>1 DEF TypeOK
  <2>2. CASE at[t] # l
    BY <1>h, <1>same, <1>away, <1>6, <2>2 DEF TypeOK
  <2> QED BY <2>1, <2>2
<1>7. ASSUME NEW t \in Threads, PassTool(t) \/ Grant(t) PROVE HeldOn(l)
  BY <1>6, <1>7 DEF PassTool, Grant, Admit, Return, TypeOK
<1>8. ASSUME NEW t \in Threads, Refuse(t) \/ ReturnRemaining(t) PROVE HeldOn(l)
  BY <1>6, <1>8 DEF Refuse, ReturnRemaining, Return, deques, TypeOK
<1>9. CASE Tick \/ UNCHANGED vars
  BY <1>same, <1>9 DEF Tick, vars, deques
<1> QED
  BY <1>1, <1>2, <1>3, <1>4, <1>5, <1>7, <1>8, <1>9 DEF Next, Step

(* A limiter keeps no more timestamps than it admits in a window, however  *)
(* long the process lives, and whoever takes its lock gives it back after  *)
(* at most Max[l] + 2 steps of its own, undisturbed by the other threads   *)
(* (the deque and the eviction loop of allow and remaining).               *)
THEOREM LockHeldBriefly ==
  Spec => /\ []DequeBounded
          /\ [](\A l \in Limiters : HeldSteps(l) \in 0..(Max[l] + 2))
          /\ [][\A l \in Limiters : lock[l] # None => HeldOn(l)]_vars
<1>1. Init => HolderInv /\ DequeBounded
  BY ConstantsAssumption DEF Init, HolderInv, DequeBounded
<1>2. IInv /\ HolderInv /\ DequeBounded /\ [Next]_vars => HolderInv' /\ DequeBounded'
  BY HolderStep, DequeStep DEF IInv
<1>3. IInv /\ DequeBounded => \A l \in Limiters : HeldSteps(l) \in 0..(Max[l] + 2)
  BY ConstantsAssumption DEF IInv, TypeOK, DequeBounded, HeldSteps
<1>4. IInv /\ HolderInv /\ [Next]_vars => [\A l \in Limiters : lock[l] # None => HeldOn(l)]_vars
  BY HeldStep DEF IInv
<1> QED BY <1>1, <1>2, <1>3, <1>4, Invariance, PTL DEF Spec
==============================================================================
