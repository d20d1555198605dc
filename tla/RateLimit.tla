------------------------------ MODULE RateLimit ------------------------------
(***************************************************************************)
(* The in-process sliding-window rate limiter of spl_bridge/rate_limit.py: *)
(* a RateLimitManager holding one global RateLimiter and one RateLimiter   *)
(* per limited tool, consulted by request threads.  Every RateLimiter is   *)
(* guarded by its own lock, so a check interleaves with other threads      *)
(* between its two limiters, and the clock may advance at any point, also  *)
(* while a lock is held.                                                   *)
(***************************************************************************)
EXTENDS Naturals, Sequences, FiniteSets

CONSTANTS
  Threads,     \* request threads that call RateLimitManager.check
  Tools,       \* tool names
  Limited,     \* the tools with a limiter of their own (set_tool_limit)
  Global,      \* the name of the global limiter
  Max,         \* Max[l]: max_requests of limiter l
  Window,      \* window_seconds, in clock ticks
  MaxClock,    \* bound on the clock
  None         \* no thread, no tool

Limiters == Limited \cup {Global}

ASSUME ConstantsAssumption ==
  /\ IsFiniteSet(Threads)
  /\ Limited \subseteq Tools
  /\ Global \notin Tools
  /\ Max \in [Limiters -> Nat]
  /\ Window \in Nat
  /\ MaxClock \in Nat
  /\ None \notin Threads \cup Tools

VARIABLES
  clock,       \* time.monotonic()
  timestamps,  \* timestamps[l]: the deque of limiter l
  lock,        \* lock[l]: the thread inside limiter l, or None
  pc,          \* where each thread is
  tool,        \* the tool a thread checks; None when idle or in `remaining`
  at,          \* the limiter a thread is consulting
  now,         \* the clock reading a thread took under the lock
  admitted,    \* history: every timestamp limiter l ever appended
  dropped,     \* history: how many of those were popped again
  passed,      \* history: checks that returned True
  granted,     \* history: granted[x]: those of the limited tool x
  burned       \* history: burned[x]: checks of x refused by the global limiter

deques == <<timestamps, admitted, dropped>>
tally  == <<passed, granted, burned>>
vars == <<clock, lock, pc, tool, at, now, deques, tally>>

TypeOK ==
  /\ clock \in Nat
  /\ timestamps \in [Limiters -> Seq(Nat)]
  /\ lock \in [Limiters -> Threads \cup {None}]
  /\ pc \in [Threads -> {"idle", "acquire", "read", "decide"}]
  /\ tool \in [Threads -> Tools \cup {None}]
  /\ at \in [Threads -> Limiters]
  /\ now \in [Threads -> Nat]
  /\ admitted \in [Limiters -> Seq(Nat)]
  /\ dropped \in [Limiters -> Nat]
  /\ passed \in Nat
  /\ granted \in [Limited -> Nat]
  /\ burned \in [Limited -> Nat]
------------------------------------------------------------------------------
(* RateLimiter.__init__, RateLimitManager.__init__ and the set_tool_limit  *)
(* calls of server start-up, all before the first request.                 *)
Init ==
  /\ clock = 0
  /\ timestamps = [l \in Limiters |-> <<>>]
  /\ lock = [l \in Limiters |-> None]
  /\ pc = [t \in Threads |-> "idle"]
  /\ tool = [t \in Threads |-> None]
  /\ at = [t \in Threads |-> Global]
  /\ now = [t \in Threads |-> 0]
  /\ admitted = [l \in Limiters |-> <<>>]
  /\ dropped = [l \in Limiters |-> 0]
  /\ passed = 0
  /\ granted = [x \in Limited |-> 0]
  /\ burned = [x \in Limited |-> 0]

(* Mutants: a miss in _per_tool falls through to a limiter of the tool's   *)
(* name; the tool's own limiter is never consulted.                        *)
FirstLimiterUnchecked(x) == x
FirstLimiterGlobal(x) == Global

(* check consults the tool's own limiter first, if it has one.             *)
FirstLimiter(x) == IF x \in Limited THEN x ELSE Global

Check(t, x) ==
  /\ pc[t] = "idle"
  /\ tool' = [tool EXCEPT ![t] = x]
  /\ at' = [at EXCEPT ![t] = FirstLimiter(x)]
  /\ pc' = [pc EXCEPT ![t] = "acquire"]
  /\ UNCHANGED <<clock, lock, now, deques, tally>>

(* The `remaining` property evicts too, so it is a writer like allow.      *)
Remaining(t, l) ==
  /\ pc[t] = "idle"
  /\ at' = [at EXCEPT ![t] = l]
  /\ pc' = [pc EXCEPT ![t] = "acquire"]
  /\ UNCHANGED <<clock, lock, tool, now, deques, tally>>

(* Mutant: the lock is not waited for.                                     *)
AcquireUnguarded(t) ==
  /\ pc[t] = "acquire"
  /\ lock' = [lock EXCEPT ![at[t]] = t]
  /\ pc' = [pc EXCEPT ![t] = "read"]
  /\ UNCHANGED <<clock, tool, at, now, deques, tally>>

(* with self._lock:                                                        *)
Acquire(t) ==
  /\ pc[t] = "acquire"
  /\ lock[at[t]] = None
  /\ lock' = [lock EXCEPT ![at[t]] = t]
  /\ pc' = [pc EXCEPT ![t] = "read"]
  /\ UNCHANGED <<clock, tool, at, now, deques, tally>>

(* now = time.monotonic(), read after the lock is taken.                   *)
ReadClock(t) ==
  /\ pc[t] = "read"
  /\ now' = [now EXCEPT ![t] = clock]
  /\ pc' = [pc EXCEPT ![t] = "decide"]
  /\ UNCHANGED <<clock, lock, tool, at, deques, tally>>

(* Mutant: a timestamp exactly Window old is popped.                       *)
StaleInclusive(t, l) ==
  /\ timestamps[l] # <<>>
  /\ Head(timestamps[l]) + Window <= now[t]

(* The head of the deque is older than the cutoff now - Window.  Strictly:  *)
(* a timestamp exactly Window old still counts.                            *)
Stale(t, l) ==
  /\ timestamps[l] # <<>>
  /\ Head(timestamps[l]) + Window < now[t]

(* Mutant: the loop looks at the head and never pops it.                   *)
PopStaleSpins(t) ==
  /\ pc[t] = "decide"
  /\ Stale(t, at[t])
  /\ UNCHANGED vars

PopStale(t) ==
  LET l == at[t] IN
  /\ pc[t] = "decide"
  /\ Stale(t, l)
  /\ timestamps' = [timestamps EXCEPT ![l] = Tail(@)]
  /\ dropped' = [dropped EXCEPT ![l] = @ + 1]
  /\ UNCHANGED <<clock, lock, pc, tool, at, now, admitted, tally>>

(* Mutant: the decision does not wait for the eviction loop.               *)
EvictedEarly(t) == pc[t] = "decide"

(* The eviction loop is over.                                              *)
Evicted(t) == pc[t] = "decide" /\ ~Stale(t, at[t])

(* The thread leaves limiter at[t] and the check or the read returns; its  *)
(* locals go out of scope.                                                 *)
Return(t) ==
  /\ lock' = [lock EXCEPT ![at[t]] = None]
  /\ pc' = [pc EXCEPT ![t] = "idle"]
  /\ tool' = [tool EXCEPT ![t] = None]
  /\ at' = [at EXCEPT ![t] = Global]
  /\ now' = [now EXCEPT ![t] = 0]

(* allow returns True after appending its reading ...                      *)
Admit(t) ==
  /\ Evicted(t)
  /\ tool[t] # None
  /\ Len(timestamps[at[t]]) < Max[at[t]]
  /\ timestamps' = [timestamps EXCEPT ![at[t]] = Append(@, now[t])]
  /\ admitted' = [admitted EXCEPT ![at[t]] = Append(@, now[t])]
  /\ UNCHANGED <<clock, dropped>>

(* ... in the tool's limiter, and the check goes on to the global one.     *)
PassTool(t) ==
  /\ at[t] # Global
  /\ Admit(t)
  /\ lock' = [lock EXCEPT ![at[t]] = None]
  /\ at' = [at EXCEPT ![t] = Global]
  /\ pc' = [pc EXCEPT ![t] = "acquire"]
  /\ now' = [now EXCEPT ![t] = 0]
  /\ UNCHANGED <<tool, tally>>

(* ... or in the global limiter, and the check returns True.               *)
Grant(t) ==
  /\ at[t] = Global
  /\ Admit(t)
  /\ Return(t)
  /\ passed' = passed + 1
  /\ granted' = [x \in Limited |-> IF x = tool[t] THEN granted[x] + 1 ELSE granted[x]]
  /\ UNCHANGED burned

(* allow returns False, and so does the check.  When it is the global      *)
(* limiter that refuses, the tool's own slot stays spent.                  *)
Refuse(t) ==
  LET l == at[t] IN
  /\ Evicted(t)
  /\ tool[t] # None
  /\ Len(timestamps[l]) >= Max[l]
  /\ Return(t)
  /\ burned' = [x \in Limited |-> IF l = Global /\ x = tool[t]
                                  THEN burned[x] + 1 ELSE burned[x]]
  /\ UNCHANGED <<clock, deques, passed, granted>>

(* `remaining` returns max(0, max - len) and changes nothing more.         *)
ReturnRemaining(t) ==
  /\ Evicted(t)
  /\ tool[t] = None
  /\ Return(t)
  /\ UNCHANGED <<clock, deques, tally>>

Tick ==
  /\ clock < MaxClock
  /\ clock' = clock + 1
  /\ UNCHANGED <<lock, pc, tool, at, now, deques, tally>>

Step(t) ==
  \/ Acquire(t)
  \/ ReadClock(t)
  \/ PopStale(t)
  \/ PassTool(t)
  \/ Grant(t)
  \/ Refuse(t)
  \/ ReturnRemaining(t)

Next ==
  \/ \E t \in Threads, x \in Tools : Check(t, x)
  \/ \E t \in Threads, l \in Limiters : Remaining(t, l)
  \/ \E t \in Threads : Step(t)
  \/ Tick

Spec == Init /\ [][Next]_vars

(* A thread that is inside rate_limit.py keeps running; nothing is assumed *)
(* of new calls, of the clock, or of the order in which a lock is handed   *)
(* to its waiters.                                                         *)
Fairness == \A t \in Threads : WF_vars(Step(t))

FairSpec == Spec /\ Fairness
------------------------------------------------------------------------------
(* Safety: the promise of a sliding window.  Of any Max[l] + 1 admissions   *)
(* of limiter l, in the order they were made, the first and the last lie   *)
(* more than Window apart, whatever the threads do between lock regions    *)
(* (RateLimiter.allow, with `remaining` evicting behind its back).         *)
WindowBound ==
  \A l \in Limiters : \A i \in 1..Len(admitted[l]) :
    i + Max[l] <= Len(admitted[l])
      => admitted[l][i] + Window < admitted[l][i + Max[l]]

(* Safety: a refusal is never premature.  When a limiter refuses a check,  *)
(* its last Max[l] admissions all lie within Window of the reading the     *)
(* refusal is based on (RateLimiter.allow returning False).                *)
RefusedFor(t, l) ==
  /\ at[t] = l /\ pc[t] = "decide" /\ tool[t] # None
  /\ pc'[t] = "idle" /\ admitted' = admitted

RefusalJustified ==
  [][\A t \in Threads, l \in Limiters :
       RefusedFor(t, l) =>
         /\ Len(admitted[l]) >= Max[l]
         /\ \A i \in 1..Len(admitted[l]) :
              i + Max[l] > Len(admitted[l]) => now[t] <= admitted[l][i] + Window]_vars

(* Safety: where budget goes.  The global limiter is charged once for every *)
(* check that is granted and for nothing else, so a per-tool refusal costs  *)
(* no global budget (the R1 fix in RateLimitManager.check); a tool's own    *)
(* budget is charged for each of its checks that passed it: the granted     *)
(* ones, those under way to the global limiter and those it refused.        *)
BetweenLimiters(x) == {t \in Threads : tool[t] = x /\ at[t] = Global}

BudgetConservation ==
  /\ Len(admitted[Global]) = passed
  /\ \A x \in Limited :
       Len(admitted[x]) = granted[x] + burned[x] + Cardinality(BetweenLimiters(x))

(* Refinement: seen from outside, threads, locks and eviction vanish and    *)
(* each limiter is the log of admissions of SlidingWindow.                 *)
SW == INSTANCE SlidingWindow WITH time <- clock, log <- admitted

Implements == SW!Spec

(* Liveness: a limiter's lock is always given back, although the eviction  *)
(* loop runs under it and threads hold locks of two limiters in turn.      *)
LockReleased ==
  \A l \in Limiters : lock[l] # None ~> lock[l] = None
==============================================================================
