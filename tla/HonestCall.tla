----------------------------- MODULE HonestCall -----------------------------
(***************************************************************************)
(* What one tool call promises its caller, with no stages, no agenda and   *)
(* no client: it watches Splunk for a while, then gives one answer for     *)
(* good.  It runs at most one search, in the step in which it answers, one *)
(* that the request permits, and the answer is true of that search.        *)
(***************************************************************************)
EXTENDS Integers

CONSTANTS
  Requests,     \* what a caller may ask for: kind, limit, app, bounded
  Apps,         \* apps a saved search may be in
  Queries,      \* SPL texts that run allowed commands only, at every depth
  MaxRows,      \* most rows a result may have, except where ...
  DefaultRows,  \* ... this limit, above it, holds in place of a missing one
  None

VARIABLES
  request,    \* what was asked
  vetted,     \* apps where the saved search was enabled at some time so far
  searches,   \* what Splunk ran: nothing, or one search
  status,     \* "none" while the call is under way
  answers     \* the result, if there is one

Init ==
  /\ request \in Requests
  /\ vetted = {}
  /\ searches = {}
  /\ status = "none"
  /\ answers = {}

Watch ==
  /\ status = "none"
  /\ vetted' \in SUBSET Apps /\ vetted \subseteq vetted'
  /\ UNCHANGED <<request, searches, status, answers>>

(* Nothing was run.                                                        *)
Decline ==
  /\ status = "none"
  /\ status' \in {"refused", "escaped"}
  /\ UNCHANGED <<request, vetted, searches, answers>>

(* A saved search runs in the app that was named, or else in one where it  *)
(* was found, and enabled; a query is safe; and only a query that gives no *)
(* bound of its own is narrowed to the default window.                     *)
Permitted(s) ==
  /\ request.kind = "saved" => s.app \in vetted /\ request.app \in {None, s.app}
  /\ request.kind = "query" => s.text \in Queries
  /\ s.narrowed => request.kind = "query" /\ ~request.bounded

(* A default limit above the maximum is not lowered to it.  It may hold    *)
(* where the request gives no limit, or one a maximum of 0 makes 0; then a *)
(* result may have one row too many, and calls its total approximate.      *)
Exceeds(a) ==
  /\ DefaultRows > MaxRows /\ (request.limit \in {None, 0} \/ MaxRows = 0)
  /\ a.rows = MaxRows + 1 /\ a.approx

(* The result never exceeds what was asked for, nor what is allowed except *)
(* as above, and says what narrowed the search.  What it says of its       *)
(* completeness, except in that case, and of the total is so, unless it    *)
(* warns of an error or rows were lost in the stream.                      *)
Honest(a, s) ==
  /\ a.narrowed = s.narrowed
  /\ a.rows <= a.total
  /\ a.rows <= MaxRows \/ Exceeds(a)
  /\ request.limit # None /\ request.limit > 0 => a.rows <= request.limit
  /\ s.whole /\ ~a.warned =>
       /\ ~a.truncated => a.rows = s.rows \/ Exceeds(a)
       /\ IF a.approx THEN s.rows > MaxRows ELSE a.total = s.rows

Run(s) ==
  /\ status = "none"
  /\ Permitted(s)
  /\ searches = {} /\ searches' = {s}
  /\ UNCHANGED <<request, vetted>>

Answer(s, a) ==
  /\ Run(s)
  /\ Honest(a, s)
  /\ status' = "answered"
  /\ answers' = {a}

(* The search ran, and its result is not to be had.                        *)
Fail(s) ==
  /\ Run(s)
  /\ status' = "refused"
  /\ UNCHANGED answers

Next ==
  \/ Watch \/ Decline
  \/ \E s \in searches' : Fail(s) \/ \E a \in answers' : Answer(s, a)

Spec == Init /\ [][Next]_<<request, vetted, searches, status, answers>>
=============================================================================
