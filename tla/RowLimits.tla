------------------------------ MODULE RowLimits ------------------------------
(***************************************************************************)
(* The row arithmetic of a tool call: the limit build_spl derives from the *)
(* caller's row_limit, the `| head` normalize_search_command appends, and  *)
(* the slice and the totals export_search reports.                         *)
(***************************************************************************)
EXTENDS Integers

CONSTANTS
  MaxRows,       \* config.max_row_limit
  DefaultRows,   \* config.default_row_limit
  None

ASSUME RowAssumption ==
  /\ MaxRows \in Nat
  /\ DefaultRows \in Int
  /\ None \notin Int

(* Mutant: the caller's row_limit is not capped.                           *)
BuildLimitUncapped(limiter, raw) ==
  IF ~limiter THEN None
  ELSE IF raw = None THEN DefaultRows
  ELSE raw

(* build_spl: None for a tool without a row limiter, else the caller's     *)
(* limit capped at the maximum, or the default as it is.                   *)
BuildLimit(limiter, raw) ==
  IF ~limiter THEN None
  ELSE IF raw = None THEN DefaultRows
  ELSE IF raw < MaxRows THEN raw ELSE MaxRows

(* `row_limit if row_limit else config.default_row_limit`: 0 counts as     *)
(* absent.                                                                 *)
EffectiveLimit(limit) == IF limit \in {None, 0} THEN DefaultRows ELSE limit

(* Mutant: the head keeps no row to tell "all" from "more".                *)
StreamedExactly(n) == IF n < MaxRows THEN n ELSE MaxRows

(* Rows Splunk streams of a search with n: `| head {max_row_limit + 1}`.   *)
Streamed(n) == IF n <= MaxRows THEN n ELSE MaxRows + 1

(* Mutant: a negative limit longer than the list leaves a negative length. *)
SlicedUnclamped(length, limit) ==
  IF limit >= 0 THEN IF length < limit THEN length ELSE limit
  ELSE length + limit

(* Length of results[:limit] for a list of that many: a negative limit     *)
(* drops rows from the end.                                                *)
Sliced(length, limit) ==
  IF limit >= 0 THEN IF length < limit THEN length ELSE limit
  ELSE IF length + limit > 0 THEN length + limit ELSE 0

(* What export_search returns once `length` rows were parsed; approx is    *)
(* approx_total "<max>+" in place of total_rows.                           *)
Report(length, limit, warned) ==
  [rows |-> Sliced(length, limit),
   truncated |-> length > limit,
   total |-> length,
   approx |-> length = MaxRows + 1,
   warned |-> warned]
=============================================================================
