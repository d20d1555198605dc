------------------------------ MODULE ToolCall ------------------------------
(***************************************************************************)
(* _execute_tool of spl_bridge/server.py: one tool call from its request   *)
(* to its reply, against a Splunk whose saved searches an administrator    *)
(* may edit meanwhile.  Calls share only the rate limiter and the client,  *)
(* which RateLimit and SplunkClient model; what those answer is any of     *)
(* their answers here.                                                     *)
(***************************************************************************)
EXTENDS RowLimits, SplSafety

CONSTANTS
  Apps,           \* apps that may hold the saved search the call names
  RequireCaps,    \* config.require_capabilities
  DefaultWindow,  \* config.default_earliest_time is set
  RowLimitArgs,   \* row_limit arguments, None when omitted
  RowCounts       \* rows the search has on Splunk

ASSUME CallAssumption ==
  /\ None \notin Apps
  /\ RequireCaps \in BOOLEAN /\ DefaultWindow \in BOOLEAN
  /\ RowLimitArgs \subseteq Int \cup {None}
  /\ RowCounts \subseteq Nat

(* The tools of builtin_tools.json, up to what the path tells apart.       *)
Kinds == {"query", "saved", "metadata", "list", "info"}
RowLimiter(kind)  == kind # "info"
TakesLimit(kind)  == kind \in {"query", "metadata"}
SkipsSafety(kind) == kind # "query"     \* exclude_tools of safe_spl.json

(* What the registered functions pass on; bounded: an earliest or a latest *)
(* time was given.  A tool without the parameter never passes it.          *)
CallArgs ==
  {a \in [kind : Kinds, limit : RowLimitArgs \cup {None}, app : Apps \cup {None},
          bounded : BOOLEAN] :
     /\ a.limit # None => TakesLimit(a.kind)
     /\ a.app # None => a.kind = "saved"
     /\ a.bounded => a.kind \in {"query", "saved", "metadata"}}

States == {"absent", "enabled", "disabled"}

VARIABLES
  pc,          \* where the call is
  args,        \* the tool and its arguments
  app,         \* arguments["app"], as the call rewrites it
  limit,       \* effective_limit
  window,      \* applied_default_window
  text,        \* normalized, the SPL of an ad-hoc query
  agenda,      \* check_spl_safe: the texts and commands it still has to see
  parsed,      \* history: texts the parser has read for the check
  dispatched,  \* history: app and window of the search Splunk ran
  available,   \* history: rows that search has
  answer,      \* what export_search returned
  disclosed,   \* the result has a time_window field
  lost,        \* history: rows went missing on the way without an error
  outcome,     \* how the call ends
  catalogue,   \* Splunk's side: the saved search in each app
  seen         \* history: apps where it was enabled at some time in the call

runVars   == <<dispatched, available, answer, disclosed, lost>>
checkVars == <<text, agenda, parsed>>
callVars  == <<args, app, limit, window, checkVars, runVars>>
worldVars == <<catalogue, seen>>
vars == <<pc, callVars, outcome, worldVars>>

NoAnswer == [rows |-> 0, truncated |-> FALSE, total |-> 0, approx |-> FALSE,
             warned |-> FALSE]
NoSearch == [sent |-> FALSE, app |-> None, window |-> FALSE]

TypeOK ==
  /\ pc \in {"new", "gate", "payload", "limiter", "validate", "lookup", "build",
             "safety", "export", "done"}
  /\ args \in CallArgs
  /\ app \in Apps \cup {None}
  /\ limit \in Int
  /\ window \in BOOLEAN
  /\ text \in Texts \cup {None}
  /\ agenda \in Seq(Texts \cup Commands)
  /\ parsed \subseteq Texts
  /\ dispatched \in [sent : BOOLEAN, app : Apps \cup {None}, window : BOOLEAN]
  /\ available \in Nat
  /\ answer \in [rows : Nat, truncated : BOOLEAN, total : Nat, approx : BOOLEAN,
                 warned : BOOLEAN]
  /\ disclosed \in BOOLEAN /\ lost \in BOOLEAN
  /\ outcome \in {"none", "refused", "escaped", "answered"}
  /\ catalogue \in [Apps -> States]
  /\ seen \subseteq Apps

Enabled(cat) == {a \in Apps : cat[a] = "enabled"}

Init ==
  /\ pc = "new"
  /\ args \in CallArgs
  /\ app = args.app
  /\ limit = 0
  /\ window = FALSE
  /\ text = None /\ agenda = <<>> /\ parsed = {}
  /\ dispatched = NoSearch
  /\ available = 0
  /\ answer = NoAnswer
  /\ disclosed = FALSE /\ lost = FALSE
  /\ outcome = "none"
  /\ catalogue \in [Apps -> States]
  /\ seen = {}
-----------------------------------------------------------------------------
(* The call leaves _execute_tool with a ToolExecutionError ...             *)
Refuse ==
  /\ pc' = "done"
  /\ outcome' = "refused"
  /\ UNCHANGED <<callVars, worldVars>>

(* ... or with the exception the client raised.                            *)
Escape ==
  /\ pc' = "done"
  /\ outcome' = "escaped"
  /\ UNCHANGED <<callVars, worldVars>>

Proceed(from, to) ==
  /\ pc = from
  /\ pc' = to
  /\ UNCHANGED <<callVars, outcome, worldVars>>

Start ==
  /\ pc = "new"
  /\ pc' = IF RequireCaps THEN "gate" ELSE "payload"
  /\ seen' = Enabled(catalogue)
  /\ UNCHANGED <<callVars, outcome, catalogue>>

(* ensure_capabilities_verified: passes, denies, or raises outside the try *)
(* block that classifies exceptions.                                       *)
Gate ==
  \/ Proceed("gate", "payload")
  \/ pc = "gate" /\ Refuse
  \/ pc = "gate" /\ Escape

(* The refusals ahead of any request to Splunk: size and nesting of the    *)
(* arguments, the rate limiter, the schema.                                *)
CheckPayload == Proceed("payload", "limiter") \/ (pc = "payload" /\ Refuse)

CheckRate == Proceed("limiter", "validate") \/ (pc = "limiter" /\ Refuse)

Validate ==
  \/ Proceed("validate", IF args.kind = "saved" THEN "lookup" ELSE "build")
  \/ pc = "validate" /\ Refuse
-----------------------------------------------------------------------------
(* Mutant: the resolved app does not reach the arguments.                  *)
LookupFoundKeepsApp ==
  /\ pc = "lookup"
  /\ \E a \in Enabled(catalogue) : args.app \in {None, a}
  /\ pc' = "build"
  /\ UNCHANGED <<callVars, outcome, worldVars>>

(* is_saved_search_disabled.  Splunk answers with an entry the namespace   *)
(* sees, which is one of any app that holds the search, and the entry is   *)
(* enabled there; an omitted app becomes the entry's.                      *)
LookupFound ==
  /\ pc = "lookup"
  /\ \E a \in Enabled(catalogue) :
       /\ args.app \in {None, a}
       /\ app' = a
  /\ pc' = "build"
  /\ UNCHANGED <<args, limit, window, checkVars, runVars, outcome, worldVars>>

(* Not found, disabled, in an app other than the one asked for, an entry   *)
(* or an answer it cannot use, a status other than 200, or an exception.   *)
LookupFails == pc = "lookup" /\ Refuse
-----------------------------------------------------------------------------
(* check_spl_safe is called on the normalized query of any tool but the    *)
(* excluded ones.                                                          *)
Submit ==
  IF SkipsSafety(args.kind) THEN pc' = "export" /\ UNCHANGED checkVars
  ELSE /\ pc' = "safety"
       /\ \E t \in Texts : text' = t /\ agenda' = <<t>>
       /\ UNCHANGED parsed

(* Mutant: a query with a time bound gets the default window too.          *)
BuildWindowAlways ==
  /\ pc = "build"
  /\ limit' = EffectiveLimit(BuildLimit(RowLimiter(args.kind), args.limit))
  /\ window' = (args.kind = "query" /\ DefaultWindow)
  /\ Submit
  /\ UNCHANGED <<args, app, runVars, outcome, worldVars>>

(* build_spl, the default time window, the effective row limit and         *)
(* normalize_search_command; excluded tools skip the safety check.         *)
Build ==
  /\ pc = "build"
  /\ limit' = EffectiveLimit(BuildLimit(RowLimiter(args.kind), args.limit))
  /\ window' = (args.kind = "query" /\ ~args.bounded /\ DefaultWindow)
  /\ Submit
  /\ UNCHANGED <<args, app, runVars, outcome, worldVars>>

(* ValueError from build_spl, or an SPL of blanks.                         *)
BuildFails == pc = "build" /\ Refuse

(* validate: the parser lists the commands of the text that is due, and    *)
(* they are looked at before anything that was due after it.               *)
ParseText ==
  /\ pc = "safety" /\ agenda # <<>> /\ Head(agenda) \in Texts
  /\ agenda' = Parse[Head(agenda)] \o Tail(agenda)
  /\ parsed' = parsed \cup {Head(agenda)}
  /\ UNCHANGED <<pc, args, app, limit, window, text, runVars, outcome, worldVars>>

(* A status other than 200, an answer it cannot use or an exception, the   *)
(* ones the handler of _execute_tool classifies included.                  *)
ParseFails == pc = "safety" /\ agenda # <<>> /\ Head(agenda) \in Texts /\ Refuse

(* A command passes by its name; its subsearches are due next.             *)
PassCommand ==
  /\ pc = "safety" /\ agenda # <<>> /\ Head(agenda) \in Commands
  /\ ~Forbidden(Head(agenda))
  /\ agenda' = Subsearches(Head(agenda)) \o Tail(agenda)
  /\ UNCHANGED <<pc, args, app, limit, window, text, parsed, runVars, outcome, worldVars>>

(* One forbidden command, at any depth, refuses the call.                  *)
BlockCommand ==
  /\ pc = "safety" /\ agenda # <<>> /\ Head(agenda) \in Commands
  /\ Forbidden(Head(agenda))
  /\ Refuse

FoundSafe == agenda = <<>> /\ Proceed("safety", "export")
-----------------------------------------------------------------------------
(* The POST to search/jobs/export runs a search with n rows.               *)
Dispatch(n) ==
  /\ available' = n
  /\ dispatched' = [sent |-> TRUE, app |-> app, window |-> window]

(* Rows convert_ndjson_to_dict can find in the stream of a search with n:  *)
(* fewer than were streamed when Splunk reports an error alongside them or *)
(* when a line does not parse, which is dropped and not counted.           *)
Parsed(n) == 0..Streamed(n)

(* A 200 whose k rows reach the results; errors without a row are a        *)
(* failure.                                                                *)
ExportAnswers ==
  /\ pc = "export"
  /\ \E n \in RowCounts : \E k \in Parsed(n), warned \in BOOLEAN :
       /\ warned => k > 0
       /\ Dispatch(n)
       /\ answer' = Report(k, limit, warned)
       /\ lost' = (k < Streamed(n) /\ ~warned)
  /\ disclosed' = window
  /\ outcome' = "answered"
  /\ pc' = "done"
  /\ UNCHANGED <<args, app, limit, window, checkVars, worldVars>>

(* The search may have run, but the call has no result: a status other     *)
(* than 200 (synthetic ones for a body over the cap or cut short included),*)
(* errors and no row, or an exception.                                     *)
ExportFails ==
  /\ pc = "export"
  /\ \E n \in RowCounts : Dispatch(n)
  /\ outcome' = "refused"
  /\ pc' = "done"
  /\ UNCHANGED <<args, app, limit, window, checkVars, answer, disclosed, lost, worldVars>>

(* An administrator creates, deletes, enables or disables the saved search *)
(* in some app.                                                            *)
Administer ==
  /\ pc \notin {"new", "done"}
  /\ \E a \in Apps, s \in States :
       /\ catalogue' = [catalogue EXCEPT ![a] = s]
       /\ seen' = seen \cup Enabled(catalogue')
  /\ UNCHANGED <<pc, callVars, outcome>>

Quiet == pc = "done" /\ UNCHANGED vars

Next ==
  \/ Start \/ Gate \/ CheckPayload \/ CheckRate \/ Validate
  \/ LookupFound \/ LookupFails
  \/ Build \/ BuildFails
  \/ ParseText \/ ParseFails \/ PassCommand \/ BlockCommand \/ FoundSafe
  \/ ExportAnswers \/ ExportFails
  \/ Administer \/ Quiet

Spec == Init /\ [][Next]_vars
-----------------------------------------------------------------------------
(* Safety: a result that says neither "truncated" nor "warnings" has every *)
(* row of the search, whatever row_limit the caller gave, negative ones    *)
(* included (build_spl, normalize_search_command and export_search         *)
(* together).  The one exception is a default limit above the maximum,     *)
(* which nothing lowers: then only approx_total tells.  Rows lost to lines *)
(* that do not parse are out of its reach: the code reports them nowhere.  *)
Complete == outcome = "answered" /\ ~answer.warned /\ ~lost

NoSilentTruncation ==
  Complete /\ ~answer.truncated =>
    \/ answer.rows = available
    \/ limit = DefaultRows /\ DefaultRows > MaxRows /\ answer.approx

(* Safety: total_rows is the number of rows of the search, and a total the *)
(* head cut off is never given as exact (export_search's approx_total).    *)
HonestTotals ==
  Complete => IF answer.approx THEN available > MaxRows ELSE answer.total = available

(* Safety: a saved search runs in the app the check resolved, which is the *)
(* one the caller named if it named one, and it was enabled there at some  *)
(* moment of the call, although the dispatch is a request of its own.      *)
SavedSearchVetted ==
  dispatched.sent /\ args.kind = "saved" =>
    /\ dispatched.app \in seen
    /\ args.app \in {None, dispatched.app}

(* Safety: a query is sent to Splunk only if each of its commands is on    *)
(* the allowlist, and so is each command of every subsearch the scans cut  *)
(* out, at any depth and wherever it stands among others: the recursion of *)
(* check_spl_safe comes back to what was due after a subsearch.            *)
OnlySafeCommands ==
  dispatched.sent /\ ~SkipsSafety(args.kind) =>
    \A t \in Reachable(text) : \A i \in DOMAIN Parse[t] : ~Forbidden(Parse[t][i])

(* The search Splunk ran and the result it was turned into, and texts that *)
(* hold no forbidden command at any depth.                                 *)
Ran ==
  IF dispatched.sent
  THEN {[app |-> dispatched.app, narrowed |-> dispatched.window, text |-> text,
         rows |-> available, whole |-> ~lost]}
  ELSE {}

Given ==
  IF outcome = "answered"
  THEN {[rows |-> answer.rows, truncated |-> answer.truncated, total |-> answer.total,
         approx |-> answer.approx, warned |-> answer.warned, narrowed |-> disclosed]}
  ELSE {}

SafeTexts ==
  {t \in Texts : \A u \in Reachable(t) : \A i \in DOMAIN Parse[u] : ~Forbidden(Parse[u][i])}

(* Refinement: through all its stages and early exits a call does what     *)
(* HonestCall says: it sends one search at most, one the request permits,  *)
(* never after it was refused, and gives one result, true of that search,  *)
(* which discloses the default window and stays within what the caller and *)
(* the configuration allow, a default limit above the maximum excepted.    *)
HC == INSTANCE HonestCall WITH
        Requests <- CallArgs, Queries <- SafeTexts, request <- args, vetted <- seen,
        searches <- Ran, status <- outcome, answers <- Given

Implements == HC!Spec

(* Safety: the check blames a command only if it is off the allowlist and  *)
(* does run in the query or in a subsearch of it.  A text in brackets that *)
(* only looks like a subsearch, the argument of a command that nests none, *)
(* does not refuse a query (sub_search_arg_cmd in check_spl_safe).         *)
BlockJustified ==
  outcome = "refused" /\ agenda # <<>> /\ Head(agenda) \in Commands =>
    /\ Forbidden(Head(agenda))
    /\ \E t \in Reachable(text) : Head(agenda) \in Range(Parse[t])

(* _execute_tool: "Raises ToolExecutionError on failures so FastMCP sets   *)
(* isError=True."                                                          *)
FailuresClassified == outcome # "escaped"
=============================================================================
