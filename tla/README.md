# A verification project for spl-bridge

spl-bridge is an MCP server that lets an AI host run searches on Splunk, with an
interactive wizard that stores the credentials and registers the server. This directory
holds TLA+ models of its core, TLC runs over small instances, and theorems checked by
TLAPS. Paths such as `server.py:247` are relative to `src/spl_bridge/`.

Contents: [the system](#the-system) · [hard behaviours](#hard-behaviours) ·
[modules](#modules) · [runs](#runs) · [fairness](#fairness) · [proofs](#proofs) ·
[disagreements found](#disagreements-found) · [not modelled](#not-modelled) ·
[plan](#plan)

## The system

| Part | Source | State it keeps | Operations | What makes it correct |
|---|---|---|---|---|
| Rate limiter | `rate_limit.py` | one deque of timestamps and one lock per limiter (a global one, one per limited tool) | `check`, `allow`, `remaining`, `set_tool_limit` at start-up | never more than the maximum in a window; no premature refusal; budget charged to the right limiter |
| Authentication | `auth.py` | process-global session key and user name, one lock; `config.password`, cleared by the first login | `get_auth_header`, `login_with_password`, `invalidate_session` | one login per configuration; no key sent for another user |
| Splunk client | `splunk_client.py` | `_token_invalid_logged`, `_capability_verified`, `_capabilities_checked`, `_cap_lock` | `call_api`, `_do_request`, `ensure_capabilities_verified`, `check_capabilities`, `export_search`, `check_spl_safe`, `is_saved_search_disabled` | the gate fails closed; retries as documented; results honest about what they leave out |
| Tool execution | `server.py`, `tool_registry.py` | nothing of its own per call: it uses the limiter and the client | `_execute_tool` → gate, payload check, rate limit, validation, saved-search check, `build_spl`, default window, safety check, export | refusals happen before a search is dispatched; every failure becomes a `ToolExecutionError` |
| Configuration | `config.py` | immutable settings, except the password | `from_env`, `_resolve_secret`, `auth_mode` | the secrets in use are those the user gave last |
| Credential store | `setup_wizard/credstore.py` | the OS keyring; a `credentials` file of mode 0600 | `store`, `get`, `delete`, `_atomic_write`, `open_secret_file`, `select_backend` | a crash never leaves a partial file; what was stored the server reads |
| Setup wizard | `setup_wizard/__init__.py`, `splunk_probe.py` | one run's answers | collect → probe (retry menu) → store secrets → settle the server name → write the host's configuration | what it registers starts, with credentials; every menu ends |
| Host writers | `setup_wizard/mcp_clients.py` | the configuration files of MCP hosts and their backups | `inspect_existing`, `write` with `_read_existing`, `_backup`, `_merge_mcp_servers`; the `claude` program with its timeouts | other entries survive; nothing goes unasked; "users always have a way back" |
| Doctor | `doctor.py` | none | checks of the environment and of Splunk; `run_host_scan` over the hosts' files | it warns of what is malformed, and of what will not start |
| Smoke test | `../scripts/smoketest_wizard.py` | a snapshot of the user's real configuration | snapshot, drive a wizard by a script, inspect, restore, sweep | the machine is as it was |
| Logging, CLI, prompts, prerequisites, other scripts | `logging_config.py`, `cli.py`, `setup_wizard/ui.py`, `prereqs.py`, `../scripts/` | none the models read | | |

How they interact. A tool call runs `_execute_tool` in a thread; calls share the
`RateLimitManager`, one `SplunkClient` and, through it, the session cache of `auth.py`.
The comment in `auth.py` (lines 18-22) and `tests/test_auth_concurrency.py` claim safety
under concurrent threads, so the models have them overlap, whatever a given version of the
MCP library does. The capability gate holds `_cap_lock` while it goes through `call_api`,
which takes `_session_lock`, which is held across the login POST. The wizard's probe uses
the same `SplunkClient` and the same process-global cache, one configuration after the
other. The wizard and the server share the two credential backends and the host's
configuration file, and nothing else: secrets are stored per kind of secret, not per
registered server. The host's file has more writers than the wizard: the host itself, an
editor, the `claude` program the wizard starts, other runs and the smoke test. The dotfile of
credentials is read by two parsers, the store's own and the server's.

## Hard behaviours

`PROJECT.json` lists each at its line under `hazards`. They fall into these groups.

* **Threads between two locks or around a flag.** A rate check takes two limiters' locks in
  turn; threads race to the first login; a 401 for an old key arrives after a new one was
  obtained; `_token_invalid_logged` is tested and set without a lock.
* **State that changes between a read and its use.** `auth_mode` is recomputed after the
  login cleared the password; the cached session outlives the configuration that filled it;
  a saved search is checked in one request and dispatched in another.
* **Order inside one call.** The safety check recurses into subsearches and has to come back to
  what was due after them; refusals come before anything is dispatched.
* **Boundaries.** A timestamp exactly one window old; `row_limit` 0, negative, above the
  maximum; a default limit above the maximum; exactly `maximum + 1` rows in a stream.
* **Partial failure.** The gate raises outside the block that classifies exceptions; a
  wizard run ends between two stores, or between the stores and the registration.
* **Crashes.** A kill, an error or a power cut between the steps of `_atomic_write`.
* **Shadowing.** The keyring hides the dotfile and a token hides a password, across runs.
* **Two programs on one file.** The host's configuration is read, merged and replaced with no
  lock; backups are named by the second; the `claude` program may hang, and may write after
  it was given up on; the smoke test saves and puts back the same file.
* **Two readers of one file.** The dotfile's two parsers count a repeated key differently and
  split a value at separators the store lets through, where the rest may be a line of another
  key.
* **Ending.** Locks held across requests; menus that send the user back; timeouts.

## Modules

Each module keeps the names of the code. An action stands for the code between two points
where another actor may intervene: lock operations, requests, system calls, prompts.
Variables marked *history* in a module exist for properties only and guard nothing.
Definitions marked *Mutant* are plausible bugs; nothing in a specification uses them.

| Module | Models | State ↔ code | Actions ↔ code |
|---|---|---|---|
| `RateLimit` | `rate_limit.py` with threads and a clock | `timestamps[l]` deque, `lock[l]`, `at`/`tool`/`now` the locals of a thread | `Check`, `Remaining` enter; `Acquire`, `ReadClock`, `PopStale` (one iteration of the eviction loop) and `PassTool`/`Grant`/`Refuse`/`ReturnRemaining` are `allow`, `check` and `remaining`; `Tick` is time, which may pass under a lock |
| `SlidingWindow` | the promise of a limiter: a log of admissions | | `Admission`, `Advance` |
| `SplunkAuth` | `auth.py` | `sessionKey`, `sessionUser` = `_session_state`; `sessionLock`; `hasPassword` = configurations whose password is not cleared; `live` = what Splunk accepts | `EnterSession`, `UseCached`, `LoginOk`, `LoginFails`, `InvalidateSession`, `Expire` |
| `SplunkClient` (extends `SplunkAuth`) | `call_api`, the outcomes of `_do_request`, the capability gate | `capLock`, `capVerified`, `capChecked`, `tokenLogged` | gate, header, request, the three reactions to 401/403, the answer |
| `SingleSession` | password mode in a one-configuration process | | `Login`, `Use`, `Forget` |
| `RowLimits` | the row arithmetic of `build_spl`, `normalize_search_command` and `export_search` | | operators |
| `SplSafety` | the allowlist and the nesting of `check_spl_safe` | | operators |
| `HonestCall` | the promise of a tool call: it watches Splunk, then declines, or runs one search the request permits and answers truly of it; no stages, no agenda, no client | | `Watch`, `Decline`, `Answer`, `Fail` |
| `ToolCall` (extends `RowLimits`, `SplSafety`) | `_execute_tool` with `check_spl_safe`, and an administrator editing saved searches | `args`, `app`, `limit`, `window`, `text` = locals; `agenda` = what the nested calls and loops of `validate` still have to see; `catalogue` = Splunk | one action per stage, in the order of the code, with every early exit; in the safety check one per request to the parser and per command |
| `KeyStore` | the promise of the credentials file: snapshot, then one atomic change of one key, with no lines and no disk | `now` = the map and whether its readers see it | `Snapshot`, `Commit`, `GiveUp`, `Settle`, `PowerCut`, `Show` |
| `DotFile` | `DotfileStore.store`/`delete` over `_atomic_write` and `open_secret_file`, and the reader of the server | `file` = what the path names: the first and the last line of each key and whether it is small enough to be read; `disk` = what a power cut leaves; `temp[w]` | `Begin` is the reading, then one action per system call, `Stops` (error or kill), `PowerCut`, `ChangeMode`; `Visible` = `_read_all`, `Served` = `_try_user_dotfile`; `Formatted` = `_write_all` and the lines `str.splitlines` makes of what it wrote, key after key in sorted order |
| `Wizard` | `main` of the wizard run after run, the two backends, and a server that looks its secrets up meanwhile | `store[b][s]`: the run whose secret `s` backend `b` holds; `entries[n]`: who registered name `n` | one action per step or menu choice; `Leave` for every early end; `StartServer`, `ReadSecret`, `CheckConfig` = `from_env` |
| `HostConfig` | the host's JSON file up to what its readers tell apart, `_read_existing`, `inspect_existing`, `_merge_mcp_servers` | | operators |
| `McpClients` (extends `HostConfig`) | runs of the wizard that register a server: `_resolve_server_name` and the writers, with the `claude` program and others that edit the file | `file`, `backups[s]` = the copy of second `s`; `name`, `shown`, `seen` = a run's locals; `child[w]` = the program it started | one action per read, copy and replacement of the file, prompt and outcome of the program; `Cut`, `Orphaned`, `OthersEdit`, `Tick` |
| `HostFiles` (extends `McpClients`) | the composition with the smoke test, which drives one of the runs | `hpc`, `snapshot` | `Snapshot`, `Inspect`, `Restore`, `Sweep`, `TestKilled` |

`MC*` modules give the constants values; `*Proofs` modules hold the theorems.

Abstractions that matter:

* A secret is represented by the number of the run that stored it, a session key by a model
  value, a search by its number of rows. What schema validation and the
  probe decide is either outcome. An SPL text is a model value: `Parse` is Splunk's parser, and
  a command comes with the texts the bracket scans cut out of its argument (`cuts`), however the
  scans pair nested brackets. A command has one scanned argument, as in `safe_spl.json`.
* Splunk answers 200 only to a credential it accepts, 401 or 403 to any, and fails at will.
* `export_search` may find fewer rows than were streamed, since a line that does not parse is
  dropped; the properties about totals name that exclusion (`lost`).
* In `DotFile` the rename and the directory are separate from the contents: a power cut
  takes back renames that were not written back, and loses contents that were not synced.
  A value is what its lines are: what stands before the first separator `str.splitlines`
  knows (`Head`, perhaps the empty value), and the lines of keys behind it (`Tail`, perhaps of
  other keys). `Plain` values have none, and only of those does `KeyStore` promise anything. The
  server takes an empty value for none; the store keeps its line. A file that is not UTF-8, at
  which `_read_all` raises, is left out.
* In `HostConfig` the top-level keys other than `mcpServers` are one value, and a file is
  absent, blank, undecodable, not JSON, not an object, or an object whose section is missing,
  a map or anything else. An entry is an object, or any other value (`Scalar`).
* In `McpClients` replacing the file is one step (`os.replace`), a copy that was cut off counts
  as none, and the program `claude` merges or starts from an empty file, then exits as it
  likes. `stale` records what of a run's knowledge the file has outrun; the properties exclude
  exactly that, since the code has no lock. `SnippetPrinter` writes no file.
* In `Wizard` the keyring answers both processes or neither, and may come and go; nothing in
  the environment gives a secret; the dotfile is readable and no secret has a separator in it
  (`DotFile` has the other cases).
  Runs of the wizard follow one another (`DotFile` has writers that overlap), and one host is
  modelled: hosts share nothing but the secrets.

## Runs

No run takes much more than two minutes on two cores. `dot_file` uses symmetry of the writers and
`probe` of the session keys; `rate_limit`, `client` and `wizard` check liveness and therefore
use none.

| Run | Checks | Instance, and why it is enough |
|---|---|---|
| `rate_limit` | `WindowBound`, `BudgetConservation`, `RefusalJustified`, `Implements` (`SlidingWindow`), `LockReleased` | 2 threads, one tool with a limit of 1, one without, global limit 2, window 1, clock to 3: every order of two checks and a `remaining`, budgets exhausted and recovered, a timestamp at exactly the window's edge |
| `client` | `OneLogin`, `GateHolds`, `OneSession` (`SingleSession`), `TokenRejection`, `NoDeadlock`, `CallsEnd`, `CallDescends` | 3 concurrent calls, 3 keys, gate on and off, with a password or a token: one call in the login, one waiting, one with an older key; keys expire and tokens are revoked at any time |
| `probe` | `KeyMatchesUser`, `RetryOnlyInherited` | 3 probes one after the other, two of one user and one of another: a key is inherited, dropped and replaced |
| `tool_call` | `NoSilentTruncation`, `HonestTotals`, `SavedSearchVetted`, `OnlySafeCommands`, `BlockJustified`, `Implements` (`HonestCall`) | maximum 2, `row_limit` -3..4 and absent, 0..4 rows: both sides of every comparison; a default of 3 over the maximum, which `from_env` accepts, is the exception two properties name (a default within the maximum acts as a `row_limit` of that value does, and the theorems have both); 2 apps; 5 texts: two levels of subsearches, commands and subsearches first and last, a forbidden one behind safe ones, and a forbidden text in brackets that are no subsearch |
| `dot_file` | `Implements` (`KeyStore`), `StoreServes` | 2 writers, 2 keys, deletion and every sort of value: plain, empty, too long, with a separator behind something or nothing and a line of the other key behind it; files written by hand, with two lines for each key or too large; any number of stores, failures, mode changes and power cuts. The constraint `RareAlone` lets the two overlap while the values about are a plain one and one with a separator, and has one of them work at a time while there are others |
| `wizard` | `CredentialsFound`, `PairConsistent`, `LookupOrder`, `RunEnds`, `RunDescends` | 2 runs, 2 names, 2 probe attempts, 2 rename rounds: an old and a new credential in every combination of kind and backend |
| `host_files` | `NoSiblingLost`, `OverwriteAsked`, `BackupKeepsDisplaced`, `TestRestores`, `NeverStuck`, `RunsDescend` | 2 runs, one of them the smoke test's, 3 names of which one is not valid, 2 rename rounds, 2 seconds (backups in the same one and in two), 1 edit by others, 5 initial files, both kinds of writer: every order of inspection, reading, copy and replacement of two runs |
| `client_retry`, `probe_honest`, `split_value`, `rotation`, `plain_token` | one property each, violated | see [disagreements](#disagreements-found) |

Every component has a run that also checks the `TypeOK` of its module.
`MaxClock`, `MaxSecond`, `MaxEdits`, `MaxRuns`, `MaxProbes` and `MaxRenames` are the only
bounds in guards, `RareAlone` the only constraint; `MaxProbes` and `MaxRenames` are constants of
the code (3 each). The theorems hold for every value of all of them and need no constraint.

## Fairness

* `RateLimit`, `SplunkClient`: weak fairness of each thread's step once it is inside a call.
  Threads are scheduled, and a request ends because `requests` is given `config.timeout`.
  Nothing is assumed of the order in which a lock reaches its waiters, of new calls, or of
  Splunk. Calls are finitely many in an instance, so a waiter is not overtaken for ever.
* `Wizard`: weak fairness of the wizard's steps together. The user answers prompts, one way
  or another, and probes and writers return. Which answer is not constrained, so `RunEnds`
  rests on the two counters (`RunDescends` says how).
* `HostFiles` states no fairness: the user, the `claude` program and the others owe the wizard
  nothing. `NeverStuck` says instead that a run under way always has a step of its own, the
  timeouts included, and `RunsDescend` that it has only so many of them.

## Proofs

Each `*Proofs` module extends its component. What is assumed of the constants is in the
named `ASSUME` of the component and nothing else, unless a theorem states more.

| Theorem | Says | Argument |
|---|---|---|
| `RateLimitProofs`: `TypeCorrect`, `WindowCorrect`, `RefusalCorrect`, `BudgetCorrect`, `Refinement`, `LockHeldBriefly` | the window bound, justified refusals, where budget goes, the refinement of `SlidingWindow`, and that a lock is given back within `Max[l] + 2` steps of its holder, for all threads, tools, limits and windows | `IInv`: a lock region belongs to its thread (`LockInv`); the deque is the sorted log of admissions less the popped ones, which are out of the window of now (`DequeInv`); a clock reading taken under the lock is no earlier than any admission (`ReadingInv`). Sortedness needs the clock to be read after the lock is taken, which is why the last conjunct is there. `BudgetCorrect` adds that a check is at its tool's limiter or the global one (`PlaceInv`) and counts the threads between the two. `LockHeldBriefly`: the deque never outgrows the maximum (`DequeBounded`), so what the holder has left (`HeldSteps`: its readings, the stale timestamps it may pop and its return) is bounded, and no other thread adds to it (`HolderInv`) |
| `SplunkClientProofs`: `TypeCorrect`, `OneLoginCorrect`, `KeyMatchesUserCorrect`, `RetryOnlyInheritedCorrect`, `GateCorrect`, `TokenRejectionCorrect`, `Refinement`, `NoDeadlockCorrect`, `CallDescendsCorrect`, `ProbeHonestIfDistinct`, `NoRetryInOneConfig` | one login per configuration, no key under another name, a gate that fails closed, a rejected token reported after its warning, `SingleSession` for a process with one configuration, no circular wait and no endless retry | a call in the session region holds the lock and the cache is under its name; a cached key was issued under the cached name; a key costs its configuration the password; the refinement assumes that at most one password configuration exists (`OneConfig`). `NoDeadlock`: who holds the session's lock waits for none, and who holds the gate's is past the gate (`LockInv`), so following the chain of waits ends (`WaitsEnd`). `CallDescends`: `StepsLeft` counts a request, its retry, and the same for the context of the gate. `ProbeHonestIfDistinct` and `NoRetryInOneConfig` say where two of the disagreements below can and cannot occur; the first needs that a 200 answers a key of the configuration's own login (`AnswerInv`) |
| `ToolCallProofs`: `TypeCorrect`, `NoSilentTruncationCorrect`, `HonestTotalsCorrect`, `SavedSearchVettedCorrect`, `OnlySafeCommandsCorrect`, `BlockJustifiedCorrect`, `FailuresClassifiedUngated`, `Refinement` | honest results for every `row_limit` and every number of rows; no query with a forbidden command is sent, and none is blocked without one; the call as a whole refines `HonestCall` | lemmas on the row arithmetic, then invariants that carry the limit, the resolved app and the default window (`WindowInv`) to the result. For the safety check: a command of a parsed text is due or has passed with its subsearches (`CheckInv`), so once nothing is due the parsed texts are closed under subsearches; conversely whatever is due is reached from the query by subsearches alone (`BlameInv`), so the command at which the check stops is one that would run. `FailuresClassifiedUngated` assumes `~RequireCaps`. `Refinement` needs besides that a limit the caller gave is the limit in use (`AskedInv`), that nothing is sent before the one export (`QuietInv`), and that a query that gets there has been checked in full (`CheckedSafe`); every stage but the last then maps to `Watch` or to a stutter, an early exit to `Decline`. Nothing is assumed of the two row limits: the limit in use is within the maximum, or it is the default and the caller's is missing or came to 0 (`Capped`), so `Exceeds` of `HonestCall` is the only way past the maximum |
| `DotFileProofs`: `TypeCorrect`, `StoreServesCorrect`, `SequentialStoresServe`, `Refinement` | the dotfile refines `KeyStore` for any writers, keys and values; of a value without separators the server reads what was stored, whatever the file held before; stores of such values one after the other over a file nobody edited by hand leave it every other key too | `SyncedInv`: what a writer is about to rename, and what the path names, is synced; so a power cut lands on a committed map. A line has no separator in it (`FormattedType`), so what `_read_all` returns is plain, and a map of plain values is read as it was written (`FormattedPlain`). `SequentialStoresServe` has three hypotheses, one for each thing that can lose a key: `HandMade = {}`, nothing else changes the file between a store's reading and its rename (`HandsOff`), and no value stored has a separator (`PlainJobs`). Then the file has one line of a key, and a store under way has read the file that is there (`OwnInv`). `NoneInjected`, which `split_value` refutes, is why the last one is needed |
| `WizardProofs`: `TypeCorrect`, `CredentialsFoundCorrect`, `PairConsistentCorrect`, `LookupOrderCorrect`, `RegisteredStored`, `RunDescendsCorrect` | a registered server finds credentials; a pair is never mixed in an undisturbed lookup; of everything stored an undisturbed lookup uses just the secret that ranks first, a token ahead of a pair, the keyring ahead of the dotfile, the later run ahead of the earlier; whoever registered a name has stored its secrets, and where the server uses others those of the registered run can be read and rank behind; a run has a bounded number of steps | secrets are only added, and complete before a name is registered (`FoundInv`); each backend holds the name and the password of one run except between the two stores (`PairedInv`); an undisturbed lookup saw one state of the backends (`ReadInv`). For `LookupOrder`: each backend holds of each kind the secret of the last run that stored one in it (`LastInv`), and what an undisturbed lookup has read is still what it would read (`LookInv`); what `_resolve_secret` and `auth_mode` make of it is the first in rank (`ResolveFirst`), of which there is one (`PreferredOnce`). `RegisteredStored` adds that a run past its stores, and one that registered a name, is among those that stored (`RegisteredInv`). `RunDescends` needs only the bounds on the two counters in `TypeOK`: a round of the probe menu takes three steps, a rename one |
| `HostFilesProofs`: `TypeCorrect`, `SiblingsKept`, `OverwriteIsAsked`, `BackupsKeep`, `TestPutsBack`, `RunsDescendCorrect`, `UnrivalledRunsKeep`, `WaitsForAProgram` | the same of the host's file, for any number of runs, names, seconds and edits; without a rival a replacement has none of the exceptions the other properties make: the file was readable, its other keys and siblings stay, and the entry it displaces is the one the user was shown | a run whose knowledge is not `stale` knows the file: what it read (`ReadInv`) and what it showed (`AskInv`), which every write by anybody re-establishes or makes stale; what a fresh copy holds is the file (`BackupInv`); while the smoke test waits only its own run writes, and only its own entry (`PhaseInv`, `TestInv`). `RunsDescend`: a rename costs a round, a program runs only under the run that started it or has outlived it (`ChildInv`), and every step not of a run leaves its locals alone. `UnrivalledRunsKeep` assumes that while a run is under way nobody but itself changes the file, and it by its replacement (`HandsOff`): then what it read and what it showed is never out of date (`CleanInv`). `WaitsForAProgram`: a program runs exactly while its run waits for it or has left it behind |

Only model-checked: the liveness properties (`LockReleased`, `CallsEnd`, `RunEnds`) and
`NeverStuck`, which is an `ENABLED`: neither is in the prover's reach. What of them is safety
is proved. `WaitsForAProgram` is what `NeverStuck` needs of the reachable states: elsewhere the
guards of a run's steps leave no gap, and a wait could only be stuck with nothing to wait for. `LockHeldBriefly`, `CallDescends`, `RunDescends` and `RunsDescend` bound the steps
left by a natural number that every step of the process concerned lowers and nothing raises,
and `NoDeadlock` says that some call under way waits for no lock; the scheduling that makes
the steps happen is what remains with TLC. Every other property a passing run checks has its
theorem. The four `StepsLeft` and `HeldSteps` are measures, not translations of code.

## Disagreements found

Each has a run in which TLC finds the quoted statement violated.

* `client_retry`: `call_api`'s docstring promises one retry after a 401 in password mode; the
  login has cleared the password, `auth_mode` is `none`, and nothing is retried. `NoRetryInOneConfig`
  proves it for the server: with one configuration no call makes a second attempt, so the
  retry serves only wizard probes that inherited a key.
* `probe_honest`: after a probe that logged in but did not get a 200, a retry with the same
  user and a mistyped password succeeds on the cached session. By `ProbeHonestIfDistinct` this
  needs the same user name: no other probe is answered on a session not its own.
* `split_value`: `_validate_value` is there to reject what "would split a value across lines and
  inject spurious `KEY=VALUE` pairs"; it knows three characters and the readers' `splitlines`
  more, so a stored value may become a line of another key. By `SequentialStoresServe` values
  without separators do no such thing.
* `rotation`: re-running the wizard with another kind of credential, or when the keyring has
  gone, leaves the server with the old credential. By `LookupOrder` and `RegisteredStored` this
  happens exactly when the run's secret ranks behind another one that can be read.
* `plain_token`: the wizard registers a token over http, which the server refuses.

Read in the code while modelling, and without a run of their own:

* The README (`README.md:325`) calls `MCP_MAX_ROW_LIMIT` the "maximum rows any tool can
  return"; nothing caps the default limit, so with `MCP_MAX_ROW_LIMIT=50` alone a call without
  `row_limit` returns up to 51 rows, and of a larger search it says neither `truncated` nor a
  total, only "50+". `NoSilentTruncation` and `Exceeds` of `HonestCall` name this case; by
  `NoSilentTruncationCorrect` and `Refinement` there is no other.
* An exception of the capability gate (`server.py:247`) leaves `_execute_tool` unclassified and
  unsanitised, where its docstring promises a `ToolExecutionError`. By
  `FailuresClassifiedUngated` nothing else does.
* `call_api`'s docstring promises "a single per-process warning" for a rejected token; the flag
  is tested and set without a lock, and concurrent calls may each write it. By
  `TokenRejectionCorrect` none reports the rejection before a warning is there.
* "A malformed file is a warning", says the doctor's `_scan_one_config` (`doctor.py:135-137`);
  one that is not UTF-8 raises a `UnicodeDecodeError` nobody catches, as it does in
  `_read_existing` and in the wizard's warning of a shadowing project file.
* `SPLUNK_APP` is documented as the default app of searches and reaches no search
  (`services_prefix` has no caller in the server).
* A run that quits at the name collision menu has stored its secrets although
  `_resolve_server_name` speaks of "no partial work".
* The README's "up to 3 edit-and-retry attempts" are three attempts in all, so two retries.

Of the host's file: `setup_wizard/__init__.py:393-396` promises that "users always have a way
back", but a second write in the same second replaces the backup of the first;
`find_cursor_project_config` ascends past a start outside the home directory although its comment (lines 264-266) says it
never does; a section that is not a map ends setup with an exception while the doctor calls
the file healthy; a name the writer refuses raises a `ValueError` after the secrets were
stored; two overlapping runs lose one entry. The smoke test's sweep removes backups of earlier, real runs too, and its restore is
in no `finally`.

Of the dotfile: `CredStore.store` promises a `CredStoreError` (`credstore.py:100`) and
`DotfileStore.store` lets an `OSError` through, which `main` does not catch; a value that takes the file over 64 KiB is stored,
and hides all keys from both readers; the store of one key changes what the server reads of
another that has two lines, since the server counts the first and the store keeps the last.

## Not modelled

* The text of SPL and the bracket scans over it, schemas and the nesting of arguments:
  `ToolCall` has their place in a call and every outcome. They are functions of one request's
  text, which unit tests reach.
* The values of the settings in `config.py`, secrets given in the environment, and where a
  host or a project keeps its file (`find_cursor_project_config`). The wizard's closing warning
  of a project's file that shadows the entry, which changes nothing.
* `KeyringStore.delete`, which only the smoke test and the tests call, and the smoke test's
  use of it; the trial write of the dotfile, which touches another file.
* The doctor, whose checks and whose scan of the hosts' files report and change nothing;
  logging, prompts, argument parsing, the release scripts, packaging and test drivers: I/O
  without state the rest depends on. FastMCP, `requests`, the keyring service, the `claude`
  program and the file system appear through how the code uses them, marked external in the
  map.
* `reset_session` and `_check_perms`, which only tests call.

## Plan

In order of importance; the first five are done and described above.

1. *(done)* Limiter, session and gate, tool call, credentials file, wizard: models, runs and
   first theorems.
2. *(done)* The host's configuration with everybody who writes it: `HostConfig`, `McpClients`,
   `HostFiles` and the properties of entries, backups, prompts and the smoke test.
3. *(done)* The lines of the credentials file, as the store and the server read them.
4. *(done)* A theorem for every safety property of a passing run, and for the safety half of
   the liveness ones: bounded steps and no circular wait; the disagreements delimited by
   theorems that say when the quoted promise does hold.
5. *(done)* The promise of a tool call as an abstract specification, `HonestCall`, which
   `ToolCall` refines. The same of a wizard run is open.
6. Pure algorithms against reference definitions: nesting depth of a payload, the bracket
   scans of the safety check, the walk to the project's configuration.
7. The settings of `config.py`, with the environment ahead of the keyring and the dotfile.
8. The wizard with several hosts in one composition with `DotFile`, so that overlapping runs
   meet in both files at once.
