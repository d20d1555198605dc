------------------------------- MODULE Wizard -------------------------------
(***************************************************************************)
(* Successive runs of the setup wizard (main of setup_wizard/__init__.py)  *)
(* over the two credential backends and a host's configuration, and a      *)
(* server that the host starts meanwhile and that looks its secrets up     *)
(* with _resolve_secret of config.py, one after the other.  Credentials    *)
(* are kept per kind of secret, registrations per server name; a secret is *)
(* represented by the number of the run in which the user entered it.      *)
(***************************************************************************)
EXTENDS Naturals, FiniteSets

CONSTANTS
  Names,       \* MCP server names
  MaxRuns,     \* bound on the runs of the wizard
  MaxProbes,   \* _PROBE_MAX_ATTEMPTS
  MaxRenames   \* _COLLISION_MAX_RENAMES

ASSUME WizardAssumption ==
  /\ MaxRuns \in Nat
  /\ MaxProbes \in Nat \ {0}
  /\ MaxRenames \in Nat \ {0}

Secrets  == {"token", "username", "password"}
Backends == {"keyring", "dotfile"}
Settings == {s \in [mode : {"token", "password"}, scheme : {"https", "http"}] :
               ~(s.mode = "password" /\ s.scheme = "http")}
Runs     == 1..MaxRuns
Absent   == 0             \* of a secret, a registration or a run
Foreign  == MaxRuns + 1   \* another program registered the name

VARIABLES
  store,      \* store[b][s]: the run whose secret s backend b holds
  entries,    \* entries[n]: who registered server name n: a run, or Foreign
  keyringUp,  \* the keyring of the user's session answers reads and writes
  pc,         \* where the wizard is
  run,        \* the number of the current or last run
  setting,    \* setting[r]: what run r collected last
  probes,     \* attempts
  todo,       \* the secret _run_credstore stores next
  backend,    \* the backend it chose
  name,       \* the server name under resolution
  rounds,     \* rename rounds used
  spc,        \* where the server is
  entry,      \* the registration it was started from
  got,        \* the secrets it has resolved
  stored,     \* history: runs that stored all their secrets, and with what
  torn,       \* history: a run ended between its two stores
  raced,      \* history: secrets changed while this server looked them up
  flaky       \* history: the keyring came or went meanwhile

wizardVars == <<pc, run, setting, probes, todo, backend, name, rounds>>
serverVars == <<spc, entry, got>>
ghostVars  == <<stored, torn, raced, flaky>>
vars == <<store, entries, keyringUp, wizardVars, serverVars, ghostVars>>

TypeOK ==
  /\ store \in [Backends -> [Secrets -> Runs \cup {Absent}]]
  /\ entries \in [Names -> Runs \cup {Absent, Foreign}]
  /\ keyringUp \in BOOLEAN
  /\ pc \in {"idle", "collect", "probe", "menu", "backend", "store", "name", "resolve", "write"}
  /\ run \in Runs \cup {Absent}
  /\ setting \in [Runs -> Settings]
  /\ probes \in 0..MaxProbes
  /\ todo \in Secrets
  /\ backend \in Backends
  /\ name \in Names
  /\ rounds \in 0..(MaxRenames - 1)
  /\ spc \in Secrets \cup {"off", "check", "up", "missing", "plaintext"}
  /\ entry \in Runs \cup {Absent}
  /\ got \in [Secrets -> Runs \cup {Absent}]
  /\ stored \subseteq [run : Runs, mode : {"token", "password"}, backend : Backends]
  /\ torn \in BOOLEAN /\ raced \in BOOLEAN /\ flaky \in BOOLEAN

NoSecrets == [s \in Secrets |-> Absent]

Init ==
  /\ store = [b \in Backends |-> NoSecrets]
  /\ entries \in [Names -> {Absent, Foreign}]
  /\ keyringUp \in BOOLEAN
  /\ pc = "idle" /\ run = 0 /\ probes = 0 /\ rounds = 0
  /\ setting = [r \in Runs |-> [mode |-> "token", scheme |-> "https"]]
  /\ todo = "token" /\ backend = "keyring" /\ name \in Names
  /\ spc = "off" /\ entry = Absent /\ got = NoSecrets
  /\ stored = {} /\ torn = FALSE /\ raced = FALSE /\ flaky = FALSE
-----------------------------------------------------------------------------
StartRun ==
  /\ pc = "idle" /\ run < MaxRuns
  /\ run' = run + 1
  /\ probes' = 0
  /\ pc' = "collect"
  /\ UNCHANGED <<store, entries, keyringUp, setting, todo, backend, name, rounds,
                 serverVars, ghostVars>>

(* _collect_splunk_config; a password over http aborts the run: Leave.     *)
Collect(s) ==
  /\ pc = "collect"
  /\ setting' = [setting EXCEPT ![run] = s]
  /\ probes' = probes + 1
  /\ pc' = "probe"
  /\ UNCHANGED <<store, entries, keyringUp, run, todo, backend, name, rounds,
                 serverVars, ghostVars>>

Move(from, to) ==
  /\ pc = from
  /\ pc' = to
  /\ UNCHANGED <<store, entries, keyringUp, run, setting, probes, todo, backend, name,
                 rounds, serverVars, ghostVars>>

ProbeAnswers == Move("probe", "backend") \/ Move("probe", "menu")

(* Mutant: the attempts are counted and not compared.                      *)
EditAlways == Move("menu", "collect")

(* _offer_probe_failure_choice: "edit" is offered while attempts remain.   *)
Edit == probes < MaxProbes /\ Move("menu", "collect")

(* Mutant: a run saved in spite of its probe skips the credential store.   *)
SaveUnstored == Move("menu", "name")

SaveAnyway == Move("menu", "backend")

(* select_backend: the keyring if it works, else the dotfile.              *)
SelectBackend ==
  /\ pc = "backend"
  /\ backend' = IF keyringUp THEN "keyring" ELSE "dotfile"
  /\ todo' = IF setting[run].mode = "token" THEN "token" ELSE "username"
  /\ pc' = "store"
  /\ UNCHANGED <<store, entries, keyringUp, run, setting, probes, name, rounds,
                 serverVars, ghostVars>>

Reading == spc \in Secrets \cup {"check"}

Works(b) == b = "keyring" => keyringUp

(* _run_credstore stores the username before the password, in one backend. *)
StoreIn(b) ==
  /\ pc = "store" /\ Works(b)
  /\ store' = [store EXCEPT ![b][todo] = run]
  /\ todo' = IF todo = "username" THEN "password" ELSE todo
  /\ pc' = IF todo = "username" THEN "store" ELSE "name"
  /\ stored' = IF todo = "username" THEN stored
               ELSE stored \cup {[run |-> run, mode |-> setting[run].mode, backend |-> b]}
  /\ raced' = (raced \/ Reading)
  /\ UNCHANGED <<entries, keyringUp, run, setting, probes, backend, name, rounds,
                 serverVars, torn, flaky>>

(* Mutants: each secret goes to the backend that works at the time; one    *)
(* that is there already is not overwritten.                               *)
StoreFallsBack == StoreIn(IF keyringUp THEN backend ELSE "dotfile")

StoreIfAbsent ==
  IF store[backend][todo] = Absent THEN StoreIn(backend)
  ELSE /\ pc = "store" /\ Works(backend)
       /\ todo' = IF todo = "username" THEN "password" ELSE todo
       /\ pc' = IF todo = "username" THEN "store" ELSE "name"
       /\ stored' = IF todo = "username" THEN stored
                    ELSE stored \cup {[run |-> run, mode |-> setting[run].mode,
                                       backend |-> backend]}
       /\ UNCHANGED <<store, entries, keyringUp, run, setting, probes, backend, name,
                      rounds, serverVars, torn, raced, flaky>>

StoreSecret == StoreIn(backend)

Between == pc = "store" /\ todo = "password"

(* CredStoreError ends the run; a name stored before it stays.             *)
StoreFails ==
  /\ pc = "store" /\ ~Works(backend)
  /\ pc' = "idle"
  /\ torn' = (torn \/ Between)
  /\ UNCHANGED <<store, entries, keyringUp, run, setting, probes, todo, backend, name,
                 rounds, serverVars, stored, raced, flaky>>

AskName(n) ==
  /\ pc = "name"
  /\ name' = n
  /\ rounds' = 0
  /\ pc' = "resolve"
  /\ UNCHANGED <<store, entries, keyringUp, run, setting, probes, todo, backend,
                 serverVars, ghostVars>>

(* _resolve_server_name: the name is free, or the user overwrites it.      *)
NameSettled == Move("resolve", "write")

(* Mutant: the rounds are not counted.                                     *)
RenameForever(n) ==
  /\ pc = "resolve"
  /\ entries[name] # Absent
  /\ name' = n
  /\ UNCHANGED <<store, entries, keyringUp, pc, run, setting, probes, todo, backend,
                 rounds, serverVars, ghostVars>>

(* Another name, while rounds remain: the last round does not ask.         *)
Rename(n) ==
  /\ pc = "resolve"
  /\ entries[name] # Absent
  /\ rounds < MaxRenames - 1
  /\ rounds' = rounds + 1
  /\ name' = n
  /\ UNCHANGED <<store, entries, keyringUp, pc, run, setting, probes, todo, backend,
                 serverVars, ghostVars>>

(* _run_writer with _build_launch: host, port and scheme of this run.      *)
WriteEntry ==
  /\ pc = "write"
  /\ entries' = [entries EXCEPT ![name] = run]
  /\ pc' = "idle"
  /\ UNCHANGED <<store, keyringUp, run, setting, probes, todo, backend, name, rounds,
                 serverVars, ghostVars>>

(* The run ends early: the user quits a menu or declines a risk, the last  *)
(* rename round is used, the dotfile or the writer fails, Ctrl-C, a kill.  *)
Leave ==
  /\ pc # "idle"
  /\ pc' = "idle"
  /\ torn' = (torn \/ Between)
  /\ UNCHANGED <<store, entries, keyringUp, run, setting, probes, todo, backend, name,
                 rounds, serverVars, stored, raced, flaky>>

(* The keyring is unlocked, or locked, or its service starts or stops.     *)
KeyringChanges ==
  /\ keyringUp' = ~keyringUp
  /\ flaky' = (flaky \/ Reading)
  /\ UNCHANGED <<store, entries, wizardVars, serverVars, stored, torn, raced>>
-----------------------------------------------------------------------------
(* The host starts a registered server: from_env reads the connection of   *)
(* the entry from its environment, then its three secrets in turn.         *)
StartServer(n) ==
  /\ spc = "off" /\ entries[n] \in Runs
  /\ entry' = entries[n]
  /\ got' = NoSecrets
  /\ spc' = "token"
  /\ raced' = Between
  /\ flaky' = FALSE
  /\ UNCHANGED <<store, entries, keyringUp, wizardVars, stored, torn>>

(* _resolve_secret, with nothing in the environment: keyring, then dotfile. *)
Resolve(s) ==
  IF keyringUp /\ store["keyring"][s] # Absent THEN store["keyring"][s]
  ELSE store["dotfile"][s]

ReadSecret ==
  /\ spc \in Secrets
  /\ got' = [got EXCEPT ![spc] = Resolve(spc)]
  /\ spc' = CASE spc = "token" -> "username"
              [] spc = "username" -> "password"
              [] spc = "password" -> "check"
  /\ UNCHANGED <<store, entries, keyringUp, wizardVars, entry, ghostVars>>

HasToken == got["token"] # Absent
HasPair  == got["username"] # Absent /\ got["password"] # Absent

(* The rest of from_env: a token, or else a name and a password, and no    *)
(* token over http unless SPLUNK_ALLOW_PLAINTEXT is set, which the wizard  *)
(* never writes.                                                           *)
CheckConfig ==
  /\ spc = "check"
  /\ spc' = IF ~HasToken /\ ~HasPair THEN "missing"
            ELSE IF HasToken /\ setting[entry].scheme = "http" THEN "plaintext"
            ELSE "up"
  /\ UNCHANGED <<store, entries, keyringUp, wizardVars, entry, got, ghostVars>>

StopServer ==
  /\ spc \in {"up", "missing", "plaintext"}
  /\ spc' = "off"
  /\ UNCHANGED <<store, entries, keyringUp, wizardVars, entry, got, ghostVars>>

RunStep ==
  \/ \E s \in Settings : Collect(s)
  \/ ProbeAnswers \/ Edit \/ SaveAnyway
  \/ SelectBackend \/ StoreSecret \/ StoreFails
  \/ \E n \in Names : AskName(n) \/ Rename(n)
  \/ NameSettled \/ WriteEntry

ServerStep == (\E n \in Names : StartServer(n)) \/ ReadSecret \/ CheckConfig \/ StopServer

Next == StartRun \/ RunStep \/ Leave \/ KeyringChanges \/ ServerStep

Spec == Init /\ [][Next]_vars

(* The user answers the prompts, and probes and writers return.            *)
FairSpec == Spec /\ WF_vars(RunStep)
-----------------------------------------------------------------------------
(* The run whose credentials the server authenticates with: auth_mode      *)
(* prefers the token.                                                      *)
Used == IF HasToken THEN got["token"] ELSE got["username"]

(* The lookup of a server that is about to be checked was not disturbed:   *)
(* the keyring answered all the time or never, no secret was stored, and   *)
(* no earlier run left a name without its password.                        *)
Undisturbed == spc = "check" /\ ~torn /\ ~raced /\ ~flaky

(* Safety: a registered server finds credentials if it can read the        *)
(* keyring, whatever runs were cut short or are under way, since main      *)
(* registers it after _run_credstore and no run removes a secret.          *)
CredentialsFound == spc = "check" /\ keyringUp /\ ~flaky => HasToken \/ HasPair

(* Safety: a user name and a password of different runs are never combined *)
(* in an undisturbed lookup, with the keyring or without it                *)
(* (_run_credstore keeps to one backend; _resolve_secret looks every       *)
(* secret up in the same order).                                           *)
PairConsistent == Undisturbed /\ ~HasToken => got["username"] = got["password"]

(* Safety: what a re-run of the wizard rotates is what the server looks up *)
(* first: of the secrets it can read, a token before a pair, the keyring's *)
(* before the dotfile's, and of these the last that was stored.  A run     *)
(* takes effect just if it ranks first (_resolve_secret, auth_mode).       *)
Readable == {q \in stored : Works(q.backend)}
Rank(q)  == (IF q.mode = "token" THEN 2 ELSE 0) + (IF q.backend = "keyring" THEN 1 ELSE 0)
Yields(q, r) == Rank(q) < Rank(r) \/ (Rank(q) = Rank(r) /\ q.run <= r.run)
Preferred == {r \in Readable : \A q \in Readable : Yields(q, r)}

LookupOrder ==
  Undisturbed => \A n \in Runs : Used = n <=> \E r \in Preferred : r.run = n

Latest(r) == \A q \in stored : q.run <= r.run

(* Liveness: a run ends, with its menus offering retries and new names.    *)
RunEnds == pc # "idle" ~> pc = "idle"

(* At most so many steps of the run under way are left: a round of the     *)
(* probe menu takes three, a rename one.                                   *)
StepsLeft ==
  LET rest == MaxRenames + 5 + 3 * (MaxProbes - probes)
  IN  CASE pc = "idle"    -> 0
        [] pc = "write"   -> 1
        [] pc = "resolve" -> 1 + MaxRenames - rounds
        [] pc = "name"    -> MaxRenames + 2
        [] pc = "store"   -> MaxRenames + (IF todo = "username" THEN 4 ELSE 3)
        [] pc = "backend" -> MaxRenames + 5
        [] pc = "collect" -> rest
        [] pc = "menu"    -> rest + 1
        [] pc = "probe"   -> rest + 2

(* Action: a run cannot go round for ever, whatever is typed at its menus  *)
(* and whatever the keyring, the server and the registrations do meanwhile *)
(* (main's loop over attempts, the rounds of _resolve_server_name): every  *)
(* step of it uses some of its steps up, and nothing else moves it.        *)
RunDescends ==
  [][pc # "idle" => UNCHANGED wizardVars \/ StepsLeft' < StepsLeft]_vars

(* README: "To rotate a credential or change the connection, re-run        *)
(* `spl-bridge setup` and pick the same MCP server name."                  *)
RotationTakesEffect ==
  Undisturbed /\ keyringUp =>
    \A r \in stored : Latest(r) /\ r.run = entry => Used = entry

(* _collect_splunk_config: "Refusing to send a password over plain HTTP.   *)
(* Pick https or switch to a token."                                       *)
TokenOverHttpWorks == spc # "plaintext"
=============================================================================
