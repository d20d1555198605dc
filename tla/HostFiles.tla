------------------------------- MODULE HostFiles -------------------------------
(***************************************************************************)
(* The wizard runs of McpClients and the smoke test of                     *)
(* scripts/smoketest_wizard.py, which drives one of them over the user's   *)
(* real Cursor configuration and means to leave the machine as it was.     *)
(***************************************************************************)
EXTENDS McpClients

CONSTANTS
  TestRun,   \* the run the smoke test starts
  TestName   \* "splunk-wizard-smoketest"

ASSUME HostFilesAssumption == TestRun \in Runs /\ TestName \in ValidNames

VARIABLES
  hpc,       \* where the smoke test is
  snapshot,  \* its copy of the configuration, absent if there was none
  touched    \* history: anyone else changed the file since

testVars == <<hpc, snapshot, touched>>
vars == <<hostVars, testVars>>

TypeOK ==
  /\ HostTypeOK
  /\ hpc \in {"off", "wizard", "restore", "sweep", "done", "refused", "crashed"}
  /\ snapshot \in File
  /\ touched \in BOOLEAN

Init ==
  /\ HostInit
  /\ hpc = "off" /\ snapshot = Shaped("absent") /\ touched = FALSE
-----------------------------------------------------------------------------
(* _snapshot: copy2 of a file that cannot be read ends the test.           *)
Snapshot ==
  /\ hpc = "off" /\ kind = "json"
  /\ IF Unreadable(file) THEN hpc' = "refused" /\ UNCHANGED snapshot
     ELSE hpc' = "wizard" /\ snapshot' = file
  /\ UNCHANGED <<hostVars, touched>>

(* The wizard has ended, and the file is parsed for the artefact checks;   *)
(* what is not an object with a map in it raises.                          *)
Inspect ==
  /\ hpc = "wizard" /\ pc[TestRun] \in Ended
  /\ \/ file.shape \in {"absent", "object"} /\ file.readable /\ file.section # "bad"
          /\ hpc' = "restore"
     \/ file.shape # "absent" /\ ~IsMap(file) /\ hpc' = "crashed"
  /\ UNCHANGED <<hostVars, snapshot, touched>>

(* Mutant: a configuration the wizard created stays.                       *)
RestoreIfAny ==
  /\ hpc = "restore"
  /\ IF snapshot.shape = "absent" THEN UNCHANGED <<file, stale>> ELSE Becomes(snapshot, {})
  /\ hpc' = "sweep"
  /\ UNCHANGED <<backups, now, kind, edits, displaced, pc, name, child, round, shown, seen,
                 saved, snapshot, touched>>

(* _restore: copy2 over the file, or unlink if there was none.             *)
Restore ==
  /\ hpc = "restore"
  /\ Becomes(snapshot, {})
  /\ hpc' = "sweep"
  /\ UNCHANGED <<backups, now, kind, edits, displaced, pc, name, child, round, shown, seen,
                 saved, snapshot, touched>>

(* The sweep removes every backup, not only those of its own run.          *)
Sweep ==
  /\ hpc = "sweep"
  /\ backups' = [s \in Seconds |-> Shaped("absent")]
  /\ CopiesGo(Seconds, {})
  /\ hpc' = "done"
  /\ UNCHANGED <<file, now, kind, edits, pc, name, child, round, shown, seen, saved,
                 snapshot, touched>>

(* It is interrupted; copy2 has emptied the file before it fills it.       *)
TestKilled ==
  /\ hpc \in {"wizard", "restore", "sweep"}
  /\ hpc' = "crashed"
  /\ \/ UNCHANGED <<file, stale>>
     \/ hpc = "restore" /\ snapshot.shape # "absent" /\ Becomes(Shaped("blank"), {})
  /\ UNCHANGED <<backups, now, kind, edits, displaced, pc, name, child, round, shown, seen,
                 saved, snapshot, touched>>
-----------------------------------------------------------------------------
TestStep == Snapshot \/ Inspect \/ Restore \/ Sweep \/ TestKilled

Touch == touched' = (hpc # "off" /\ (touched \/ file' # file))

(* The test answers the prompts of its run by a script, which has a name   *)
(* and no answer for a collision: it then gives up on the wizard.          *)
Scripted(w) ==
  w = TestRun /\ kind = "json" =>
    /\ pc[w] = "off" => hpc = "wizard" /\ name'[w] = TestName
    /\ pc[w] = "ask" => pc'[w] = "failed"

ByRun(w) ==
  /\ Scripted(w)
  /\ IF w = TestRun THEN UNCHANGED touched ELSE Touch
  /\ UNCHANGED <<hpc, snapshot>>

(* Nobody does anything any more.                                          *)
Quiet == (\A w \in Runs : pc[w] \in Ended \cup {"off"}) /\ UNCHANGED vars

Next ==
  \/ \E w \in Runs : RunStep(w) /\ ByRun(w)
  \/ (OthersEdit \/ Tick) /\ Touch /\ UNCHANGED <<hpc, snapshot>>
  \/ TestStep
  \/ Quiet

Spec == Init /\ [][Next]_vars
-----------------------------------------------------------------------------
Replaced(w) == pc[w] = "replace" /\ pc'[w] = "done"

(* Action: a run replaces the file without losing another entry or another *)
(* top-level key, and never replaces one it could not read, unless the     *)
(* file or its mode changed after the run read it (_merge_mcp_servers and  *)
(* write).                                                                 *)
KeepsSiblings(w) ==
  Replaced(w) /\ "read" \notin stale[w] =>
    /\ ~Unreadable(file)
    /\ file'.rest = file.rest
    /\ \A n \in Names \ {name[w]} : file'.servers[n] = file.servers[n]

NoSiblingLost == [][\A w \in Runs : KeepsSiblings(w)]_vars

(* Action: the entry of another program or of an earlier setup that a run  *)
(* replaces is the one whose command the user was shown before agreeing,   *)
(* unless the file changed since (_resolve_server_name and write).         *)
Asked(w) ==
  Replaced(w) /\ "inspected" \notin stale[w] =>
    file.servers[name[w]] \in {shown[w], NoEntry, Scalar}

OverwriteAsked == [][\A w \in Runs : Asked(w)]_vars

(* Safety: what a run replaced, or what claude mcp add made of the file,   *)
(* is still in a backup, unless the file changed between backup and write, *)
(* another run made its backup in the same second, or the smoke test       *)
(* removed it (_backup).                                                   *)
BackupKeepsDisplaced ==
  \A d \in displaced : \E s \in Seconds : backups[s] = d.content

(* Safety: the smoke test leaves the configuration it found, and wherever  *)
(* it stops the entries it has nothing to do with are those it found,      *)
(* unless it is cut off while it writes them back (main).                  *)
TestRestores ==
  hpc \notin {"off", "refused"} /\ ~touched =>
    /\ hpc \in {"sweep", "done"} => file = snapshot
    /\ \/ file.shape = "blank"
       \/ /\ file.rest = snapshot.rest
          /\ \A n \in Names \ {TestName} : file.servers[n] = snapshot.servers[n]

(* Safety: a run under way can always go on by itself or by its user's      *)
(* answer, whatever the claude program, the host, the other runs and the   *)
(* test do (the timeouts of inspect_existing and write).                   *)
NeverStuck ==
  \A w \in Runs :
    pc[w] \notin Ended \cup {"off", "orphan"} => ENABLED (OwnStep(w) /\ ByRun(w))

(* At most so many steps of its own are left to a run: two for a rename    *)
(* round, and those of the claude program it started with it.              *)
StepsLeft(w) ==
  CASE pc[w] \in Ended  -> 0
    [] pc[w] = "replace" -> 1
    [] pc[w] = "orphan"  -> IF child[w] = "running" THEN 2 ELSE 1
    [] pc[w] = "wait"    -> IF child[w] = "running" THEN 3 ELSE 2
    [] pc[w] = "spawn"   -> 4
    [] pc[w] = "backup"  -> 5
    [] pc[w] = "write"   -> 6
    [] pc[w] = "ask"     -> 5 + 2 * (MaxRenames - round[w])
    [] pc[w] = "inspect" -> 6 + 2 * (MaxRenames - round[w])
    [] pc[w] = "off"     -> 7 + 2 * MaxRenames

(* Action: a run registers or fails after so many steps, whatever others   *)
(* write to the file between its looks at it and whether the claude        *)
(* program outlives it; no other run, no edit and no sweep moves it        *)
(* (_resolve_server_name, write, _run_writer).                             *)
RunsDescend ==
  [][\A w \in Runs :
       \/ UNCHANGED <<pc[w], name[w], round[w], shown[w], seen[w], child[w], saved[w]>>
       \/ StepsLeft(w)' < StepsLeft(w)]_vars
=============================================================================
