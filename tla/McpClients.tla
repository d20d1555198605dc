------------------------------ MODULE McpClients ------------------------------
(***************************************************************************)
(* Runs of the setup wizard that register spl-bridge in one host's         *)
(* configuration (_resolve_server_name and _run_writer of                  *)
(* setup_wizard/__init__.py over the writers of mcp_clients.py).  Runs may *)
(* overlap, fail and be killed anywhere, and no lock keeps the host, an    *)
(* editor or the claude program away from the file meanwhile.              *)
(***************************************************************************)
EXTENDS HostConfig

CONSTANTS
  Runs,        \* runs of the wizard
  LaunchOf,    \* LaunchOf[w]: what _build_launch renders in run w
  Foreign,     \* entries others make: <<name, value>>
  EditShapes,  \* what else they may make of the file
  ValidNames,  \* names _validate_server_name accepts
  MaxRenames,  \* _COLLISION_MAX_RENAMES
  MaxSecond,   \* bound on the clock
  MaxEdits,    \* bound on the edits of others
  InitFiles,   \* what the file may be at first
  Kinds        \* "json": Cursor or Claude Desktop; "cli": the claude program

Seconds == 0..MaxSecond

ASSUME McpClientsAssumption ==
  /\ LaunchOf \in [Runs -> Launches]
  /\ Foreign \subseteq Names \X (Launches \cup {Scalar})
  /\ ValidNames \subseteq Names /\ ValidNames # {}
  /\ EditShapes \subseteq Shapes
  /\ MaxRenames \in Nat \ {0}
  /\ MaxSecond \in Nat /\ MaxEdits \in Nat
  /\ InitFiles \subseteq {f \in File : WellFormed(f)}
  /\ Kinds \subseteq {"json", "cli"}

VARIABLES
  file,       \* the host's configuration
  backups,    \* backups[s]: the copy .bak.<second s>, absent if there is none
  now,        \* the second the clock shows
  kind,       \* the writer every run uses
  pc,         \* where each run is
  name,       \* the server name it has settled on
  round,      \* renames so far
  shown,      \* the entry the user was asked about
  seen,       \* existing: what write has read
  child,      \* the claude program a run started
  edits,      \* history: edits of others so far
  saved,      \* history: the second of a run's backup
  stale,      \* history: what of a run is out of date: see Stages
  displaced   \* history: what runs replaced and a backup should hold

localVars == <<round, shown, seen, saved, stale>>
runVars   == <<pc, name, child, localVars>>
fileVars  == <<file, backups, now, kind, edits, displaced>>
hostVars  == <<fileVars, runVars>>

NoName   == CHOOSE n \in ValidNames : TRUE   \* before Start sets it
NoBackup == MaxSecond + 1

(* The file has changed since the run inspected it, read it or copied it,  *)
(* or the copy is gone.                                                    *)
Stages == {"inspected", "read", "copied"}

Ended == {"done", "failed"}   \* exit 0, or anything else

HostTypeOK ==
  /\ file \in File
  /\ backups \in [Seconds -> File]
  /\ now \in Seconds
  /\ kind \in {"json", "cli"}
  /\ pc \in [Runs -> {"off", "inspect", "ask", "write", "backup", "replace",
                      "spawn", "wait", "orphan"} \cup Ended]
  /\ name \in [Runs -> Names]
  /\ round \in [Runs -> 0..(MaxRenames - 1)]
  /\ shown \in [Runs -> Launches \cup {NoEntry}]
  /\ seen \in [Runs -> File]
  /\ child \in [Runs -> {"none", "running", "wrote"}]
  /\ edits \in 0..MaxEdits
  /\ saved \in [Runs -> Seconds \cup {NoBackup}]
  /\ stale \in [Runs -> SUBSET Stages]
  /\ displaced \subseteq [content : File, second : Seconds \cup {NoBackup}]

HostInit ==
  /\ file \in InitFiles
  /\ backups = [s \in Seconds |-> Shaped("absent")]
  /\ now = 0
  /\ kind \in Kinds
  /\ pc = [w \in Runs |-> "off"]
  /\ name = [w \in Runs |-> NoName]
  /\ round = [w \in Runs |-> 0]
  /\ shown = [w \in Runs |-> NoEntry]
  /\ seen = [w \in Runs |-> Empty]
  /\ child = [w \in Runs |-> "none"]
  /\ edits = 0
  /\ saved = [w \in Runs |-> NoBackup]
  /\ stale = [w \in Runs |-> {}]
  /\ displaced = {}

Goto(w, l) == pc' = [pc EXCEPT ![w] = l]

(* The run is over, and its local variables with it.                       *)
End(w, l) ==
  /\ Goto(w, l)
  /\ name' = [name EXCEPT ![w] = NoName]
  /\ round' = [round EXCEPT ![w] = 0]
  /\ shown' = [shown EXCEPT ![w] = NoEntry]
  /\ seen' = [seen EXCEPT ![w] = Empty]
  /\ saved' = [saved EXCEPT ![w] = NoBackup]

Fail(w) == End(w, "failed") /\ stale' = [stale EXCEPT ![w] = {}]

(* The file becomes f.  Of the runs under way, but those that are over     *)
(* with this step, all that was done is out of date.                       *)
Becomes(f, over) ==
  /\ file' = f
  /\ stale' = [w \in Runs |-> IF w \in over \/ pc[w] \in Ended \cup {"off"} THEN {}
                              ELSE IF f = file THEN stale[w] ELSE Stages]

Fresh(w, stages) == stale' = [stale EXCEPT ![w] = @ \ stages]
-----------------------------------------------------------------------------
(* main has asked for the name: the collision check is next.               *)
Start(w) ==
  /\ pc[w] = "off"
  /\ \E n \in Names : name' = [name EXCEPT ![w] = n]
  /\ Goto(w, "inspect")
  /\ UNCHANGED <<fileVars, child, localVars>>

(* inspect_existing of the JSON writers, on a file _read_existing refuses. *)
InspectFails(w) ==
  /\ pc[w] = "inspect" /\ kind = "json"
  /\ Crashes(file) \/ Refused(file)
  /\ Fail(w)
  /\ UNCHANGED <<fileVars, child>>

(* No entry under the name.  claude mcp get may also be missing, fail or   *)
(* time out, and an entry is then taken to be absent.                      *)
NoCollision(w) ==
  /\ pc[w] = "inspect"
  /\ kind = "json" => ~Crashes(file) /\ ~Refused(file) /\ Inspected(file, name[w]) = NoEntry
  /\ shown' = [shown EXCEPT ![w] = NoEntry]
  /\ Fresh(w, Stages)
  /\ Goto(w, "write")
  /\ UNCHANGED <<fileVars, name, child, round, seen, saved>>

(* An entry is there: the user sees its command and is asked.              *)
Collision(w) ==
  /\ pc[w] = "inspect"
  /\ ~Crashes(file) /\ ~Refused(file)
  /\ Inspected(file, name[w]) # NoEntry
  /\ shown' = [shown EXCEPT ![w] = Inspected(file, name[w])]
  /\ Fresh(w, Stages)
  /\ Goto(w, "ask")
  /\ UNCHANGED <<fileVars, name, child, round, seen, saved>>

Overwrite(w) ==
  /\ pc[w] = "ask"
  /\ Goto(w, "write")
  /\ UNCHANGED <<fileVars, name, child, localVars>>

(* Mutant: the new name is not looked up.                                  *)
RenameUnchecked(w) ==
  /\ pc[w] = "ask" /\ round[w] < MaxRenames - 1
  /\ round' = [round EXCEPT ![w] = @ + 1]
  /\ \E n \in Names : name' = [name EXCEPT ![w] = n]
  /\ Goto(w, "write")
  /\ UNCHANGED <<fileVars, child, shown, seen, saved, stale>>

(* Mutant: the prompts of the collision are not counted.                   *)
RenameUncounted(w) ==
  /\ pc[w] = "ask"
  /\ round' = [round EXCEPT ![w] = @ + 1]
  /\ \E n \in Names : name' = [name EXCEPT ![w] = n]
  /\ Goto(w, "inspect")
  /\ UNCHANGED <<fileVars, child, shown, seen, saved, stale>>

(* Another name, inspected in its turn.                                    *)
Rename(w) ==
  /\ pc[w] = "ask" /\ round[w] < MaxRenames - 1
  /\ round' = [round EXCEPT ![w] = @ + 1]
  /\ \E n \in Names : name' = [name EXCEPT ![w] = n]
  /\ Goto(w, "inspect")
  /\ UNCHANGED <<fileVars, child, shown, seen, saved, stale>>

(* Quit, an empty name, or no round left for another.                      *)
Quit(w) ==
  /\ pc[w] = "ask"
  /\ Fail(w)
  /\ UNCHANGED <<fileVars, child>>
-----------------------------------------------------------------------------
(* write: _validate_server_name raises a ValueError main does not catch;   *)
(* the claude program may be missing.                                      *)
Writes(w, k) == pc[w] = "write" /\ kind = k /\ name[w] \in ValidNames

WriteFails(w) ==
  /\ pc[w] = "write"
  /\ name[w] \notin ValidNames \/ kind = "cli"
  /\ Fail(w)
  /\ UNCHANGED <<fileVars, child>>

ReadExisting(w) ==
  /\ Writes(w, "json")
  /\ ~Crashes(file) /\ ~Refused(file)
  /\ seen' = [seen EXCEPT ![w] = Read(file)]
  /\ Fresh(w, {"read", "copied"})
  /\ Goto(w, "backup")
  /\ UNCHANGED <<fileVars, name, child, round, shown, saved>>

ReadFails(w) ==
  /\ Writes(w, "json")
  /\ Crashes(file) \/ Refused(file)
  /\ Fail(w)
  /\ UNCHANGED <<fileVars, child>>

(* The copies made in the seconds ss are no longer what they were.         *)
CopiesGo(ss, fresh) ==
  /\ displaced' = {d \in displaced : d.second \notin ss}
  /\ stale' = [v \in Runs |-> IF v \in fresh THEN stale[v] \ {"copied"}
                              ELSE IF saved[v] \in ss THEN stale[v] \cup {"copied"}
                              ELSE stale[v]]

BacksUp(w) == pc[w] = "backup" \/ Writes(w, "cli")

Backed(w) ==
  /\ BacksUp(w)
  /\ Goto(w, IF kind = "json" THEN "replace" ELSE "spawn")
  /\ UNCHANGED <<file, now, kind, edits, name, child, round, shown, seen>>

(* Mutants: a backup of this name that is there already is kept; an error  *)
(* of the copy is passed over.                                             *)
BackupOnce(w) ==
  /\ ~Unreadable(file) /\ file.shape # "absent"
  /\ backups' = [backups EXCEPT ![now] = IF @.shape = "absent" THEN file ELSE @]
  /\ saved' = [saved EXCEPT ![w] = now]
  /\ Fresh(w, {"copied"})
  /\ Backed(w)
  /\ UNCHANGED displaced
NoBackupQuietly(w) ==
  /\ file.shape = "absent" \/ Unreadable(file)
  /\ Fresh(w, {"copied"})
  /\ Backed(w)
  /\ UNCHANGED <<backups, saved, displaced>>

(* _backup: a copy of what is there now, named by the second.              *)
Backup(w) ==
  /\ ~Unreadable(file) /\ file.shape # "absent"
  /\ backups' = [backups EXCEPT ![now] = file]
  /\ saved' = [saved EXCEPT ![w] = now]
  /\ CopiesGo({now}, {w})
  /\ Backed(w)

NothingToBackup(w) ==
  /\ file.shape = "absent"
  /\ Fresh(w, {"copied"})
  /\ Backed(w)
  /\ UNCHANGED <<backups, saved, displaced>>

(* copy2 of a file that cannot be read raises.                             *)
BackupFails(w) ==
  /\ BacksUp(w) /\ Unreadable(file)
  /\ Fail(w)
  /\ UNCHANGED <<fileVars, child>>

(* What is displaced, by a run whose backup is up to date.                 *)
Displace(w) ==
  displaced' = IF "copied" \in stale[w] \/ file.shape = "absent" THEN displaced
               ELSE displaced \cup {[content |-> file, second |-> saved[w]]}

(* _merge_mcp_servers and os.replace.                                      *)
Replace(w) ==
  /\ pc[w] = "replace"
  /\ seen[w].section # "bad"
  /\ Becomes(Merged(seen[w], name[w], LaunchOf[w]), {w})
  /\ Displace(w)
  /\ End(w, "done")
  /\ UNCHANGED <<backups, now, kind, edits, child>>

(* dict() of a bad section raises, after the backup.                       *)
MergeFails(w) ==
  /\ pc[w] = "replace"
  /\ seen[w].section = "bad"
  /\ Fail(w)
  /\ UNCHANGED <<fileVars, child>>
-----------------------------------------------------------------------------
(* claude mcp add, a program of its own with its own way of merging.       *)
Spawn(w) ==
  /\ pc[w] = "spawn"
  /\ child' = [child EXCEPT ![w] = "running"]
  /\ Goto(w, "wait")
  /\ UNCHANGED <<fileVars, name, localVars>>

ChildWrites(w) ==
  /\ child[w] = "running"
  /\ ~Crashes(file) /\ ~Refused(file) /\ file.section # "bad"
  /\ \E f \in {Read(file), Empty} : Becomes(Merged(f, name[w], LaunchOf[w]), {})
  /\ child' = [child EXCEPT ![w] = "wrote"]
  /\ Displace(w)
  /\ UNCHANGED <<backups, now, kind, edits, pc, name, round, shown, seen, saved>>

ChildExits(w) ==
  /\ pc[w] \in {"wait", "orphan"} /\ child[w] # "none"
  /\ child' = [child EXCEPT ![w] = "none"]
  /\ \E l \in Ended : (l = "done" => pc[w] = "wait" /\ child[w] = "wrote") /\ End(w, l)
  /\ stale' = [stale EXCEPT ![w] = {}]
  /\ UNCHANGED fileVars

(* Mutant: the 15 seconds start again when it writes.                      *)
ChildTimesOutIdle(w) ==
  /\ pc[w] = "wait" /\ child[w] = "running"
  /\ child' = [child EXCEPT ![w] = "none"]
  /\ Fail(w)
  /\ UNCHANGED fileVars

(* 15 seconds are over: it is killed, whatever it has written.             *)
ChildTimesOut(w) ==
  /\ pc[w] = "wait" /\ child[w] # "none"
  /\ child' = [child EXCEPT ![w] = "none"]
  /\ Fail(w)
  /\ UNCHANGED fileVars

(* A run is killed or interrupted, or a step of it raises; the file is     *)
(* replaced in one step or not at all.                                     *)
Cut(w) ==
  /\ pc[w] \notin Ended \cup {"off", "orphan"}
  /\ child' = [child EXCEPT ![w] = "none"]
  /\ Fail(w)
  /\ UNCHANGED fileVars

(* The program it started may outlive it.                                  *)
Orphaned(w) ==
  /\ pc[w] = "wait"
  /\ Goto(w, "orphan")
  /\ UNCHANGED <<fileVars, name, child, localVars>>
-----------------------------------------------------------------------------
(* Others: the host, an editor or another program changes the file, its    *)
(* mode or its encoding.                                                   *)
Edited ==
  {[file EXCEPT !.readable = ~@]} \cup
  {Shaped(s) : s \in EditShapes} \cup
  (IF file.section = "bad" \/ Crashes(file) \/ Refused(file) THEN {}
   ELSE {Merged(Read(file), e[1], e[2]) : e \in Foreign})

OthersEdit ==
  /\ edits < MaxEdits
  /\ edits' = edits + 1
  /\ \E f \in {g \in Edited : WellFormed(g)} : Becomes(f, {})
  /\ UNCHANGED <<backups, now, kind, displaced, pc, name, child, round, shown, seen, saved>>

Tick ==
  /\ now < MaxSecond
  /\ now' = now + 1
  /\ UNCHANGED <<file, backups, kind, edits, displaced, runVars>>

(* What the wizard does by itself, its user answering.                     *)
OwnStep(w) ==
  \/ InspectFails(w) \/ NoCollision(w) \/ Collision(w) \/ Overwrite(w) \/ Rename(w) \/ Quit(w)
  \/ WriteFails(w) \/ ReadExisting(w) \/ ReadFails(w)
  \/ Backup(w) \/ NothingToBackup(w) \/ BackupFails(w) \/ Replace(w) \/ MergeFails(w)
  \/ Spawn(w) \/ ChildTimesOut(w)

RunStep(w) == Start(w) \/ OwnStep(w) \/ ChildWrites(w) \/ ChildExits(w) \/ Cut(w) \/ Orphaned(w)
=============================================================================
