------------------------------ MODULE DotFile ------------------------------
(***************************************************************************)
(* DotfileStore of spl_bridge/setup_wizard/credstore.py: store and delete  *)
(* read the whole file and write it anew through _atomic_write, with no    *)
(* lock; the server reads it by a parser of its own (_try_user_dotfile of  *)
(* config.py).  Writers are wizard processes, which may overlap, fail or   *)
(* be killed at any step; the machine may lose power; the file may have    *)
(* been written by hand, and its mode may be changed by hand.              *)
(***************************************************************************)
EXTENDS Naturals

CONSTANTS
  Writers,   \* processes that store or delete a credential
  Keys,      \* SECRET_KEYS
  Rank,      \* Rank[k]: the place of k in sorted order
  Values,    \* values _validate_value accepts
  Head,      \* Head[v]: v up to the first separator str.splitlines knows
  Tail,      \* Tail[v]: the lines of keys that follow it in v
  Empty,     \* the empty value
  Long,      \* values that take the file over MAX_SECRET_FILE_BYTES
  HandMade,  \* what a user may have written by hand
  None       \* no value: a deletion; in the file: no line of the key

(* The lines of a file, up to what its two readers tell apart: the first   *)
(* and the last line of each key.  A plain value has no separator in it.   *)
Plain   == {v \in Values : Head[v] = v}
Data    == [Keys -> Plain \cup {None}]
Lines   == [first : Data, last : Data, small : BOOLEAN]
Nothing == [k \in Keys |-> None]

ASSUME DotFileAssumption ==
  /\ None \notin Values
  /\ Head \in [Values -> Plain]
  /\ Tail \in [Values -> [first : Data, last : Data]]
  /\ \A v \in Values, k \in Keys : Tail[v].first[k] = None <=> Tail[v].last[k] = None
  /\ \A v \in Plain : Tail[v].first = Nothing
  /\ Long \subseteq Values
  /\ HandMade \subseteq Lines

(* SECRET_KEYS is finite.                                                  *)
ASSUME RankAssumption ==
  /\ Rank \in [Keys -> Nat]
  /\ \A ks \in SUBSET Keys : ks # {} =>
       \E i, j \in ks : \A k \in ks : Rank[i] <= Rank[k] /\ Rank[k] <= Rank[j]

VARIABLES
  file,      \* what the path names: its lines, whether its mode is 0600 and
             \* whether its contents are on the disk
  disk,      \* the file a power cut leaves at the path
  temp,      \* temp[w]: the temporary file of writer w
  pc,        \* where each writer is
  job,       \* job[w]: the key and the value it stores
  existing   \* existing[w]: what _read_all returned to it

vars == <<file, disk, temp, pc, job, existing>>

File == [lines : Lines, private : BOOLEAN, synced : BOOLEAN]
Jobs == [key : Keys, value : Values \cup {None}]

TypeOK ==
  /\ file \in File /\ disk \in File
  /\ temp \in [Writers -> {"none", "written", "synced"}]
  /\ pc \in [Writers -> {"idle", "write", "sync", "replace", "chmod"}]
  /\ job \in [Writers -> Jobs \cup {None}]
  /\ existing \in [Writers -> Data]

(* A missing file reads like one without lines.                            *)
NoLines == [first |-> Nothing, last |-> Nothing, small |-> TRUE]

Init ==
  /\ \E l \in HandMade \cup {NoLines} : file = [lines |-> l, private |-> TRUE, synced |-> TRUE]
  /\ disk = file
  /\ temp = [w \in Writers |-> "none"]
  /\ pc = [w \in Writers |-> "idle"]
  /\ job = [w \in Writers |-> None]
  /\ existing = [w \in Writers |-> Nothing]

Goto(w, l) == pc' = [pc EXCEPT ![w] = l]

(* The call is over or has no use for its local variables.                 *)
Forget(w) ==
  /\ temp' = [temp EXCEPT ![w] = "none"]
  /\ job' = [job EXCEPT ![w] = None]
  /\ existing' = [existing EXCEPT ![w] = Nothing]
-----------------------------------------------------------------------------
(* open_secret_file refuses a file whose mode is not 0600 or that is too   *)
(* large, and its callers go on as if there were none.                     *)
Readable(f) == f.private /\ f.lines.small

(* _read_all: of the lines of a key the last one counts.                   *)
Visible(f) == IF Readable(f) THEN f.lines.last ELSE Nothing

(* _try_user_dotfile: the first one counts, and an empty value is none.    *)
Text(v) == IF v = Empty THEN None ELSE v

Served(f) == [k \in Keys |-> IF Readable(f) THEN Text(f.lines.first[k]) ELSE None]

Fits(m) == \A k \in Keys : m[k] \notin Long

(* Mutant: the separators are those of _validate_value only.               *)
FormattedVerbatim(m) == [first |-> m, last |-> m, small |-> Fits(m)]

(* The lines _write_all makes of a map, key after key in sorted order, as  *)
(* they will be read.  _validate_value keeps out \n, \r and NUL, and       *)
(* str.splitlines has other separators: a value with one makes a line with *)
(* what comes before it, perhaps nothing, and the lines that follow may be *)
(* ones of any key.                                                        *)
Makers(m, k) == {j \in Keys : m[j] # None /\ (j = k \/ Tail[m[j]].first[k] # None)}

Least(ks)    == CHOOSE i \in ks : \A k \in ks : Rank[i] <= Rank[k]
Greatest(ks) == CHOOSE j \in ks : \A k \in ks : Rank[k] <= Rank[j]

FirstLine(m, k) ==
  LET i == Least(Makers(m, k)) IN
  IF Makers(m, k) = {} THEN None ELSE IF i = k THEN Head[m[k]] ELSE Tail[m[i]].first[k]

LastLine(m, k) ==
  LET j == Greatest(Makers(m, k)) IN
  IF Makers(m, k) = {} THEN None
  ELSE IF Tail[m[j]].last[k] = None THEN Head[m[k]] ELSE Tail[m[j]].last[k]

Formatted(m) ==
  [first |-> [k \in Keys |-> FirstLine(m, k)],
   last  |-> [k \in Keys |-> LastLine(m, k)],
   small |-> Fits(m)]
-----------------------------------------------------------------------------
(* store(k, v), or delete(k) when v is None: the validations and _read_all,*)
(* which reads through one descriptor and so sees one file and not two.    *)
(* Deleting a key no line holds, even an empty one, writes nothing.        *)
Begin(w, k, v) ==
  /\ pc[w] = "idle"
  /\ v = None => Visible(file)[k] # None
  /\ job' = [job EXCEPT ![w] = [key |-> k, value |-> v]]
  /\ existing' = [existing EXCEPT ![w] = Visible(file)]
  /\ Goto(w, "write")
  /\ UNCHANGED <<file, disk, temp>>

(* mkdir, mkstemp in the same directory (mode 0600), write and flush.      *)
Write(w) ==
  /\ pc[w] = "write"
  /\ temp' = [temp EXCEPT ![w] = "written"]
  /\ Goto(w, "sync")
  /\ UNCHANGED <<file, disk, job, existing>>

(* Mutant: the temporary file is not forced to the disk.                   *)
SyncSkipped(w) ==
  /\ pc[w] = "sync"
  /\ Goto(w, "replace")
  /\ UNCHANGED <<file, disk, temp, job, existing>>

(* os.fsync                                                                *)
Sync(w) ==
  /\ pc[w] = "sync"
  /\ temp' = [temp EXCEPT ![w] = "synced"]
  /\ Goto(w, "replace")
  /\ UNCHANGED <<file, disk, job, existing>>

(* Mutant: a line is added to those that are there.                        *)
ReplaceAppends(w) ==
  /\ pc[w] = "replace"
  /\ file' = [lines   |-> [Formatted([existing[w] EXCEPT ![job[w].key] = job[w].value])
                            EXCEPT !.first = [k \in Keys |-> IF existing[w][k] = None
                                                             THEN @[k] ELSE existing[w][k]]],
              private |-> TRUE,
              synced  |-> temp[w] = "synced"]
  /\ Goto(w, "chmod")
  /\ Forget(w)
  /\ UNCHANGED disk

(* os.replace                                                              *)
Replace(w) ==
  /\ pc[w] = "replace"
  /\ file' = [lines   |-> Formatted([existing[w] EXCEPT ![job[w].key] = job[w].value]),
              private |-> TRUE,
              synced  |-> temp[w] = "synced"]
  /\ Goto(w, "chmod")
  /\ Forget(w)
  /\ UNCHANGED disk

(* os.chmod to 0600 on the path, which names the file of the last writer.  *)
Chmod(w) ==
  /\ pc[w] = "chmod"
  /\ file' = [file EXCEPT !.private = TRUE]
  /\ Goto(w, "idle")
  /\ UNCHANGED <<disk, temp, job, existing>>

(* An OSError in any of these calls: the temporary file is unlinked and    *)
(* the exception leaves store.  A writer killed here or interrupted by a   *)
(* KeyboardInterrupt leaves its temporary file, which nobody reads.        *)
Stops(w) ==
  /\ pc[w] # "idle"
  /\ Goto(w, "idle")
  /\ Forget(w)
  /\ UNCHANGED <<file, disk>>

(* The file system writes the directory back, when it likes: the rename is *)
(* followed by no fsync of the directory.                                  *)
SyncDirectory ==
  /\ disk' = file
  /\ UNCHANGED <<file, temp, pc, job, existing>>

(* The contents of a file that were not forced to the disk are lost.       *)
PowerCut ==
  /\ file' = IF disk.synced THEN disk ELSE [disk EXCEPT !.lines = NoLines, !.synced = TRUE]
  /\ disk' = file'
  /\ temp' = [w \in Writers |-> "none"]
  /\ pc' = [w \in Writers |-> "idle"]
  /\ job' = [w \in Writers |-> None]
  /\ existing' = [w \in Writers |-> Nothing]

(* Somebody changes the mode of the file, to 0600 or away from it.         *)
ChangeMode(b) ==
  /\ file' = [file EXCEPT !.private = b]
  /\ UNCHANGED <<disk, temp, pc, job, existing>>

Next ==
  \/ \E w \in Writers :
       \/ \E k \in Keys, v \in Values \cup {None} : Begin(w, k, v)
       \/ Write(w) \/ Sync(w) \/ Replace(w) \/ Chmod(w) \/ Stops(w)
  \/ SyncDirectory \/ PowerCut
  \/ \E b \in BOOLEAN : ChangeMode(b)

Spec == Init /\ [][Next]_vars
-----------------------------------------------------------------------------
(* What a store owes the server, unless the file grows too large to be     *)
(* read: the new value of its key and, when its reading is still true of   *)
(* the file and no key had more than one line, the old ones of the others. *)
Replaced(w) == pc[w] = "replace" /\ pc'[w] = "chmod"

UpToDate(w) ==
  Readable(file) /\ file.lines.first = file.lines.last /\ existing[w] = file.lines.last

GivesOwn(w) ==
  Replaced(w) /\ file'.lines.small => Served(file')[job[w].key] = Text(job[w].value)

KeepsOthers(w) ==
  Replaced(w) /\ file'.lines.small =>
    \A k \in Keys \ {job[w].key} : Served(file')[k] = Served(file)[k]

Serves(w) == GivesOwn(w) /\ (UpToDate(w) => KeepsOthers(w))

(* Action: a store of a value without separators, and a deletion, serve    *)
(* the server as above: _read_all and _write_all agree with the reader the *)
(* server has of its own (_try_user_dotfile).                              *)
StoresPlain(w) == Replaced(w) /\ job[w].value \in Plain \cup {None}

StoreServes == [][\A w \in Writers : StoresPlain(w) => Serves(w)]_vars

(* Action: no value that _validate_value lets through makes a line of      *)
(* another key.                                                            *)
NoneInjected == [][\A w \in Writers : UpToDate(w) => KeepsOthers(w)]_vars

(* Refinement: whatever step a writer stops at and whenever the power      *)
(* fails, the file holds one of the maps that were committed, whole, and a *)
(* store is a snapshot followed by one atomic change of one key.  That two *)
(* overlapping stores can lose an update, and that a store over a file     *)
(* that cannot be read loses the other keys, is part of KeyStore: the code *)
(* has no lock (_atomic_write, DotfileStore.store and delete).  So is that *)
(* a value with a separator may leave any map.                             *)
KS == INSTANCE KeyStore WITH
        Clients <- Writers,
        now     <- [map |-> file.lines.last, shown |-> Readable(file)],
        settled <- [map |-> disk.lines.last, shown |-> Readable(disk)],
        snap    <- existing,
        fresh   <- {w \in Writers : pc[w] \in {"write", "sync", "replace"}}

Implements == KS!Spec
=============================================================================
