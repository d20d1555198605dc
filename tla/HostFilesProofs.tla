--------------------------- MODULE HostFilesProofs ---------------------------
(***************************************************************************)
(* Proofs about HostFiles, for any runs, names, entries, edits of others   *)
(* and bounds: type correctness, that a run loses no sibling it could read *)
(* and overwrites no entry its user was not shown, that backups keep what  *)
(* was displaced, that the smoke test puts back what it found, and that no *)
(* run goes round for ever.                                                *)
(***************************************************************************)
EXTENDS HostFiles, TLAPS

-----------------------------------------------------------------------------
(* Files.                                                                  *)
LEMMA Constants ==
  /\ Scalar \notin Launches /\ NoEntry \notin Launches /\ NoEntry # Scalar
  /\ NoRest \in Rests
  /\ LaunchOf \in [Runs -> Launches]
  /\ TestRun \in Runs /\ TestName \in Names /\ NoName \in Names
  /\ MaxRenames \in Nat /\ MaxRenames > 0
  /\ MaxSecond \in Nat /\ MaxEdits \in Nat
<1>1. NoName \in ValidNames
  BY McpClientsAssumption DEF NoName
<1> QED BY <1>1, HostConfigAssumption, McpClientsAssumption, HostFilesAssumption

LEMMA ShapedFile ==
  ASSUME NEW s \in Shapes
  PROVE  /\ Shaped(s) \in File /\ WellFormed(Shaped(s))
         /\ Shaped(s).shape = s /\ Shaped(s).readable
         /\ Shaped(s).rest = NoRest /\ Shaped(s).servers = NoServers
         /\ Shaped(s).section = "none"
  BY Constants DEF Shaped, File, Shapes, NoServers, WellFormed

LEMMA EmptyFile ==
  /\ Empty \in File /\ WellFormed(Empty) /\ Empty.shape = "object" /\ Empty.readable
  /\ Empty.rest = NoRest /\ Empty.servers = NoServers /\ Empty.section = "none"
  BY ShapedFile DEF Empty, Shapes

LEMMA FieldTypes ==
  ASSUME NEW f \in File
  PROVE  /\ f.shape \in Shapes
         /\ f.readable \in BOOLEAN /\ f.section \in {"none", "map", "bad"}
         /\ f.servers \in [Names -> Launches \cup {Scalar, NoEntry}] /\ f.rest \in Rests
  BY DEF File

LEMMA MergedFile ==
  ASSUME NEW f \in File, NEW n \in Names, NEW e \in Launches \cup {Scalar}
  PROVE  /\ Merged(f, n, e) \in File
         /\ Merged(f, n, e).shape = f.shape /\ Merged(f, n, e).readable = f.readable
         /\ Merged(f, n, e).section = "map" /\ Merged(f, n, e).rest = f.rest
         /\ Merged(f, n, e).servers = [f.servers EXCEPT ![n] = e]
  BY DEF Merged, File

(* What write merges into is an object, and so is what comes out.          *)
LEMMA ReadFile ==
  ASSUME NEW f \in File, WellFormed(f)
  PROVE  /\ Read(f) \in File /\ WellFormed(Read(f))
         /\ ~Crashes(f) /\ ~Refused(f) => Read(f).shape = "object" /\ Read(f).readable
         /\ ~Unreadable(f) => Read(f).rest = f.rest /\ Read(f).servers = f.servers
  BY EmptyFile, FieldTypes DEF Read, Crashes, Refused, Unreadable, WellFormed, Shapes

LEMMA MergedWellFormed ==
  ASSUME NEW f \in File, f.shape = "object", NEW n \in Names, NEW e \in Launches \cup {Scalar}
  PROVE  WellFormed(Merged(f, n, e))
  BY MergedFile DEF WellFormed

LEMMA InspectedType ==
  ASSUME NEW f \in File, WellFormed(f), NEW n \in Names
  PROVE  /\ Inspected(f, n) \in Launches \cup {NoEntry}
         /\ Inspected(f, n) \in Launches => Read(f).servers[n] = Inspected(f, n)
         /\ Inspected(f, n) = NoEntry => Read(f).servers[n] \in {NoEntry, Scalar}
<1>1. Read(f).servers \in [Names -> Launches \cup {Scalar, NoEntry}]
  BY ReadFile, FieldTypes
<1>2. Read(f).section # "map" => Read(f).servers = NoServers
  BY ReadFile DEF WellFormed
<1> QED BY <1>1, <1>2, Constants DEF Inspected, NoServers
-----------------------------------------------------------------------------
(* Types.                                                                  *)
Files == {f \in File : WellFormed(f)}

Pcs == {"off", "inspect", "ask", "write", "backup", "replace", "spawn", "wait", "orphan"}
         \cup Ended

FileInv ==
  /\ WellFormed(file) /\ WellFormed(snapshot)
  /\ \A w \in Runs : WellFormed(seen[w]) /\ seen[w].shape = "object" /\ seen[w].readable

FileTypes ==
  /\ file \in File
  /\ backups \in [Seconds -> File]
  /\ now \in Seconds
  /\ kind \in {"json", "cli"}
  /\ edits \in 0..MaxEdits
  /\ displaced \subseteq [content : File, second : Seconds \cup {NoBackup}]

RunTypes ==
  /\ pc \in [Runs -> Pcs]
  /\ name \in [Runs -> Names]
  /\ round \in [Runs -> 0..(MaxRenames - 1)]
  /\ shown \in [Runs -> Launches \cup {NoEntry}]
  /\ seen \in [Runs -> File]
  /\ child \in [Runs -> {"none", "running", "wrote"}]
  /\ saved \in [Runs -> Seconds \cup {NoBackup}]
  /\ stale \in [Runs -> SUBSET Stages]

TestTypes ==
  /\ hpc \in {"off", "wizard", "restore", "sweep", "done", "refused", "crashed"}
  /\ snapshot \in File
  /\ touched \in BOOLEAN

LEMMA TypeParts == TypeOK <=> FileTypes /\ RunTypes /\ TestTypes
  BY DEF TypeOK, HostTypeOK, FileTypes, RunTypes, TestTypes, Pcs

LEMMA EndTypes ==
  ASSUME RunTypes, NEW w \in Runs, NEW l \in Ended, End(w, l)
  PROVE  /\ pc' \in [Runs -> Pcs] /\ name' \in [Runs -> Names]
         /\ round' \in [Runs -> 0..(MaxRenames - 1)]
         /\ shown' \in [Runs -> Launches \cup {NoEntry}]
         /\ seen' \in [Runs -> File]
         /\ saved' \in [Runs -> Seconds \cup {NoBackup}]
  BY Constants, EmptyFile DEF RunTypes, End, Goto, Pcs

LEMMA FailTypes ==
  ASSUME RunTypes, NEW w \in Runs, Fail(w), child' \in [Runs -> {"none", "running", "wrote"}]
  PROVE  RunTypes'
<1>1. "failed" \in Ended
  BY DEF Ended
<1>2. stale' \in [Runs -> SUBSET Stages]
  BY DEF Fail, RunTypes
<1> QED BY <1>1, <1>2, EndTypes DEF Fail, RunTypes

LEMMA GotoTypes ==
  ASSUME RunTypes, NEW w \in Runs, NEW l \in Pcs, Goto(w, l)
  PROVE  pc' \in [Runs -> Pcs]
  BY DEF RunTypes, Goto

LEMMA FreshTypes ==
  ASSUME RunTypes, NEW w \in Runs, NEW S, Fresh(w, S)
  PROVE  stale' \in [Runs -> SUBSET Stages]
  BY DEF RunTypes, Fresh

LEMMA BecomesTypes ==
  ASSUME RunTypes, NEW f, NEW O, Becomes(f, O)
  PROVE  stale' \in [Runs -> SUBSET Stages]
  BY DEF RunTypes, Becomes

LEMMA CopiesGoTypes ==
  ASSUME RunTypes, FileTypes, NEW S, NEW F, CopiesGo(S, F)
  PROVE  /\ stale' \in [Runs -> SUBSET Stages]
         /\ displaced' \subseteq [content : File, second : Seconds \cup {NoBackup}]
<1>1. "copied" \in Stages
  BY DEF Stages
<1> QED BY <1>1 DEF RunTypes, FileTypes, CopiesGo

LEMMA DisplaceTypes ==
  ASSUME RunTypes, FileTypes, NEW w \in Runs, Displace(w)
  PROVE  displaced' \subseteq [content : File, second : Seconds \cup {NoBackup}]
  BY DEF RunTypes, FileTypes, Displace

LEMMA CollisionStepTypes ==
  ASSUME FileTypes, RunTypes, FileInv, NEW w \in Runs,
         \/ Start(w) \/ InspectFails(w) \/ NoCollision(w) \/ Collision(w)
         \/ Overwrite(w) \/ Rename(w) \/ Quit(w)
  PROVE  FileTypes' /\ RunTypes'
<1>a. \A l \in {"inspect", "ask", "write"} : l \in Pcs
  BY DEF Pcs
<1>1. CASE Start(w)
  BY <1>1, <1>a, GotoTypes DEF Start, FileTypes, RunTypes, fileVars, localVars
<1>2. CASE InspectFails(w)
  BY <1>2, FailTypes DEF InspectFails, FileTypes, RunTypes, fileVars
<1>3. CASE NoCollision(w)
  BY <1>3, <1>a, GotoTypes, FreshTypes DEF NoCollision, FileTypes, RunTypes, fileVars
<1>4. CASE Collision(w)
  <2>1. Inspected(file, name[w]) \in Launches \cup {NoEntry}
    BY InspectedType DEF FileTypes, RunTypes, FileInv
  <2> QED BY <1>4, <1>a, <2>1, GotoTypes, FreshTypes DEF Collision, FileTypes, RunTypes, fileVars
<1>5. CASE Overwrite(w)
  BY <1>5, <1>a, GotoTypes DEF Overwrite, FileTypes, RunTypes, fileVars, localVars
<1>6. CASE Rename(w)
  <2>1. round' \in [Runs -> 0..(MaxRenames - 1)]
    BY <1>6, Constants DEF Rename, RunTypes
  <2> QED BY <1>6, <1>a, <2>1, GotoTypes DEF Rename, FileTypes, RunTypes, fileVars
<1>7. CASE Quit(w)
  BY <1>7, FailTypes DEF Quit, FileTypes, RunTypes, fileVars
<1> QED BY <1>1, <1>2, <1>3, <1>4, <1>5, <1>6, <1>7

LEMMA BackupStepTypes ==
  ASSUME FileTypes, RunTypes, FileInv, NEW w \in Runs,
         \/ WriteFails(w) \/ ReadExisting(w) \/ ReadFails(w)
         \/ Backup(w) \/ NothingToBackup(w) \/ BackupFails(w)
  PROVE  FileTypes' /\ RunTypes'
<1>a. \A l \in {"backup", "replace", "spawn"} : l \in Pcs
  BY DEF Pcs
<1>1. CASE WriteFails(w)
  BY <1>1, FailTypes DEF WriteFails, FileTypes, RunTypes, fileVars
<1>2. CASE ReadExisting(w)
  BY <1>2, <1>a, GotoTypes, FreshTypes, ReadFile
     DEF ReadExisting, FileTypes, RunTypes, FileInv, fileVars
<1>3. CASE ReadFails(w)
  BY <1>3, FailTypes DEF ReadFails, FileTypes, RunTypes, fileVars
<1>4. CASE Backup(w)
  <2>1. pc' \in [Runs -> Pcs]
    BY <1>4, <1>a, GotoTypes DEF Backup, Backed
  <2>2. saved' \in [Runs -> Seconds \cup {NoBackup}] /\ backups' \in [Seconds -> File]
    BY <1>4 DEF Backup, FileTypes, RunTypes
  <2>3. /\ stale' \in [Runs -> SUBSET Stages]
        /\ displaced' \subseteq [content : File, second : Seconds \cup {NoBackup}]
    BY <1>4, CopiesGoTypes DEF Backup
  <2> QED BY <1>4, <2>1, <2>2, <2>3 DEF Backup, Backed, FileTypes, RunTypes
<1>5. CASE NothingToBackup(w)
  <2>1. pc' \in [Runs -> Pcs]
    BY <1>5, <1>a, GotoTypes DEF NothingToBackup, Backed
  <2> QED BY <1>5, <2>1, FreshTypes DEF NothingToBackup, Backed, FileTypes, RunTypes
<1>6. CASE BackupFails(w)
  BY <1>6, FailTypes DEF BackupFails, FileTypes, RunTypes, fileVars
<1> QED BY <1>1, <1>2, <1>3, <1>4, <1>5, <1>6

LEMMA WriteStepTypes ==
  ASSUME FileTypes, RunTypes, FileInv, NEW w \in Runs,
         \/ Replace(w) \/ MergeFails(w) \/ Spawn(w) \/ ChildTimesOut(w)
         \/ ChildWrites(w) \/ ChildExits(w) \/ Cut(w) \/ Orphaned(w)
  PROVE  FileTypes' /\ RunTypes'
<1>a. \A l \in {"wait", "orphan"} : l \in Pcs
  BY DEF Pcs
<1>b. "done" \in Ended /\ "failed" \in Ended
  BY DEF Ended
<1>c. LaunchOf[w] \in Launches \cup {Scalar}
  BY Constants
<1>1. CASE Replace(w)
  <2>1. Merged(seen[w], name[w], LaunchOf[w]) \in File
    BY <1>c, MergedFile DEF RunTypes
  <2>2. file' \in File /\ stale' \in [Runs -> SUBSET Stages]
    BY <1>1, <2>1, BecomesTypes DEF Replace, Becomes
  <2>3. FileTypes'
    BY <1>1, <2>2, DisplaceTypes DEF Replace, FileTypes
  <2>4. RunTypes'
    BY <1>1, <1>b, <2>2, EndTypes DEF Replace, RunTypes
  <2> QED BY <2>3, <2>4
<1>2. CASE MergeFails(w)
  BY <1>2, FailTypes DEF MergeFails, FileTypes, RunTypes, fileVars
<1>3. CASE Spawn(w)
  BY <1>3, <1>a, GotoTypes DEF Spawn, FileTypes, RunTypes, fileVars, localVars
<1>4. CASE ChildTimesOut(w)
  <2>1. child' \in [Runs -> {"none", "running", "wrote"}]
    BY <1>4 DEF ChildTimesOut, RunTypes
  <2> QED BY <1>4, <2>1, FailTypes DEF ChildTimesOut, FileTypes, fileVars
<1>5. CASE ChildWrites(w)
  <2>1. PICK f \in {Read(file), Empty} : Becomes(Merged(f, name[w], LaunchOf[w]), {})
    BY <1>5 DEF ChildWrites
  <2>2. f \in File
    BY <2>1, ReadFile, EmptyFile DEF FileTypes, FileInv
  <2>3. file' \in File /\ stale' \in [Runs -> SUBSET Stages]
    BY <2>1, <2>2, <1>c, MergedFile, BecomesTypes DEF RunTypes, Becomes
  <2>4. child' \in [Runs -> {"none", "running", "wrote"}]
    BY <1>5 DEF ChildWrites, RunTypes
  <2>5. FileTypes'
    BY <1>5, <2>3, DisplaceTypes DEF ChildWrites, FileTypes
  <2> QED BY <1>5, <2>3, <2>4, <2>5 DEF ChildWrites, RunTypes
<1>6. CASE ChildExits(w)
  <2>1. PICK l \in Ended : End(w, l)
    BY <1>6 DEF ChildExits
  <2>2. /\ child' \in [Runs -> {"none", "running", "wrote"}]
        /\ stale' \in [Runs -> SUBSET Stages]
    BY <1>6 DEF ChildExits, RunTypes
  <2>3. RunTypes'
    BY <2>1, <2>2, EndTypes DEF RunTypes
  <2> QED BY <1>6, <2>3 DEF ChildExits, FileTypes, fileVars
<1>7. CASE Cut(w)
  <2>1. child' \in [Runs -> {"none", "running", "wrote"}]
    BY <1>7 DEF Cut, RunTypes
  <2> QED BY <1>7, <2>1, FailTypes DEF Cut, FileTypes, fileVars
<1>8. CASE Orphaned(w)
  BY <1>8, <1>a, GotoTypes DEF Orphaned, FileTypes, RunTypes, fileVars, localVars
<1> QED BY <1>1, <1>2, <1>3, <1>4, <1>5, <1>6, <1>7, <1>8

LEMMA RunStepTypes ==
  ASSUME FileTypes, RunTypes, FileInv, NEW w \in Runs, RunStep(w)
  PROVE  FileTypes' /\ RunTypes'
  BY CollisionStepTypes, BackupStepTypes, WriteStepTypes DEF RunStep, OwnStep

(* What a run or the others make of a file is a file again.                *)
SeenInv == \A w \in Runs : WellFormed(seen[w]) /\ seen[w].shape = "object" /\ seen[w].readable

LEMMA EndSeen ==
  ASSUME RunTypes, SeenInv, NEW w \in Runs, NEW l, End(w, l)
  PROVE  SeenInv'
  BY EmptyFile DEF RunTypes, SeenInv, End

LEMMA RunStepFiles ==
  ASSUME FileTypes, RunTypes, FileInv, NEW w \in Runs, RunStep(w), UNCHANGED snapshot
  PROVE  FileInv'
<1>a. WellFormed(file) /\ WellFormed(snapshot) /\ SeenInv
  BY DEF FileInv, SeenInv
<1>b. LaunchOf[w] \in Launches \cup {Scalar} /\ seen[w] \in File /\ name[w] \in Names
  BY Constants DEF RunTypes
<1>1. CASE ReadExisting(w)
  <2>1. WellFormed(Read(file)) /\ Read(file).shape = "object" /\ Read(file).readable
    BY <1>a, <1>1, ReadFile DEF ReadExisting, FileTypes
  <2>2. SeenInv'
    BY <1>a, <1>1, <2>1 DEF ReadExisting, SeenInv, RunTypes
  <2> QED BY <1>a, <1>1, <2>2 DEF ReadExisting, FileInv, SeenInv, fileVars
<1>2. CASE Replace(w)
  <2>1. WellFormed(Merged(seen[w], name[w], LaunchOf[w]))
    BY <1>a, <1>b, MergedWellFormed DEF SeenInv
  <2>2. SeenInv'
    BY <1>a, <1>2, EndSeen DEF Replace
  <2> QED BY <1>a, <1>2, <2>1, <2>2 DEF Replace, Becomes, FileInv, SeenInv
<1>3. CASE ChildWrites(w)
  <2>1. PICK f \in {Read(file), Empty} : Becomes(Merged(f, name[w], LaunchOf[w]), {})
    BY <1>3 DEF ChildWrites
  <2>2. f \in File /\ f.shape = "object"
    BY <1>a, <1>3, <2>1, ReadFile, EmptyFile DEF FileTypes, ChildWrites
  <2>3. WellFormed(Merged(f, name[w], LaunchOf[w]))
    BY <1>b, <2>2, MergedWellFormed
  <2> QED BY <1>a, <1>3, <2>1, <2>3 DEF ChildWrites, Becomes, FileInv, SeenInv
<1>4. CASE \/ Start(w) \/ NoCollision(w) \/ Collision(w) \/ Overwrite(w) \/ Rename(w)
          \/ Backup(w) \/ NothingToBackup(w) \/ Spawn(w) \/ Orphaned(w)
  <2>1. seen' = seen /\ file' = file
    BY <1>4 DEF Start, NoCollision, Collision, Overwrite, Rename, Backup, NothingToBackup, Backed,
                Spawn, Orphaned, fileVars, localVars
  <2> QED BY <1>a, <2>1 DEF FileInv, SeenInv
<1>5. CASE \/ InspectFails(w) \/ Quit(w) \/ WriteFails(w) \/ ReadFails(w) \/ BackupFails(w)
          \/ MergeFails(w) \/ ChildTimesOut(w) \/ Cut(w)
  <2>1. Fail(w) /\ file' = file
    BY <1>5 DEF InspectFails, Quit, WriteFails, ReadFails, BackupFails, MergeFails,
                ChildTimesOut, Cut, fileVars
  <2>2. SeenInv'
    BY <1>a, <2>1, EndSeen DEF Fail
  <2> QED BY <1>a, <2>1, <2>2 DEF FileInv, SeenInv
<1>6. CASE ChildExits(w)
  <2>1. PICK l \in Ended : End(w, l)
    BY <1>6 DEF ChildExits
  <2>2. SeenInv'
    BY <1>a, <2>1, EndSeen
  <2> QED BY <1>a, <1>6, <2>2 DEF ChildExits, FileInv, SeenInv, fileVars
<1> QED BY <1>1, <1>2, <1>3, <1>4, <1>5, <1>6 DEF RunStep, OwnStep

LEMMA OthersStep ==
  ASSUME FileTypes, RunTypes, FileInv, OthersEdit, UNCHANGED snapshot
  PROVE  FileTypes' /\ RunTypes' /\ FileInv'
<1>1. PICK f \in {g \in Edited : WellFormed(g)} : Becomes(f, {})
  BY DEF OthersEdit
<1>2. f \in File
  <2>1. CASE f = [file EXCEPT !.readable = ~@]
    BY <2>1 DEF FileTypes, File
  <2>2. CASE f \in {Shaped(s) : s \in EditShapes}
    BY <2>2, ShapedFile, McpClientsAssumption
  <2>3. CASE ~Crashes(file) /\ ~Refused(file) /\ f \in {Merged(Read(file), e[1], e[2]) : e \in Foreign}
    <3>1. PICK e \in Foreign : f = Merged(Read(file), e[1], e[2])
      BY <2>3
    <3>2. e[1] \in Names /\ e[2] \in Launches \cup {Scalar}
      BY McpClientsAssumption
    <3> QED BY <3>1, <3>2, ReadFile, MergedFile DEF FileTypes, FileInv
  <2> QED BY <1>1, <2>1, <2>2, <2>3 DEF Edited
<1>3. file' \in File /\ WellFormed(file') /\ stale' \in [Runs -> SUBSET Stages]
  BY <1>1, <1>2, BecomesTypes DEF Becomes
<1>4. edits' \in 0..MaxEdits
  BY Constants DEF OthersEdit, FileTypes
<1>5. FileTypes' /\ RunTypes'
  BY <1>3, <1>4 DEF OthersEdit, FileTypes, RunTypes
<1> QED BY <1>3, <1>5 DEF OthersEdit, FileInv

LEMMA TestStepTypes ==
  ASSUME FileTypes, RunTypes, TestTypes, FileInv, TestStep
  PROVE  FileTypes' /\ RunTypes' /\ TestTypes' /\ FileInv'
<1>s. /\ Shaped("absent") \in File /\ Shaped("blank") \in File
      /\ WellFormed(Shaped("absent")) /\ WellFormed(Shaped("blank"))
  BY ShapedFile DEF Shapes
<1>1. CASE Snapshot
  BY <1>1 DEF Snapshot, FileTypes, RunTypes, TestTypes, FileInv, hostVars, fileVars, runVars, localVars
<1>2. CASE Inspect
  BY <1>2 DEF Inspect, FileTypes, RunTypes, TestTypes, FileInv, hostVars, fileVars, runVars, localVars
<1>3. CASE Restore
  <2>1. stale' \in [Runs -> SUBSET Stages]
    BY <1>3, BecomesTypes DEF Restore
  <2>2. FileTypes' /\ TestTypes'
    BY <1>3 DEF Restore, Becomes, FileTypes, TestTypes
  <2> QED BY <1>3, <2>1, <2>2 DEF Restore, Becomes, RunTypes, FileInv
<1>4. CASE Sweep
  <2>1. /\ stale' \in [Runs -> SUBSET Stages]
        /\ displaced' \subseteq [content : File, second : Seconds \cup {NoBackup}]
    BY <1>4, CopiesGoTypes DEF Sweep
  <2> QED BY <1>4, <1>s, <2>1 DEF Sweep, FileTypes, RunTypes, TestTypes, FileInv
<1>5. CASE TestKilled
  <2>1. stale' \in [Runs -> SUBSET Stages]
    BY <1>5, BecomesTypes DEF TestKilled, RunTypes
  <2>2. file' \in File /\ WellFormed(file')
    BY <1>5, <1>s DEF TestKilled, Becomes, FileTypes, FileInv
  <2> QED BY <1>5, <2>1, <2>2 DEF TestKilled, FileTypes, RunTypes, TestTypes, FileInv
<1> QED BY <1>1, <1>2, <1>3, <1>4, <1>5 DEF TestStep

LEMMA TypeInit == Init => TypeOK /\ FileInv
<1> SUFFICES ASSUME Init PROVE TypeOK /\ FileInv
  OBVIOUS
<1>1. Shaped("absent") \in File /\ WellFormed(Shaped("absent"))
  BY ShapedFile DEF Shapes
<1>2. file \in File /\ WellFormed(file) /\ kind \in {"json", "cli"}
  BY McpClientsAssumption DEF Init, HostInit
<1>3. 0 \in Seconds /\ 0 \in 0..MaxEdits /\ 0 \in 0..(MaxRenames - 1)
  BY Constants DEF Seconds
<1>4. FileTypes
  BY <1>1, <1>2, <1>3 DEF FileTypes, Init, HostInit
<1>5. RunTypes
  BY <1>3, EmptyFile, Constants DEF RunTypes, Init, HostInit, Pcs
<1> QED BY <1>1, <1>2, <1>4, <1>5, EmptyFile, TypeParts DEF TestTypes, FileInv, Init, HostInit

LEMMA TypeStep == TypeOK /\ FileInv /\ [Next]_vars => TypeOK' /\ FileInv'
<1> SUFFICES ASSUME TypeOK, FileInv, [Next]_vars PROVE TypeOK' /\ FileInv'
  OBVIOUS
<1>a. FileTypes /\ RunTypes /\ TestTypes
  BY TypeParts
<1>b. TypeOK' <=> FileTypes' /\ RunTypes' /\ TestTypes'
  BY DEF TypeOK, HostTypeOK, FileTypes, RunTypes, TestTypes, Pcs
<1>1. ASSUME NEW w \in Runs, RunStep(w), ByRun(w) PROVE TypeOK' /\ FileInv'
  <2>1. touched' \in BOOLEAN
    BY <1>a, <1>1 DEF ByRun, Touch, TestTypes
  <2>2. TestTypes'
    BY <1>a, <1>1, <2>1 DEF ByRun, TestTypes
  <2> QED BY <1>a, <1>b, <1>1, <2>2, RunStepTypes, RunStepFiles DEF ByRun
<1>2. CASE (OthersEdit \/ Tick) /\ Touch /\ UNCHANGED <<hpc, snapshot>>
  <2>1. TestTypes'
    <3>1. touched' \in BOOLEAN
      BY <1>a, <1>2 DEF Touch, TestTypes
    <3> QED BY <1>a, <1>2, <3>1 DEF TestTypes
  <2>2. CASE OthersEdit
    BY <1>a, <1>b, <1>2, <2>1, <2>2, OthersStep
  <2>3. CASE Tick
    <3>1. now' \in Seconds
      BY <1>a, <2>3, Constants DEF Tick, FileTypes, Seconds
    <3> QED BY <1>a, <1>b, <1>2, <2>1, <2>3, <3>1
            DEF Tick, FileTypes, RunTypes, FileInv, runVars, localVars
  <2> QED BY <1>2, <2>2, <2>3
<1>3. CASE TestStep
  BY <1>a, <1>b, <1>3, TestStepTypes
<1>4. CASE UNCHANGED vars
  BY <1>a, <1>b, <1>4 DEF FileTypes, RunTypes, TestTypes, FileInv, vars, hostVars, fileVars,
                          runVars, localVars, testVars
<1> QED BY <1>1, <1>2, <1>3, <1>4 DEF Next, Quiet

(* The variables have their types: File is an abstraction of what json     *)
(* loads, and the rounds of _resolve_server_name stay below                *)
(* _COLLISION_MAX_RENAMES.                                                 *)
THEOREM TypeCorrect == Spec => []TypeOK
<1>1. Init => TypeOK /\ FileInv
  BY TypeInit
<1>2. (TypeOK /\ FileInv) /\ [Next]_vars => (TypeOK /\ FileInv)'
  BY TypeStep
<1> QED BY <1>1, <1>2, PTL DEF Spec
-----------------------------------------------------------------------------
(* What a run knows of the file, as long as its knowledge is not stale.    *)
Unread(w) == "read" \in stale[w]
Uninspected(w) == "inspected" \in stale[w]

ReadInv(w) ==
  /\ pc[w] \in {"backup", "replace"} /\ ~Unread(w) => seen[w] = Read(file)
  /\ pc[w] = "replace" /\ (~Unread(w) \/ ~Uninspected(w)) => ~Unreadable(file)

AskInv(w) ==
  /\ pc[w] \in {"backup", "replace"} => kind = "json"
  /\ kind = "json" /\ pc[w] \in {"ask", "write", "backup", "replace"} /\ ~Uninspected(w) =>
       Inspected(file, name[w]) \in {shown[w], NoEntry}

KnowInv == \A w \in Runs : ReadInv(w) /\ AskInv(w)

LEMMA KnowFrame ==
  ASSUME RunTypes, NEW v \in Runs, ReadInv(v), AskInv(v), kind' = kind,
         pc'[v] = pc[v], name'[v] = name[v], shown'[v] = shown[v], seen'[v] = seen[v],
         file' = file, stale[v] \ {"copied"} \subseteq stale'[v]
  PROVE  ReadInv(v)' /\ AskInv(v)'
<1>1. (Unread(v) => Unread(v)') /\ (Uninspected(v) => Uninspected(v)')
  BY DEF Unread, Uninspected
<1> QED BY <1>1 DEF ReadInv, AskInv

(* A run whose knowledge the step makes stale altogether.                  *)
LEMMA KnowStale ==
  ASSUME RunTypes, NEW v \in Runs, ReadInv(v), AskInv(v), kind' = kind, pc'[v] = pc[v],
         stale'[v] = Stages
  PROVE  ReadInv(v)' /\ AskInv(v)'
<1>1. Unread(v)' /\ Uninspected(v)'
  BY DEF Unread, Uninspected, Stages
<1> QED BY <1>1 DEF ReadInv, AskInv

LEMMA KnowOver ==
  ASSUME NEW v \in Runs, pc'[v] \in Ended \cup {"off", "inspect", "spawn", "wait", "orphan"}
  PROVE  ReadInv(v)' /\ AskInv(v)'
  BY DEF ReadInv, AskInv, Ended

(* The file may change under the others.                                   *)
LEMMA KnowBecomes ==
  ASSUME RunTypes, NEW v \in Runs, ReadInv(v), AskInv(v), NEW f, NEW O, Becomes(f, O),
         v \notin O, kind' = kind, pc'[v] = pc[v], name'[v] = name[v], shown'[v] = shown[v],
         seen'[v] = seen[v]
  PROVE  ReadInv(v)' /\ AskInv(v)'
<1>1. CASE pc[v] \in Ended \cup {"off"}
  BY <1>1, KnowOver
<1>2. CASE pc[v] \notin Ended \cup {"off"} /\ f = file
  <2>1. stale'[v] = stale[v] /\ file' = file
    BY <1>2 DEF Becomes
  <2> QED BY <2>1, KnowFrame
<1>3. CASE pc[v] \notin Ended \cup {"off"} /\ f # file
  <2>1. stale'[v] = Stages
    BY <1>3 DEF Becomes
  <2> QED BY <2>1, KnowStale
<1> QED BY <1>1, <1>2, <1>3

(* The other runs: only Backup, Replace and ChildWrites touch what they    *)
(* rest on.                                                                *)
LEMMA KnowOthers ==
  ASSUME RunTypes, KnowInv, NEW w \in Runs, RunStep(w), NEW v \in Runs \ {w}
  PROVE  ReadInv(v)' /\ AskInv(v)'
<1>a. ReadInv(v) /\ AskInv(v)
  BY DEF KnowInv
<1>1. CASE Replace(w)
  <2>1. Becomes(Merged(seen[w], name[w], LaunchOf[w]), {w}) /\ v \notin {w}
    BY <1>1 DEF Replace
  <2>2. /\ kind' = kind /\ pc'[v] = pc[v] /\ name'[v] = name[v] /\ shown'[v] = shown[v]
        /\ seen'[v] = seen[v]
    BY <1>1 DEF Replace, End, Goto, RunTypes
  <2> QED BY <1>a, <2>1, <2>2, KnowBecomes
<1>2. CASE ChildWrites(w)
  <2>1. PICK f \in {Read(file), Empty} : Becomes(Merged(f, name[w], LaunchOf[w]), {})
    BY <1>2 DEF ChildWrites
  <2>2. /\ kind' = kind /\ pc'[v] = pc[v] /\ name'[v] = name[v] /\ shown'[v] = shown[v]
        /\ seen'[v] = seen[v]
    BY <1>2 DEF ChildWrites
  <2> QED BY <1>a, <2>1, <2>2, KnowBecomes
<1>3. CASE Backup(w)
  <2>1. /\ kind' = kind /\ pc'[v] = pc[v] /\ name'[v] = name[v] /\ shown'[v] = shown[v]
        /\ seen'[v] = seen[v] /\ file' = file
    BY <1>3 DEF Backup, Backed, Goto, RunTypes
  <2>2. stale[v] \ {"copied"} \subseteq stale'[v]
    BY <1>3 DEF Backup, CopiesGo, RunTypes
  <2> QED BY <1>a, <2>1, <2>2, KnowFrame
<1>4. CASE \/ InspectFails(w) \/ Quit(w) \/ WriteFails(w) \/ ReadFails(w) \/ BackupFails(w)
          \/ MergeFails(w) \/ ChildTimesOut(w) \/ Cut(w)
  <2>1. Fail(w) /\ file' = file /\ kind' = kind
    BY <1>4 DEF InspectFails, Quit, WriteFails, ReadFails, BackupFails, MergeFails,
                ChildTimesOut, Cut, fileVars
  <2>2. /\ pc'[v] = pc[v] /\ name'[v] = name[v] /\ shown'[v] = shown[v]
        /\ seen'[v] = seen[v] /\ stale'[v] = stale[v]
    BY <2>1 DEF Fail, End, Goto, RunTypes
  <2> QED BY <1>a, <2>1, <2>2, KnowFrame
<1>5. CASE ChildExits(w)
  <2>1. PICK l \in Ended : End(w, l)
    BY <1>5 DEF ChildExits
  <2>2. /\ pc'[v] = pc[v] /\ name'[v] = name[v] /\ shown'[v] = shown[v]
        /\ seen'[v] = seen[v] /\ stale'[v] = stale[v] /\ file' = file /\ kind' = kind
    BY <1>5, <2>1 DEF ChildExits, End, Goto, RunTypes, fileVars
  <2> QED BY <1>a, <2>2, KnowFrame
<1>6. CASE \/ Start(w) \/ NoCollision(w) \/ Collision(w) \/ Overwrite(w) \/ Rename(w)
          \/ ReadExisting(w) \/ NothingToBackup(w) \/ Spawn(w) \/ Orphaned(w)
  <2>1. /\ pc'[v] = pc[v] /\ name'[v] = name[v] /\ shown'[v] = shown[v]
        /\ seen'[v] = seen[v] /\ stale'[v] = stale[v] /\ file' = file /\ kind' = kind
    BY <1>6 DEF Start, NoCollision, Collision, Overwrite, Rename, ReadExisting, NothingToBackup,
                Backed, Spawn, Orphaned, Goto, Fresh, RunTypes, fileVars, localVars
  <2> QED BY <1>a, <2>1, KnowFrame
<1> QED BY <1>1, <1>2, <1>3, <1>4, <1>5, <1>6 DEF RunStep, OwnStep

LEMMA KnowOwn ==
  ASSUME FileTypes, RunTypes, FileInv, KnowInv, NEW w \in Runs, RunStep(w)
  PROVE  ReadInv(w)' /\ AskInv(w)'
<1>a. ReadInv(w) /\ AskInv(w)
  BY DEF KnowInv
<1>1. CASE NoCollision(w)
  <2>1. pc'[w] = "write" /\ kind' = kind /\ file' = file /\ name' = name
    BY <1>1 DEF NoCollision, Goto, RunTypes, fileVars
  <2>2. kind = "json" => Inspected(file, name[w]) = NoEntry
    BY <1>1 DEF NoCollision
  <2> QED BY <2>1, <2>2 DEF ReadInv, AskInv
<1>2. CASE Collision(w)
  <2>1. /\ pc'[w] = "ask" /\ kind' = kind /\ file' = file /\ name' = name
        /\ shown'[w] = Inspected(file, name[w])
    BY <1>2 DEF Collision, Goto, RunTypes, fileVars
  <2> QED BY <2>1 DEF ReadInv, AskInv
<1>3. CASE Overwrite(w)
  <2>1. /\ pc'[w] = "write" /\ pc[w] = "ask" /\ kind' = kind /\ file' = file /\ name' = name
        /\ shown' = shown /\ stale' = stale
    BY <1>3 DEF Overwrite, Goto, RunTypes, fileVars, localVars
  <2> QED BY <1>a, <2>1 DEF ReadInv, AskInv, Uninspected
<1>4. CASE ReadExisting(w)
  <2>1. /\ pc'[w] = "backup" /\ pc[w] = "write" /\ kind = "json" /\ kind' = kind /\ file' = file
        /\ name' = name /\ shown' = shown /\ seen'[w] = Read(file)
    BY <1>4 DEF ReadExisting, Writes, Goto, RunTypes, fileVars
  <2>2. Uninspected(w) => Uninspected(w)'
    BY <1>4 DEF ReadExisting, Fresh, RunTypes, Uninspected
  <2> QED BY <1>a, <2>1, <2>2 DEF ReadInv, AskInv
<1>5. CASE Backup(w) \/ NothingToBackup(w)
  <2>1. ~Unreadable(file)
    BY <1>5 DEF Backup, NothingToBackup, Unreadable
  <2>2. /\ kind' = kind /\ file' = file /\ name' = name /\ shown' = shown /\ seen' = seen
        /\ pc'[w] = IF kind = "json" THEN "replace" ELSE "spawn"
        /\ pc[w] = "backup" \/ (pc[w] = "write" /\ kind = "cli")
    BY <1>5 DEF Backup, NothingToBackup, Backed, BacksUp, Writes, Goto, RunTypes
  <2>3. (Unread(w) => Unread(w)') /\ (Uninspected(w) => Uninspected(w)')
    BY <1>5 DEF Backup, NothingToBackup, CopiesGo, Fresh, RunTypes, Unread, Uninspected
  <2>4. CASE kind = "json"
    BY <1>a, <2>1, <2>2, <2>3, <2>4 DEF ReadInv, AskInv
  <2>5. CASE kind # "json"
    BY <2>2, <2>5, KnowOver
  <2> QED BY <2>4, <2>5
<1>6. CASE ChildWrites(w)
  <2>1. PICK f \in {Read(file), Empty} : Becomes(Merged(f, name[w], LaunchOf[w]), {})
    BY <1>6 DEF ChildWrites
  <2>2. /\ kind' = kind /\ pc'[w] = pc[w] /\ name'[w] = name[w] /\ shown'[w] = shown[w]
        /\ seen'[w] = seen[w]
    BY <1>6 DEF ChildWrites
  <2> QED BY <1>a, <2>1, <2>2, KnowBecomes
<1>7. CASE \/ InspectFails(w) \/ Quit(w) \/ WriteFails(w) \/ ReadFails(w) \/ BackupFails(w)
          \/ MergeFails(w) \/ ChildTimesOut(w) \/ Cut(w) \/ ChildExits(w) \/ Replace(w)
  <2>1. \E l \in Ended : End(w, l)
    BY <1>7 DEF InspectFails, Quit, WriteFails, ReadFails, BackupFails, MergeFails,
                ChildTimesOut, Cut, ChildExits, Replace, Fail, Ended
  <2>2. pc'[w] \in Ended
    BY <2>1 DEF End, Goto, RunTypes
  <2> QED BY <2>2, KnowOver
<1>8. CASE Start(w) \/ Rename(w) \/ Spawn(w) \/ Orphaned(w)
  <2>1. pc'[w] \in {"inspect", "wait", "orphan"}
    BY <1>8 DEF Start, Rename, Spawn, Orphaned, Goto, RunTypes
  <2> QED BY <2>1, KnowOver
<1> QED BY <1>1, <1>2, <1>3, <1>4, <1>5, <1>6, <1>7, <1>8 DEF RunStep, OwnStep

(* The others, the clock and the test keep it too.                         *)
LEMMA KnowWorld ==
  ASSUME RunTypes, KnowInv, OthersEdit \/ Tick \/ TestStep
  PROVE  KnowInv'
<1> SUFFICES ASSUME NEW v \in Runs PROVE ReadInv(v)' /\ AskInv(v)'
  BY DEF KnowInv
<1>a. ReadInv(v) /\ AskInv(v)
  BY DEF KnowInv
<1>1. CASE \E f : Becomes(f, {}) /\ UNCHANGED <<kind, pc, name, shown, seen>>
  <2>1. PICK f : Becomes(f, {})
    BY <1>1
  <2> QED BY <1>a, <1>1, <2>1, KnowBecomes
<1>2. CASE /\ UNCHANGED <<file, kind, pc, name, shown, seen>>
           /\ stale[v] \ {"copied"} \subseteq stale'[v]
  BY <1>a, <1>2, KnowFrame
<1>3. CASE OthersEdit
  BY <1>1, <1>3 DEF OthersEdit
<1>4. CASE Tick
  BY <1>2, <1>4 DEF Tick, runVars, localVars
<1>5. CASE Snapshot \/ Inspect
  BY <1>2, <1>5 DEF Snapshot, Inspect, hostVars, fileVars, runVars, localVars
<1>6. CASE Restore
  BY <1>1, <1>6 DEF Restore
<1>7. CASE Sweep
  <2>1. stale[v] \ {"copied"} \subseteq stale'[v]
    BY <1>7 DEF Sweep, CopiesGo
  <2> QED BY <1>2, <1>7, <2>1 DEF Sweep
<1>8. CASE TestKilled
  BY <1>1, <1>2, <1>8 DEF TestKilled
<1> QED BY <1>3, <1>4, <1>5, <1>6, <1>7, <1>8 DEF TestStep

LEMMA KnowInit == Init => KnowInv
  BY DEF Init, HostInit, KnowInv, ReadInv, AskInv

LEMMA KnowStep == TypeOK /\ FileInv /\ KnowInv /\ [Next]_vars => KnowInv'
<1> SUFFICES ASSUME TypeOK, FileInv, KnowInv, [Next]_vars PROVE KnowInv'
  OBVIOUS
<1>a. FileTypes /\ RunTypes /\ TestTypes
  BY TypeParts
<1>1. ASSUME NEW w \in Runs, RunStep(w), NEW v \in Runs PROVE ReadInv(v)' /\ AskInv(v)'
  <2>1. CASE v = w
    BY <1>a, <1>1, <2>1, KnowOwn
  <2>2. CASE v # w
    BY <1>a, <1>1, <2>2, KnowOthers
  <2> QED BY <2>1, <2>2
<1>2. CASE \E w \in Runs : RunStep(w)
  BY <1>1, <1>2 DEF KnowInv
<1>3. CASE OthersEdit \/ Tick \/ TestStep
  BY <1>a, <1>3, KnowWorld
<1>4. CASE UNCHANGED vars
  BY <1>a, <1>4 DEF KnowInv, ReadInv, AskInv, Unread, Uninspected, vars, hostVars, fileVars, runVars, localVars
<1> QED BY <1>2, <1>3, <1>4 DEF Next, Quiet

(* What the two promises about the entries come to in one step.            *)
LEMMA ReplaceKeeps ==
  ASSUME FileTypes, RunTypes, FileInv, KnowInv, NEW w \in Runs, RunStep(w), Replaced(w)
  PROVE  KeepsSiblings(w) /\ Asked(w)
<1>a. ReadInv(w) /\ AskInv(w) /\ WellFormed(file)
  BY DEF KnowInv, FileInv
<1>b. /\ file \in File /\ seen[w] \in File /\ name[w] \in Names
      /\ LaunchOf[w] \in Launches \cup {Scalar}
  BY Constants DEF FileTypes, RunTypes
<1>1. pc[w] = "replace" /\ pc'[w] = "done" /\ kind = "json"
  BY <1>a DEF Replaced, AskInv
<1>2. Replace(w)
  <2>1. ~Fail(w)
    BY <1>1 DEF Fail, End, Goto, RunTypes
  <2> QED BY <1>1, <2>1
       DEF RunStep, OwnStep, Start, InspectFails, NoCollision, Collision, Overwrite, Rename, Quit,
           WriteFails, ReadExisting, ReadFails, Backup, NothingToBackup, BackupFails, Backed,
           BacksUp, Writes, MergeFails, Spawn, ChildTimesOut, ChildWrites, ChildExits, Cut, Orphaned
<1>3. file' = Merged(seen[w], name[w], LaunchOf[w])
  BY <1>2 DEF Replace, Becomes
<1>4. ASSUME ~Unread(w) PROVE ~Unreadable(file) /\ seen[w] = Read(file)
  BY <1>a, <1>1, <1>4 DEF ReadInv
<1>5. KeepsSiblings(w)
  <2> SUFFICES ASSUME ~Unread(w)
               PROVE  /\ ~Unreadable(file) /\ file'.rest = file.rest
                      /\ \A n \in Names \ {name[w]} : file'.servers[n] = file.servers[n]
    BY DEF KeepsSiblings, Unread
  <2>1. seen[w].rest = file.rest /\ seen[w].servers = file.servers
    BY <1>a, <1>b, <1>4, ReadFile
  <2>2. seen[w].servers \in [Names -> Launches \cup {Scalar, NoEntry}]
    BY <1>b, FieldTypes
  <2>3. /\ file'.rest = seen[w].rest
        /\ file'.servers = [seen[w].servers EXCEPT ![name[w]] = LaunchOf[w]]
    BY <1>b, <1>3, MergedFile
  <2>4. ~Unreadable(file)
    BY <1>4
  <2>5. ASSUME NEW n \in Names, n # name[w] PROVE file'.servers[n] = file.servers[n]
    BY <2>1, <2>2, <2>3, <2>5
  <2> QED BY <2>1, <2>3, <2>4, <2>5
<1>6. Asked(w)
  <2> SUFFICES ASSUME ~Uninspected(w) PROVE file.servers[name[w]] \in {shown[w], NoEntry, Scalar}
    BY DEF Asked, Uninspected
  <2>1. Inspected(file, name[w]) \in {shown[w], NoEntry}
    BY <1>a, <1>1 DEF AskInv
  <2>2. Read(file).servers = file.servers
    BY <1>a, <1>b, <1>1, ReadFile DEF ReadInv
  <2>3. file.servers[name[w]] \in {Inspected(file, name[w]), NoEntry, Scalar}
    BY <1>a, <1>b, <2>2, InspectedType
  <2>4. CASE Inspected(file, name[w]) = NoEntry
    BY <2>3, <2>4
  <2>5. CASE Inspected(file, name[w]) = shown[w]
    BY <2>3, <2>5
  <2> QED BY <2>1, <2>4, <2>5
<1> QED BY <1>5, <1>6

(* Only a step of its own replaces the file for a run.                     *)
LEMMA ReplacedOwn ==
  ASSUME TypeOK, [Next]_vars, NEW w \in Runs, Replaced(w)
  PROVE  RunStep(w)
<1>a. RunTypes
  BY TypeParts
<1>1. pc'[w] # pc[w]
  BY DEF Replaced
<1>2. ASSUME NEW v \in Runs, RunStep(v), v # w PROVE FALSE
  <2>1. pc'[w] = pc[w]
    BY <1>a, <1>2 DEF RunTypes, RunStep, OwnStep, Start, InspectFails, NoCollision, Collision,
        Overwrite, Rename, Quit, WriteFails, ReadExisting, ReadFails, Backup, NothingToBackup,
        BackupFails, Backed, Replace, MergeFails, Spawn, ChildTimesOut, ChildWrites, ChildExits,
        Cut, Orphaned, Fail, End, Goto
  <2> QED BY <1>1, <2>1
<1>3. ~(OthersEdit \/ Tick \/ TestStep)
  BY <1>1 DEF OthersEdit, Tick, TestStep, Snapshot, Inspect, Restore, Sweep, TestKilled,
              hostVars, runVars
<1>4. pc' # pc
  BY <1>1
<1> QED BY <1>2, <1>3, <1>4 DEF Next, Quiet, vars, hostVars, runVars

LEMMA KnowAlways == Spec => [](TypeOK /\ FileInv /\ KnowInv)
<1>1. Init => TypeOK /\ FileInv /\ KnowInv
  BY TypeInit, KnowInit
<1>2. (TypeOK /\ FileInv /\ KnowInv) /\ [Next]_vars => (TypeOK /\ FileInv /\ KnowInv)'
  BY TypeStep, KnowStep
<1> QED BY <1>1, <1>2, PTL DEF Spec

LEMMA ReplaceCorrect ==
  ASSUME TypeOK, FileInv, KnowInv, [Next]_vars, NEW w \in Runs
  PROVE  KeepsSiblings(w) /\ Asked(w)
<1>1. CASE ~Replaced(w)
  BY <1>1 DEF KeepsSiblings, Asked
<1>2. CASE Replaced(w)
  BY <1>2, TypeParts, ReplacedOwn, ReplaceKeeps
<1> QED BY <1>1, <1>2

(* A run keeps every entry and every other key that was in the file when   *)
(* it read it, and never replaces one it could not read, however runs and  *)
(* other programs interleave (_merge_mcp_servers, _read_existing, write).  *)
THEOREM SiblingsKept == Spec => NoSiblingLost
<1>1. TypeOK /\ FileInv /\ KnowInv /\ [Next]_vars => [\A w \in Runs : KeepsSiblings(w)]_vars
  BY ReplaceCorrect
<1> QED BY <1>1, KnowAlways, PTL DEF Spec, NoSiblingLost

(* An entry a run replaces is one its user was shown, whatever names it    *)
(* went through (_resolve_server_name, inspect_existing).                  *)
THEOREM OverwriteIsAsked == Spec => OverwriteAsked
<1>1. TypeOK /\ FileInv /\ KnowInv /\ [Next]_vars => [\A w \in Runs : Asked(w)]_vars
  BY ReplaceCorrect
<1> QED BY <1>1, KnowAlways, PTL DEF Spec, OverwriteAsked
-----------------------------------------------------------------------------
(* Without the bookkeeping of what is stale: nobody changes the file under *)
(* a run but the run itself, when it replaces it.                          *)
Idle(w) == pc[w] \in Ended \cup {"off"}

HandsOff == file' # file => \A w \in Runs : Idle(w) \/ Replaced(w)

(* Action: the whole of what a replacement owes the user.                  *)
Keeps(w) ==
  Replaced(w) =>
    /\ ~Unreadable(file)
    /\ file'.rest = file.rest
    /\ \A n \in Names \ {name[w]} : file'.servers[n] = file.servers[n]
    /\ file.servers[name[w]] \in {shown[w], NoEntry, Scalar}

(* A copy may be swept or displaced; no inspection and no reading is late. *)
CleanInv == \A w \in Runs : ~Unread(w) /\ ~Uninspected(w)

(* Others may not write under a run, and a write at rest dates nothing.    *)
LEMMA CleanBecomes ==
  ASSUME CleanInv, NEW f, NEW O, Becomes(f, O),
         f # file => \A v \in Runs \ O : Idle(v)
  PROVE  CleanInv'
<1> SUFFICES ASSUME NEW v \in Runs PROVE stale'[v] \in {{}, stale[v]}
  BY DEF CleanInv, Unread, Uninspected
<1>1. CASE v \in O \/ Idle(v)
  BY <1>1 DEF Becomes, Idle
<1>2. CASE ~(v \in O \/ Idle(v))
  BY <1>2 DEF Becomes
<1> QED BY <1>1, <1>2

LEMMA CleanRun ==
  ASSUME RunTypes, CleanInv, HandsOff, NEW w \in Runs, RunStep(w)
  PROVE  CleanInv'
<1>1. CASE Replace(w)
  <2>1. Becomes(Merged(seen[w], name[w], LaunchOf[w]), {w}) /\ End(w, "done")
    BY <1>1 DEF Replace
  <2>2. \A v \in Runs \ {w} : ~Replaced(v)
    BY <2>1 DEF End, Goto, Replaced, RunTypes
  <2>3. file' = Merged(seen[w], name[w], LaunchOf[w])
    BY <2>1 DEF Becomes
  <2> QED BY <2>1, <2>2, <2>3, CleanBecomes DEF HandsOff
<1>2. CASE ChildWrites(w)
  <2>1. PICK f \in {Read(file), Empty} : Becomes(Merged(f, name[w], LaunchOf[w]), {})
    BY <1>2 DEF ChildWrites
  <2>2. ~(\E v \in Runs : Replaced(v)) /\ file' = Merged(f, name[w], LaunchOf[w])
    BY <1>2, <2>1 DEF ChildWrites, Replaced, Becomes
  <2> QED BY <2>1, <2>2, CleanBecomes DEF HandsOff
<1>3. CASE Backup(w)
  BY <1>3 DEF Backup, CopiesGo, CleanInv, Unread, Uninspected
<1>4. CASE \/ InspectFails(w) \/ Quit(w) \/ WriteFails(w) \/ ReadFails(w) \/ BackupFails(w)
          \/ MergeFails(w) \/ ChildTimesOut(w) \/ Cut(w) \/ ChildExits(w)
  <2>1. stale' = [stale EXCEPT ![w] = {}]
    BY <1>4 DEF InspectFails, Quit, WriteFails, ReadFails, BackupFails, MergeFails,
                ChildTimesOut, Cut, ChildExits, Fail
  <2> QED BY <2>1 DEF CleanInv, Unread, Uninspected, RunTypes
<1>5. CASE NoCollision(w) \/ Collision(w) \/ ReadExisting(w) \/ NothingToBackup(w)
  <2>1. \E ss : Fresh(w, ss)
    BY <1>5 DEF NoCollision, Collision, ReadExisting, NothingToBackup
  <2> QED BY <2>1 DEF Fresh, CleanInv, Unread, Uninspected, RunTypes
<1>6. CASE Start(w) \/ Overwrite(w) \/ Rename(w) \/ Spawn(w) \/ Orphaned(w)
  <2>1. stale' = stale
    BY <1>6 DEF Start, Overwrite, Rename, Spawn, Orphaned, localVars
  <2> QED BY <2>1 DEF CleanInv, Unread, Uninspected
<1> QED BY <1>1, <1>2, <1>3, <1>4, <1>5, <1>6 DEF RunStep, OwnStep

LEMMA CleanWorld ==
  ASSUME CleanInv, HandsOff, OthersEdit \/ Tick \/ TestStep \/ UNCHANGED vars
  PROVE  CleanInv'
<1>1. ASSUME NEW f, Becomes(f, {}), pc' = pc PROVE CleanInv'
  <2>1. ~(\E v \in Runs : Replaced(v)) /\ file' = f
    BY <1>1 DEF Replaced, Becomes
  <2> QED BY <1>1, <2>1, CleanBecomes DEF HandsOff
<1>2. CASE UNCHANGED stale
  BY <1>2 DEF CleanInv, Unread, Uninspected
<1>3. CASE OthersEdit
  BY <1>1, <1>3 DEF OthersEdit
<1>4. CASE Restore \/ TestKilled
  BY <1>1, <1>2, <1>4 DEF Restore, TestKilled
<1>5. CASE Sweep
  BY <1>5 DEF Sweep, CopiesGo, CleanInv, Unread, Uninspected
<1> QED
  BY <1>2, <1>3, <1>4, <1>5
     DEF Tick, TestStep, Snapshot, Inspect, hostVars, runVars, localVars, vars

(* Setup loses nothing and asks before it overwrites, with no exception at *)
(* all, when nobody else writes the file under a run: races with other     *)
(* writers, overlapping runs among them, are all that the bookkeeping of   *)
(* stale excuses (_resolve_server_name, _read_existing, write).            *)
THEOREM UnrivalledRunsKeep ==
  Spec /\ [][HandsOff]_vars => [][\A w \in Runs : Keeps(w)]_vars
<1> DEFINE AllInv == TypeOK /\ FileInv /\ KnowInv
<1>1. Init => CleanInv
  BY DEF Init, HostInit, CleanInv, Unread, Uninspected
<1>2. AllInv /\ CleanInv /\ [Next]_vars /\ [HandsOff]_vars => CleanInv'
  <2> SUFFICES ASSUME AllInv, CleanInv, [Next]_vars, [HandsOff]_vars PROVE CleanInv'
    OBVIOUS
  <2>1. HandsOff
    BY DEF HandsOff, vars, hostVars, fileVars
  <2>2. RunTypes
    BY TypeParts
  <2> QED BY <2>1, <2>2, CleanRun, CleanWorld DEF Next, Quiet
<1>3. AllInv /\ CleanInv /\ [Next]_vars => [\A w \in Runs : Keeps(w)]_vars
  BY ReplaceCorrect DEF KeepsSiblings, Asked, Keeps, CleanInv, Unread, Uninspected
<1> QED BY <1>1, <1>2, <1>3, KnowAlways, PTL DEF Spec
-----------------------------------------------------------------------------
(* Backups: what a run is about to displace is in the copy it made, unless *)
(* the copy is stale, and what was displaced is in the copy of its second. *)
CopyAt(w) == saved[w] \in Seconds /\ backups[saved[w]] = file

CopyInv(w) ==
  /\ child[w] # "none" => pc[w] \in {"wait", "orphan"}
  /\ pc[w] \in {"replace", "spawn", "wait", "orphan"} /\ "copied" \notin stale[w]
       /\ file.shape # "absent" => CopyAt(w)

Kept(d) == d.second \in Seconds /\ backups[d.second] = d.content

BackupInv == (\A w \in Runs : CopyInv(w)) /\ (\A d \in displaced : Kept(d))

LEMMA CopyFrame ==
  ASSUME NEW v \in Runs, CopyInv(v), pc'[v] = pc[v], child'[v] = child[v], saved'[v] = saved[v],
         file' = file, stale'[v] = stale[v], backups' = backups
  PROVE  CopyInv(v)'
  BY DEF CopyInv, CopyAt

LEMMA CopyStale ==
  ASSUME NEW v \in Runs, CopyInv(v), pc'[v] = pc[v], child'[v] = child[v], "copied" \in stale'[v]
  PROVE  CopyInv(v)'
  BY DEF CopyInv

LEMMA CopyOver ==
  ASSUME NEW v \in Runs, child'[v] = "none", pc'[v] \notin {"replace", "spawn", "wait", "orphan"}
  PROVE  CopyInv(v)'
  BY DEF CopyInv

LEMMA CopyBecomes ==
  ASSUME RunTypes, NEW v \in Runs, CopyInv(v), NEW f, NEW O, Becomes(f, O), v \notin O,
         pc'[v] = pc[v], child'[v] = child[v], saved'[v] = saved[v], backups' = backups
  PROVE  CopyInv(v)'
<1>1. CASE pc[v] \in Ended \cup {"off"}
  <2>1. child'[v] = "none" /\ pc'[v] \notin {"replace", "spawn", "wait", "orphan"}
    BY <1>1 DEF CopyInv, Ended
  <2> QED BY <2>1, CopyOver
<1>2. CASE pc[v] \notin Ended \cup {"off"} /\ f = file
  <2>1. stale'[v] = stale[v] /\ file' = file
    BY <1>2 DEF Becomes
  <2> QED BY <2>1, CopyFrame
<1>3. CASE pc[v] \notin Ended \cup {"off"} /\ f # file
  <2>1. "copied" \in stale'[v]
    BY <1>3 DEF Becomes, Stages
  <2> QED BY <2>1, CopyStale
<1> QED BY <1>1, <1>2, <1>3

(* A change of the copies of the seconds S.                                *)
LEMMA CopyCopies ==
  ASSUME RunTypes, NEW v \in Runs, CopyInv(v), NEW S, NEW F, CopiesGo(S, F), v \notin F,
         pc'[v] = pc[v], child'[v] = child[v], saved'[v] = saved[v], file' = file,
         \A t \in Seconds \ S : backups'[t] = backups[t]
  PROVE  CopyInv(v)'
<1>1. CASE saved[v] \in S
  BY <1>1, CopyStale DEF CopiesGo
<1>2. CASE saved[v] \notin S
  <2>1. stale'[v] = stale[v]
    BY <1>2 DEF CopiesGo
  <2>2. CopyAt(v) => CopyAt(v)'
    BY <1>2 DEF CopyAt
  <2> QED BY <2>1, <2>2 DEF CopyInv
<1> QED BY <1>1, <1>2

LEMMA CopiesKept ==
  ASSUME \A d \in displaced : Kept(d), NEW S, NEW F, CopiesGo(S, F),
         \A t \in Seconds \ S : backups'[t] = backups[t]
  PROVE  \A d \in displaced' : Kept(d)'
  BY DEF CopiesGo, Kept

LEMMA DisplaceKept ==
  ASSUME \A d \in displaced : Kept(d), NEW w \in Runs, Displace(w), backups' = backups, CopyInv(w),
         pc[w] \in {"replace", "spawn", "wait", "orphan"}
  PROVE  \A d \in displaced' : Kept(d)'
<1>1. ASSUME NEW d \in displaced PROVE Kept(d)'
  BY <1>1 DEF Kept
<1>2. "copied" \notin stale[w] /\ file.shape # "absent" =>
        saved[w] \in Seconds /\ backups[saved[w]] = file
  BY DEF CopyInv, CopyAt
<1>3. CASE "copied" \in stale[w] \/ file.shape = "absent"
  BY <1>1, <1>3 DEF Displace
<1>4. CASE ~("copied" \in stale[w] \/ file.shape = "absent")
  <2>1. displaced' = displaced \cup {[content |-> file, second |-> saved[w]]}
    BY <1>4 DEF Displace
  <2>2. saved[w] \in Seconds /\ backups'[saved[w]] = file
    BY <1>2, <1>4
  <2>3. ASSUME NEW d, d = [content |-> file, second |-> saved[w]] PROVE Kept(d)'
    BY <2>2, <2>3 DEF Kept
  <2> QED BY <1>1, <2>1, <2>3
<1> QED BY <1>3, <1>4

LEMMA BackupRun ==
  ASSUME FileTypes, RunTypes, BackupInv, NEW w \in Runs, RunStep(w)
  PROVE  BackupInv'
<1>a. (\A v \in Runs : CopyInv(v)) /\ (\A d \in displaced : Kept(d))
  BY DEF BackupInv
<1>b. now \in Seconds
  BY DEF FileTypes
<1>1. CASE Replace(w)
  <2>1. Becomes(Merged(seen[w], name[w], LaunchOf[w]), {w})
    BY <1>1 DEF Replace
  <2>2. /\ \A v \in Runs \ {w} : pc'[v] = pc[v] /\ child'[v] = child[v] /\ saved'[v] = saved[v]
        /\ backups' = backups /\ pc'[w] = "done" /\ child'[w] = child[w] /\ pc[w] = "replace"
        /\ Displace(w)
    BY <1>1 DEF Replace, End, Goto, RunTypes
  <2>3. \A v \in Runs \ {w} : CopyInv(v)'
    BY <1>a, <2>1, <2>2, CopyBecomes
  <2>4. CopyInv(w)'
    BY <1>a, <2>2, CopyOver DEF CopyInv
  <2>5. \A d \in displaced' : Kept(d)'
    BY <1>a, <2>2, DisplaceKept
  <2> QED BY <2>3, <2>4, <2>5 DEF BackupInv
<1>2. CASE ChildWrites(w)
  <2>1. PICK f \in {Read(file), Empty} : Becomes(Merged(f, name[w], LaunchOf[w]), {})
    BY <1>2 DEF ChildWrites
  <2>2. /\ \A v \in Runs \ {w} : child'[v] = child[v]
        /\ UNCHANGED <<pc, saved, backups>> /\ child[w] = "running" /\ child'[w] = "wrote"
        /\ Displace(w)
    BY <1>2 DEF ChildWrites, RunTypes
  <2>3. \A v \in Runs \ {w} : CopyInv(v)'
    BY <1>a, <2>1, <2>2, CopyBecomes
  <2>4. pc[w] \in {"wait", "orphan"}
    BY <1>a, <2>2 DEF CopyInv
  <2>5. CopyInv(w)'
    <3>1. CASE Merged(f, name[w], LaunchOf[w]) = file
      <4>1. stale'[w] = stale[w] /\ file' = file
        BY <2>1, <2>4, <3>1 DEF Becomes, Ended
      <4> QED BY <1>a, <2>2, <2>4, <4>1 DEF CopyInv, CopyAt
    <3>2. CASE Merged(f, name[w], LaunchOf[w]) # file
      <4>1. "copied" \in stale'[w]
        BY <2>1, <2>4, <3>2 DEF Becomes, Ended, Stages
      <4> QED BY <2>2, <2>4, <4>1 DEF CopyInv
    <3> QED BY <3>1, <3>2
  <2>6. \A d \in displaced' : Kept(d)'
    BY <1>a, <2>2, <2>4, DisplaceKept
  <2> QED BY <2>3, <2>5, <2>6 DEF BackupInv
<1>3. CASE Backup(w)
  <2>1. /\ CopiesGo({now}, {w}) /\ file' = file /\ child' = child
        /\ backups' = [backups EXCEPT ![now] = file] /\ saved' = [saved EXCEPT ![w] = now]
        /\ \A v \in Runs \ {w} : pc'[v] = pc[v] /\ saved'[v] = saved[v]
    BY <1>3 DEF Backup, Backed, Goto, RunTypes
  <2>2. \A t \in Seconds \ {now} : backups'[t] = backups[t]
    BY <2>1 DEF FileTypes
  <2>3. \A v \in Runs \ {w} : CopyInv(v)'
    BY <1>a, <2>1, <2>2, CopyCopies
  <2>4. child[w] = "none"
    BY <1>a, <1>3 DEF CopyInv, Backup, Backed, BacksUp, Writes, RunTypes
  <2>5. saved'[w] = now /\ backups'[now] = file
    BY <1>b, <2>1 DEF FileTypes, RunTypes
  <2>6. CopyInv(w)'
    BY <1>b, <2>1, <2>4, <2>5 DEF CopyInv, CopyAt
  <2>7. \A d \in displaced' : Kept(d)'
    BY <1>a, <2>1, <2>2, CopiesKept
  <2> QED BY <2>3, <2>6, <2>7 DEF BackupInv
<1>4. CASE \/ InspectFails(w) \/ Quit(w) \/ WriteFails(w) \/ ReadFails(w) \/ BackupFails(w)
          \/ MergeFails(w) \/ ChildTimesOut(w) \/ Cut(w) \/ ChildExits(w)
  <2>1. (\E l \in Ended : End(w, l)) /\ file' = file /\ backups' = backups /\ displaced' = displaced
    BY <1>4 DEF InspectFails, Quit, WriteFails, ReadFails, BackupFails, MergeFails,
                ChildTimesOut, Cut, ChildExits, Fail, fileVars, Ended
  <2>2. \A v \in Runs \ {w} : pc'[v] = pc[v] /\ saved'[v] = saved[v]
    BY <2>1 DEF End, Goto, RunTypes
  <2>3. /\ \A v \in Runs \ {w} : child'[v] = child[v] /\ stale'[v] = stale[v]
        /\ child'[w] \in {"none", child[w]}
    BY <1>4 DEF InspectFails, Quit, WriteFails, ReadFails, BackupFails, MergeFails,
                ChildTimesOut, Cut, ChildExits, Fail, RunTypes
  <2>4. pc'[w] \in Ended
    BY <2>1 DEF End, Goto, RunTypes
  <2>5. child'[w] = "none"
    <3>1. CASE ChildTimesOut(w) \/ Cut(w) \/ ChildExits(w)
      BY <3>1 DEF ChildTimesOut, Cut, ChildExits, RunTypes
    <3>2. CASE \/ InspectFails(w) \/ Quit(w) \/ WriteFails(w) \/ ReadFails(w) \/ BackupFails(w)
              \/ MergeFails(w)
      <4>1. pc[w] \notin {"wait", "orphan"}
        BY <3>2 DEF InspectFails, Quit, WriteFails, ReadFails, BackupFails, BacksUp, MergeFails, Writes
      <4> QED BY <1>a, <2>3, <4>1 DEF CopyInv
    <3> QED BY <1>4, <3>1, <3>2
  <2>6. \A v \in Runs \ {w} : CopyInv(v)'
    BY <1>a, <2>1, <2>2, <2>3, CopyFrame
  <2>7. CopyInv(w)'
    BY <2>4, <2>5, CopyOver DEF Ended
  <2>8. \A d \in displaced' : Kept(d)'
    BY <1>a, <2>1 DEF Kept
  <2> QED BY <2>6, <2>7, <2>8 DEF BackupInv
<1>5. CASE \/ Start(w) \/ NoCollision(w) \/ Collision(w) \/ Overwrite(w) \/ Rename(w)
          \/ ReadExisting(w) \/ NothingToBackup(w) \/ Spawn(w) \/ Orphaned(w)
  <2>1. UNCHANGED <<file, backups, displaced, saved>>
    BY <1>5 DEF Start, NoCollision, Collision, Overwrite, Rename, ReadExisting, NothingToBackup,
                Backed, Spawn, Orphaned, fileVars, localVars
  <2>2. \A v \in Runs \ {w} : pc'[v] = pc[v] /\ child'[v] = child[v] /\ stale'[v] = stale[v]
    BY <1>5 DEF Start, NoCollision, Collision, Overwrite, Rename, ReadExisting, NothingToBackup,
                Backed, Spawn, Orphaned, Goto, Fresh, RunTypes, localVars
  <2>3. \A v \in Runs \ {w} : CopyInv(v)'
    BY <1>a, <2>1, <2>2, CopyFrame
  <2>4. \A d \in displaced' : Kept(d)'
    BY <1>a, <2>1 DEF Kept
  <2>5. CopyInv(w)'
    <3>a. CopyInv(w)
      BY <1>a
    <3>1. CASE Start(w) \/ NoCollision(w) \/ Collision(w) \/ Overwrite(w) \/ Rename(w) \/ ReadExisting(w)
      <4>1. /\ pc[w] \notin {"wait", "orphan"} /\ child' = child
            /\ pc'[w] \in {"inspect", "ask", "write", "backup"}
        BY <3>1 DEF Start, NoCollision, Collision, Overwrite, Rename, ReadExisting, Writes, Goto, RunTypes
      <4> QED BY <3>a, <4>1 DEF CopyInv
    <3>2. CASE NothingToBackup(w)
      <4>1. pc[w] \notin {"wait", "orphan"} /\ child' = child /\ file'.shape = "absent"
        BY <3>2 DEF NothingToBackup, Backed, BacksUp, Writes
      <4> QED BY <3>a, <4>1 DEF CopyInv
    <3>3. CASE Spawn(w) \/ Orphaned(w)
      <4>1. /\ pc[w] \in {"spawn", "wait"} /\ pc'[w] \in {"wait", "orphan"} /\ stale' = stale
        BY <3>3 DEF Spawn, Orphaned, Goto, RunTypes, localVars
      <4> QED BY <3>a, <2>1, <4>1 DEF CopyInv, CopyAt
    <3> QED BY <1>5, <3>1, <3>2, <3>3
  <2> QED BY <2>3, <2>4, <2>5 DEF BackupInv
<1> QED BY <1>1, <1>2, <1>3, <1>4, <1>5 DEF RunStep, OwnStep

LEMMA BackupWorld ==
  ASSUME FileTypes, RunTypes, BackupInv, OthersEdit \/ Tick \/ TestStep
  PROVE  BackupInv'
<1>a. (\A v \in Runs : CopyInv(v)) /\ (\A d \in displaced : Kept(d))
  BY DEF BackupInv
<1>1. CASE (\E f : Becomes(f, {})) /\ UNCHANGED <<pc, child, saved, backups, displaced>>
  <2>1. PICK f : Becomes(f, {})
    BY <1>1
  <2>2. \A v \in Runs : CopyInv(v)'
    BY <1>a, <1>1, <2>1, CopyBecomes
  <2> QED BY <1>a, <1>1, <2>2 DEF BackupInv, Kept
<1>2. CASE UNCHANGED <<file, stale, pc, child, saved, backups, displaced>>
  <2>1. \A v \in Runs : CopyInv(v)'
    BY <1>a, <1>2, CopyFrame
  <2> QED BY <1>a, <1>2, <2>1 DEF BackupInv, Kept
<1>3. CASE OthersEdit
  BY <1>1, <1>3 DEF OthersEdit
<1>4. CASE Tick
  BY <1>2, <1>4 DEF Tick, runVars, localVars
<1>5. CASE Snapshot \/ Inspect
  BY <1>2, <1>5 DEF Snapshot, Inspect, hostVars, fileVars, runVars, localVars
<1>6. CASE Restore
  BY <1>1, <1>6 DEF Restore
<1>7. CASE Sweep
  <2>1. CopiesGo(Seconds, {}) /\ UNCHANGED <<file, pc, child, saved>>
    BY <1>7 DEF Sweep
  <2>2. \A t \in Seconds \ Seconds : backups'[t] = backups[t]
    OBVIOUS
  <2>3. \A v \in Runs : CopyInv(v)'
    BY <1>a, <2>1, <2>2, CopyCopies
  <2>4. \A d \in displaced' : Kept(d)'
    BY <1>a, <2>1, <2>2, CopiesKept
  <2> QED BY <2>3, <2>4 DEF BackupInv
<1>8. CASE TestKilled
  BY <1>1, <1>2, <1>8 DEF TestKilled
<1> QED BY <1>3, <1>4, <1>5, <1>6, <1>7, <1>8 DEF TestStep

LEMMA BackupStep == TypeOK /\ BackupInv /\ [Next]_vars => BackupInv'
<1> SUFFICES ASSUME TypeOK, BackupInv, [Next]_vars PROVE BackupInv'
  OBVIOUS
<1>a. FileTypes /\ RunTypes
  BY TypeParts
<1>1. CASE \E w \in Runs : RunStep(w)
  BY <1>a, <1>1, BackupRun
<1>2. CASE OthersEdit \/ Tick \/ TestStep
  BY <1>a, <1>2, BackupWorld
<1>3. CASE UNCHANGED vars
  BY <1>3 DEF BackupInv, CopyInv, CopyAt, Kept, vars, hostVars, fileVars, runVars, localVars
<1> QED BY <1>1, <1>2, <1>3 DEF Next, Quiet

LEMMA BackupAlways == Spec => [](TypeOK /\ FileInv /\ BackupInv)
<1>1. Init => TypeOK /\ FileInv /\ BackupInv
  <2>1. Init => BackupInv
    BY DEF Init, HostInit, BackupInv, CopyInv
  <2> QED BY <2>1, TypeInit
<1>2. (TypeOK /\ FileInv /\ BackupInv) /\ [Next]_vars => (TypeOK /\ FileInv /\ BackupInv)'
  BY TypeStep, BackupStep
<1> QED BY <1>1, <1>2, PTL DEF Spec

(* Whatever a run or the claude program replaced is in the backup made     *)
(* before, unless the file changed in between, another run took the same   *)
(* second, or the smoke test swept it away (_backup).                      *)
THEOREM BackupsKeep == Spec => []BackupKeepsDisplaced
<1>1. BackupInv => BackupKeepsDisplaced
  BY DEF BackupInv, Kept, BackupKeepsDisplaced
<1> QED BY <1>1, BackupAlways, PTL
-----------------------------------------------------------------------------
(* The smoke test.  It drives a JSON writer, its run starts after the      *)
(* snapshot under the test's name and is over before the file is put back, *)
(* and as long as nobody else touched the file only its entry differs.     *)
PhaseInv ==
  /\ hpc # "off" => kind = "json"
  /\ hpc \in {"restore", "sweep", "done"} => pc[TestRun] \in Ended
  /\ kind = "json" =>
       /\ \A w \in Runs : child[w] = "none" /\ pc[w] \notin {"spawn", "wait", "orphan"}
       /\ hpc \in {"off", "refused"} => pc[TestRun] = "off"
       /\ ~Idle(TestRun) => name[TestRun] = TestName

SameButTest(f, g) ==
  f.rest = g.rest /\ \A n \in Names \ {TestName} : f.servers[n] = g.servers[n]

Undisturbed == hpc \notin {"off", "refused"} /\ ~touched

TestInv ==
  Undisturbed =>
    /\ hpc \in {"sweep", "done"} => file = snapshot
    /\ SameButTest(file, snapshot) \/ (file.shape = "blank" /\ pc[TestRun] \in Ended)
    /\ pc[TestRun] \in {"backup", "replace"} => ~Unread(TestRun)

(* Steps of a run under kind "json" are not those of the claude program.   *)
LEMMA JsonStep ==
  ASSUME RunTypes, PhaseInv, KnowInv, kind = "json", NEW w \in Runs, RunStep(w)
  PROVE  /\ kind' = kind
         /\ child'[w] = "none" /\ pc'[w] \notin {"off", "spawn", "wait", "orphan"}
         /\ \A v \in Runs \ {w} : child'[v] = child[v] /\ pc'[v] = pc[v] /\ name'[v] = name[v]
<1>a. child[w] = "none" /\ pc[w] \notin {"spawn", "wait", "orphan"}
  BY DEF PhaseInv
<1>1. CASE \/ InspectFails(w) \/ Quit(w) \/ WriteFails(w) \/ ReadFails(w) \/ BackupFails(w)
          \/ MergeFails(w) \/ Replace(w)
  <2>1. (\E l \in Ended : End(w, l)) /\ kind' = kind /\ child' = child
    BY <1>1 DEF InspectFails, Quit, WriteFails, ReadFails, BackupFails, MergeFails,
                Replace, Fail, fileVars, Ended
  <2> QED BY <1>a, <2>1 DEF End, Goto, RunTypes, Ended
<1>2. CASE Cut(w)
  BY <1>2 DEF Cut, Fail, End, Goto, RunTypes, fileVars
<1>3. CASE Start(w) \/ NoCollision(w) \/ Collision(w) \/ Overwrite(w) \/ Rename(w) \/ ReadExisting(w)
  BY <1>a, <1>3 DEF Start, NoCollision, Collision, Overwrite, Rename, ReadExisting, Goto, RunTypes,
                    fileVars, localVars
<1>4. CASE Backup(w) \/ NothingToBackup(w)
  BY <1>a, <1>4 DEF Backup, NothingToBackup, Backed, Goto, RunTypes
<1>5. ~(Spawn(w) \/ ChildTimesOut(w) \/ ChildWrites(w) \/ ChildExits(w) \/ Orphaned(w))
  BY <1>a DEF Spawn, ChildTimesOut, ChildWrites, ChildExits, Orphaned
<1> QED BY <1>1, <1>2, <1>3, <1>4, <1>5 DEF RunStep, OwnStep

LEMMA NameKept ==
  ASSUME RunTypes, NEW w \in Runs, RunStep(w), pc[w] \notin {"off", "ask"},
         pc'[w] \notin Ended
  PROVE  name'[w] = name[w] /\ pc[w] \notin Ended
<1>1. ~(\E l \in Ended : End(w, l))
  BY DEF End, Goto, RunTypes
<1>2. ~(\/ InspectFails(w) \/ Quit(w) \/ WriteFails(w) \/ ReadFails(w) \/ BackupFails(w)
        \/ MergeFails(w) \/ Replace(w) \/ Cut(w) \/ ChildTimesOut(w) \/ ChildExits(w))
  BY <1>1 DEF InspectFails, Quit, WriteFails, ReadFails, BackupFails, MergeFails,
              Replace, Cut, ChildTimesOut, ChildExits, Fail, Ended
<1>3. CASE NoCollision(w) \/ Collision(w) \/ ReadExisting(w) \/ Backup(w) \/ NothingToBackup(w)
  BY <1>3 DEF NoCollision, Collision, ReadExisting, Backup, NothingToBackup, Backed, BacksUp, Writes,
              Goto, RunTypes, Ended
<1>4. CASE Spawn(w) \/ Orphaned(w)
  BY <1>4 DEF Spawn, Orphaned, Ended
<1>5. CASE ChildWrites(w)
  BY <1>5 DEF ChildWrites, RunTypes
<1> QED BY <1>2, <1>3, <1>4, <1>5 DEF RunStep, OwnStep, Start, Overwrite, Rename

(* A run that is over takes no step; only Replace changes the file.        *)
LEMMA JsonRun ==
  ASSUME PhaseInv, kind = "json", NEW w \in Runs, RunStep(w)
  PROVE  pc[w] \notin Ended /\ (~Replace(w) => file' = file)
<1>a. child[w] = "none" /\ pc[w] \notin {"spawn", "wait", "orphan"}
  BY DEF PhaseInv
<1>1. CASE \/ InspectFails(w) \/ Quit(w) \/ WriteFails(w) \/ ReadFails(w) \/ BackupFails(w)
          \/ MergeFails(w) \/ Cut(w)
  BY <1>1 DEF InspectFails, Quit, WriteFails, ReadFails, BackupFails, BacksUp, Writes, MergeFails,
              Cut, fileVars, Ended
<1>2. CASE Start(w) \/ NoCollision(w) \/ Collision(w) \/ Overwrite(w) \/ Rename(w) \/ ReadExisting(w)
  BY <1>2 DEF Start, NoCollision, Collision, Overwrite, Rename, ReadExisting, Writes, fileVars, Ended
<1>3. CASE Backup(w) \/ NothingToBackup(w)
  BY <1>3 DEF Backup, NothingToBackup, Backed, BacksUp, Writes, Ended
<1>4. CASE Replace(w)
  BY <1>4 DEF Replace, Ended
<1>5. ~(Spawn(w) \/ ChildTimesOut(w) \/ ChildWrites(w) \/ ChildExits(w) \/ Orphaned(w))
  BY <1>a DEF Spawn, ChildTimesOut, ChildWrites, ChildExits, Orphaned
<1> QED BY <1>1, <1>2, <1>3, <1>4, <1>5 DEF RunStep, OwnStep

LEMMA PhaseRun ==
  ASSUME RunTypes, TestTypes, PhaseInv, KnowInv, NEW w \in Runs, RunStep(w), ByRun(w)
  PROVE  PhaseInv'
<1>a. hpc' = hpc /\ TestRun \in Runs
  BY Constants DEF ByRun
<1>b. kind' = kind
  BY DEF RunStep, OwnStep, Start, InspectFails, NoCollision, Collision, Overwrite, Rename, Quit,
         WriteFails, ReadExisting, ReadFails, Backup, NothingToBackup, BackupFails, Backed, Replace,
         MergeFails, Spawn, ChildTimesOut, ChildWrites, ChildExits, Cut, Orphaned, fileVars
<1>1. CASE kind # "json"
  <2>1. hpc = "off"
    BY <1>1 DEF PhaseInv
  <2> QED BY <1>1, <1>a, <1>b, <2>1 DEF PhaseInv
<1>2. CASE kind = "json"
  <2>1. \A v \in Runs : child'[v] = "none" /\ pc'[v] \notin {"spawn", "wait", "orphan"}
    BY <1>2, JsonStep DEF PhaseInv
  <2>2. CASE w # TestRun
    <3>1. pc'[TestRun] = pc[TestRun] /\ name'[TestRun] = name[TestRun]
      BY <1>2, <1>a, <2>2, JsonStep
    <3> QED BY <1>a, <1>b, <1>2, <2>1, <3>1 DEF PhaseInv, Idle
  <2>3. CASE w = TestRun
    <3>1. /\ pc[w] = "off" => hpc = "wizard" /\ name'[w] = TestName
          /\ pc[w] = "ask" => pc'[w] = "failed"
      BY <1>2, <2>3 DEF ByRun, Scripted
    <3>2. pc[w] \notin Ended
      BY <1>2, JsonRun
    <3>3. hpc \notin {"off", "refused", "restore", "sweep", "done"}
      BY <1>2, <2>3, <3>1, <3>2 DEF PhaseInv
    <3>4. ASSUME ~Idle(TestRun)' PROVE name'[TestRun] = TestName
      <4>1. CASE pc[w] = "off"
        BY <2>3, <3>1, <4>1
      <4>2. CASE pc[w] = "ask"
        BY <2>3, <3>1, <3>4, <4>2 DEF Idle, Ended
      <4>3. CASE pc[w] \notin {"off", "ask"}
        <5>1. name'[w] = name[w]
          BY <2>3, <3>4, <4>3, NameKept DEF Idle
        <5> QED BY <1>2, <2>3, <3>2, <4>3, <5>1 DEF PhaseInv, Idle
      <4> QED BY <4>1, <4>2, <4>3
    <3> QED BY <1>a, <1>b, <1>2, <2>1, <3>3, <3>4 DEF PhaseInv
  <2> QED BY <2>2, <2>3
<1> QED BY <1>1, <1>2

LEMMA PhaseWorld ==
  ASSUME RunTypes, TestTypes, PhaseInv,
         ((OthersEdit \/ Tick) /\ UNCHANGED hpc) \/ TestStep
  PROVE  PhaseInv'
<1>1. UNCHANGED <<kind, pc, name, child>>
  BY DEF OthersEdit, Tick, TestStep, Snapshot, Inspect, Restore, Sweep, TestKilled, hostVars,
         fileVars, runVars
<1>2. \/ hpc' = hpc
      \/ hpc = "off" /\ hpc' \in {"wizard", "refused"} /\ kind = "json"
      \/ hpc \notin {"off", "refused"} /\ hpc' \in {"restore", "crashed"} /\ 
           (hpc' = "restore" => pc[TestRun] \in Ended)
      \/ hpc \in {"restore", "sweep"} /\ hpc' \in {"sweep", "done"}
  BY DEF OthersEdit, Tick, TestStep, Snapshot, Inspect, Restore, Sweep, TestKilled
<1> QED BY <1>1, <1>2 DEF PhaseInv, Idle

(* A run's step that leaves the file as it is leaves the test's run with   *)
(* what it has read.                                                       *)
LEMMA UnreadKept ==
  ASSUME RunTypes, NEW v \in Runs, NEW w \in Runs \ {v}, RunStep(w), file' = file, Unread(v)',
         ~Idle(v)
  PROVE  Unread(v)
<1>1. CASE \E f, O : Becomes(f, O) /\ v \notin O
  BY <1>1 DEF Becomes, Idle, Unread
<1>2. CASE Backup(w)
  BY <1>2 DEF Backup, CopiesGo, Unread
<1>3. CASE Replace(w) \/ ChildWrites(w)
  BY <1>1, <1>3 DEF Replace, ChildWrites
<1>4. CASE \/ InspectFails(w) \/ Quit(w) \/ WriteFails(w) \/ ReadFails(w) \/ BackupFails(w)
          \/ MergeFails(w) \/ ChildTimesOut(w) \/ Cut(w) \/ ChildExits(w)
  <2>1. stale'[v] = stale[v]
    BY <1>4 DEF InspectFails, Quit, WriteFails, ReadFails, BackupFails, MergeFails,
                ChildTimesOut, Cut, ChildExits, Fail, RunTypes
  <2> QED BY <2>1 DEF Unread
<1>5. CASE \/ Start(w) \/ NoCollision(w) \/ Collision(w) \/ Overwrite(w) \/ Rename(w)
          \/ ReadExisting(w) \/ NothingToBackup(w) \/ Spawn(w) \/ Orphaned(w)
  <2>1. stale'[v] = stale[v]
    BY <1>5 DEF Start, NoCollision, Collision, Overwrite, Rename, ReadExisting, NothingToBackup,
                Spawn, Orphaned, Fresh, RunTypes, localVars
  <2> QED BY <2>1 DEF Unread
<1> QED BY <1>2, <1>3, <1>4, <1>5 DEF RunStep, OwnStep

LEMMA TestOther ==
  ASSUME RunTypes, PhaseInv, TestInv, KnowInv, NEW w \in Runs \ {TestRun}, RunStep(w), ByRun(w)
  PROVE  TestInv'
<1> SUFFICES ASSUME Undisturbed' PROVE TestInv'
  BY DEF TestInv
<1>1. hpc' = hpc /\ snapshot' = snapshot /\ Undisturbed /\ file' = file /\ kind = "json"
  BY DEF ByRun, Touch, Undisturbed, PhaseInv
<1>2. pc'[TestRun] = pc[TestRun]
  BY <1>1, Constants, JsonStep
<1>3. pc[TestRun] \in {"backup", "replace"} => ~Unread(TestRun)'
  BY <1>1, UnreadKept, Constants DEF TestInv, Idle, Ended
<1> QED BY <1>1, <1>2, <1>3 DEF TestInv, SameButTest

LEMMA TestOwn ==
  ASSUME FileTypes, RunTypes, FileInv, KnowInv, PhaseInv, TestInv, RunStep(TestRun), ByRun(TestRun)
  PROVE  TestInv'
<1> DEFINE w == TestRun
<1> SUFFICES ASSUME Undisturbed' PROVE TestInv'
  BY DEF TestInv
<1>a. w \in Runs
  BY Constants
<1>1. hpc' = hpc /\ snapshot' = snapshot /\ Undisturbed /\ kind = "json"
  BY DEF ByRun, Undisturbed, PhaseInv
<1>2. pc[w] \notin Ended
  BY <1>a, <1>1, JsonRun
<1>3. hpc \notin {"restore", "sweep", "done"} /\ SameButTest(file, snapshot)
  BY <1>1, <1>2 DEF PhaseInv, TestInv
<1>4. CASE Replace(w)
  <2>1. Replaced(w)
    BY <1>a, <1>4 DEF Replaced, Replace, End, Goto, RunTypes
  <2>2. pc[w] = "replace" /\ ~Unread(w) /\ name[w] = TestName
    BY <1>1, <1>4 DEF Replace, TestInv, PhaseInv, Idle, Ended
  <2>3. KeepsSiblings(w)
    BY <1>a, <2>1, ReplaceKeeps
  <2>4. file'.rest = file.rest /\ \A n \in Names \ {TestName} : file'.servers[n] = file.servers[n]
    BY <2>1, <2>2, <2>3 DEF KeepsSiblings, Unread
  <2>5. SameButTest(file', snapshot)
    BY <1>3, <2>4 DEF SameButTest
  <2>6. pc'[w] \notin {"backup", "replace"}
    BY <2>1 DEF Replaced
  <2>7. SameButTest(file, snapshot)'
    BY <1>1, <2>5 DEF SameButTest
  <2> QED BY <1>1, <1>3, <2>6, <2>7 DEF TestInv
<1>5. CASE ~Replace(w)
  <2>1. file' = file
    BY <1>a, <1>1, <1>5, JsonRun
  <2>2. ASSUME pc'[w] \in {"backup", "replace"} PROVE ~Unread(w)'
    <3>1. ReadExisting(w) \/ Backup(w) \/ NothingToBackup(w)
      BY <1>a, <1>1, <1>5, <2>2
         DEF RunStep, OwnStep, Start, InspectFails, NoCollision, Collision, Overwrite,
         Rename, Quit, WriteFails, ReadFails, BackupFails, MergeFails, Spawn, ChildTimesOut,
         ChildWrites, ChildExits, Cut, Orphaned, PhaseInv, Fail, End, Goto, RunTypes, Ended
    <3>2. CASE ReadExisting(w)
      BY <1>a, <3>2 DEF ReadExisting, Fresh, RunTypes, Unread
    <3>3. CASE Backup(w) \/ NothingToBackup(w)
      <4>1. pc[w] = "backup"
        BY <1>1, <3>3 DEF Backup, NothingToBackup, Backed, BacksUp, Writes
      <4>2. ~Unread(w)
        BY <1>1, <4>1 DEF TestInv
      <4> QED BY <1>a, <3>3, <4>2 DEF Backup, NothingToBackup, CopiesGo, Fresh, RunTypes, Unread
    <3> QED BY <3>1, <3>2, <3>3
  <2>3. SameButTest(file, snapshot)'
    BY <1>1, <1>3, <2>1 DEF SameButTest
  <2> QED BY <1>1, <1>3, <2>2, <2>3 DEF TestInv
<1> QED BY <1>4, <1>5

LEMMA TestWorld ==
  ASSUME FileTypes, RunTypes, FileInv, PhaseInv, TestInv,
         ((OthersEdit \/ Tick) /\ Touch /\ UNCHANGED <<hpc, snapshot>>) \/ TestStep
  PROVE  TestInv'
<1>a. pc' = pc /\ TestRun \in Runs
  BY Constants DEF OthersEdit, Tick, TestStep, Snapshot, Inspect, Restore, Sweep, TestKilled, hostVars,
         runVars
<1> SUFFICES ASSUME Undisturbed' PROVE TestInv'
  BY DEF TestInv
<1>1. CASE (OthersEdit \/ Tick) /\ Touch /\ UNCHANGED <<hpc, snapshot>>
  <2>1. Undisturbed /\ file' = file
    BY <1>1 DEF Touch, Undisturbed
  <2>2. ~Idle(TestRun) => stale'[TestRun] = stale[TestRun]
    BY <1>a, <1>1, <2>1 DEF OthersEdit, Becomes, Tick, Idle, runVars, localVars
  <2> QED BY <1>a, <1>1, <2>1, <2>2 DEF TestInv, SameButTest, Idle, Unread, Ended
<1>2. CASE Snapshot
  <2>1. pc[TestRun] = "off" /\ hpc' = "wizard" /\ snapshot' = file /\ file' = file
    BY <1>2 DEF Snapshot, Undisturbed, PhaseInv, hostVars, fileVars
  <2> QED BY <1>a, <2>1 DEF TestInv, SameButTest
<1>3. CASE Inspect
  <2>1. Undisturbed /\ UNCHANGED <<file, snapshot, stale>> /\ hpc' \in {"restore", "crashed"}
    BY <1>3 DEF Inspect, Undisturbed, hostVars, fileVars, runVars, localVars
  <2> QED BY <1>a, <2>1 DEF TestInv, SameButTest, Unread
<1>4. CASE Restore
  <2>1. file' = snapshot /\ snapshot' = snapshot /\ pc[TestRun] \in Ended
    BY <1>4 DEF Restore, Becomes, PhaseInv
  <2> QED BY <1>a, <2>1 DEF TestInv, SameButTest, Ended
<1>5. CASE Sweep
  <2>1. Undisturbed /\ UNCHANGED <<file, snapshot>> /\ pc[TestRun] \in Ended /\ hpc = "sweep"
    BY <1>5 DEF Sweep, Undisturbed, PhaseInv
  <2> QED BY <1>a, <2>1 DEF TestInv, SameButTest, Ended
<1>6. CASE TestKilled
  <2>1. Undisturbed /\ hpc' = "crashed" /\ snapshot' = snapshot
    BY <1>6 DEF TestKilled, Undisturbed
  <2>2. CASE UNCHANGED <<file, stale>>
    BY <1>a, <2>1, <2>2 DEF TestInv, SameButTest, Unread
  <2>3. CASE hpc = "restore" /\ Becomes(Shaped("blank"), {})
    <3>1. file'.shape = "blank"
      BY <2>3, ShapedFile DEF Becomes, Shapes
    <3>2. pc[TestRun] \in Ended
      BY <2>3 DEF PhaseInv
    <3> QED BY <1>a, <2>1, <3>1, <3>2 DEF TestInv, Ended
  <2> QED BY <1>6, <2>2, <2>3 DEF TestKilled
<1> QED BY <1>1, <1>2, <1>3, <1>4, <1>5, <1>6 DEF TestStep

TestAll == TypeOK /\ FileInv /\ KnowInv /\ PhaseInv /\ TestInv

LEMMA TestAllInit == Init => TestAll
<1>1. Init => PhaseInv /\ TestInv
  BY Constants DEF Init, HostInit, PhaseInv, TestInv, Undisturbed, Idle
<1> QED BY <1>1, TypeInit, KnowInit DEF TestAll

LEMMA TestAllStep == TestAll /\ [Next]_vars => TestAll'
<1> SUFFICES ASSUME TestAll, [Next]_vars PROVE TestAll'
  OBVIOUS
<1>a. FileTypes /\ RunTypes /\ TestTypes /\ TypeOK /\ FileInv /\ KnowInv /\ PhaseInv /\ TestInv
  BY TypeParts DEF TestAll
<1>b. TypeOK' /\ FileInv' /\ KnowInv'
  BY <1>a, TypeStep, KnowStep
<1>1. ASSUME NEW w \in Runs, RunStep(w), ByRun(w) PROVE PhaseInv' /\ TestInv'
  <2>1. CASE w = TestRun
    BY <1>a, <1>1, <2>1, PhaseRun, TestOwn
  <2>2. CASE w # TestRun
    BY <1>a, <1>1, <2>2, PhaseRun, TestOther
  <2> QED BY <2>1, <2>2
<1>2. CASE (OthersEdit \/ Tick) /\ Touch /\ UNCHANGED <<hpc, snapshot>>
  <2>1. PhaseInv'
    BY <1>a, <1>2, PhaseWorld
  <2>2. TestInv'
    BY <1>a, <1>2, TestWorld
  <2> QED BY <1>b, <2>1, <2>2 DEF TestAll
<1>3. CASE TestStep
  <2>1. PhaseInv'
    BY <1>a, <1>3, PhaseWorld
  <2>2. TestInv'
    BY <1>a, <1>3, TestWorld
  <2> QED BY <1>b, <2>1, <2>2 DEF TestAll
<1>4. CASE UNCHANGED vars
  <2>1. PhaseInv'
    BY <1>a, <1>4 DEF PhaseInv, Idle, vars, hostVars, fileVars, runVars, testVars
  <2>2. TestInv'
    <3>1. UNCHANGED <<file, snapshot, hpc, touched, pc, stale>>
      BY <1>4 DEF vars, hostVars, fileVars, runVars, localVars, testVars
    <3>2. Undisturbed' = Undisturbed /\ Unread(TestRun)' = Unread(TestRun)
      BY <3>1 DEF Undisturbed, Unread
    <3>3. SameButTest(file, snapshot)' = SameButTest(file, snapshot)
      BY <3>1 DEF SameButTest
    <3> QED BY <1>a, <3>1, <3>2, <3>3 DEF TestInv
  <2> QED BY <1>b, <2>1, <2>2 DEF TestAll
<1> QED BY <1>b, <1>1, <1>2, <1>3, <1>4 DEF Next, Quiet, TestAll

(* The smoke test puts the user's configuration back, and wherever it      *)
(* stops only its own entry is different, unless somebody else changed the *)
(* file or it was cut off in the middle of copy2 (main, _restore).         *)
THEOREM TestPutsBack == Spec => []TestRestores
<1>1. TestAll => TestRestores
  BY DEF TestAll, TestInv, Undisturbed, SameButTest, TestRestores
<1> QED BY <1>1, TestAllInit, TestAllStep, PTL DEF Spec

-----------------------------------------------------------------------------
(* Termination: what moves a run is a step of its own, and it leaves fewer. *)
Still(v) == UNCHANGED <<pc[v], name[v], round[v], shown[v], seen[v], child[v], saved[v]>>
Falls(v) == StepsLeft(v)' < StepsLeft(v)

ChildInv == \A w \in Runs : child[w] # "none" => pc[w] \in {"wait", "orphan"}

LEMMA StepsLeftNat ==
  ASSUME RunTypes, NEW w \in Runs
  PROVE  /\ StepsLeft(w) \in Nat
         /\ pc[w] \notin Ended => StepsLeft(w) > 0
<1>1. /\ MaxRenames \in Nat /\ MaxRenames - round[w] \in Nat
      /\ pc[w] \in Pcs
  BY McpClientsAssumption DEF RunTypes
<1> QED BY <1>1 DEF StepsLeft, Pcs, Ended

LEMMA EndFalls ==
  ASSUME RunTypes, NEW w \in Runs, NEW l \in Ended, End(w, l), pc[w] \notin Ended
  PROVE  Falls(w)
<1>1. pc'[w] \in Ended
  BY DEF RunTypes, End, Goto
<1>2. StepsLeft(w)' = 0
  BY <1>1 DEF StepsLeft, Ended
<1> QED BY <1>2, StepsLeftNat DEF Falls

LEMMA OwnFalls ==
  ASSUME RunTypes, ChildInv, NEW w \in Runs, RunStep(w)
  PROVE  Falls(w)
<1>a. /\ MaxRenames \in Nat /\ round[w] \in 0..(MaxRenames - 1) /\ pc[w] \in Pcs
  BY McpClientsAssumption DEF RunTypes
<1>b. pc \in [Runs -> Pcs] /\ round \in [Runs -> 0..(MaxRenames - 1)]
      /\ child \in [Runs -> {"none", "running", "wrote"}]
  BY DEF RunTypes
<1>1. CASE \/ InspectFails(w) \/ Quit(w) \/ WriteFails(w) \/ ReadFails(w) \/ BackupFails(w)
           \/ MergeFails(w) \/ ChildTimesOut(w) \/ Cut(w)
  <2>1. pc[w] \notin Ended /\ End(w, "failed") /\ "failed" \in Ended
    BY <1>1 DEF InspectFails, Quit, WriteFails, ReadFails, BackupFails, BacksUp, Writes, MergeFails,
                ChildTimesOut, Cut, Fail, Ended
  <2> QED BY <2>1, EndFalls
<1>2. CASE Replace(w) \/ ChildExits(w)
  <2>1. pc[w] \notin Ended /\ \E l \in Ended : End(w, l)
    BY <1>2 DEF Replace, ChildExits, Ended
  <2> QED BY <2>1, EndFalls
<1>3. CASE Start(w)
  BY <1>3, <1>a, <1>b DEF Start, Goto, localVars, Falls, StepsLeft, Ended
<1>4. CASE NoCollision(w) \/ Collision(w) \/ Overwrite(w)
  <2>1. /\ \/ pc[w] = "inspect" /\ pc'[w] \in {"write", "ask"}
           \/ pc[w] = "ask" /\ pc'[w] = "write"
        /\ round' = round
    BY <1>4, <1>b DEF NoCollision, Collision, Overwrite, Goto, localVars
  <2> QED BY <2>1, <1>a DEF Falls, StepsLeft, Ended
<1>5. CASE Rename(w)
  <2>1. pc[w] = "ask" /\ pc'[w] = "inspect" /\ round'[w] = round[w] + 1
    BY <1>5, <1>b DEF Rename, Goto
  <2> QED BY <2>1, <1>a DEF Falls, StepsLeft, Ended
<1>6. CASE ReadExisting(w) \/ Backup(w) \/ NothingToBackup(w)
  <2>1. \/ pc[w] = "write" /\ pc'[w] \in {"backup", "spawn", "replace"}
        \/ pc[w] = "backup" /\ pc'[w] \in {"spawn", "replace"}
    BY <1>6, <1>b DEF ReadExisting, Backup, NothingToBackup, Backed, BacksUp, Writes, Goto
  <2> QED BY <2>1 DEF Falls, StepsLeft, Ended
<1>7. CASE Spawn(w) \/ ChildWrites(w) \/ Orphaned(w)
  <2>1. \/ pc[w] = "spawn" /\ pc'[w] = "wait"
        \/ pc[w] = "wait" /\ pc'[w] = "orphan" /\ child'[w] = child[w]
        \/ pc[w] \in {"wait", "orphan"} /\ pc'[w] = pc[w]
            /\ child[w] = "running" /\ child'[w] = "wrote"
    BY <1>7, <1>b DEF Spawn, ChildWrites, Orphaned, Goto, ChildInv
  <2> QED BY <2>1 DEF Falls, StepsLeft, Ended
<1> QED BY <1>1, <1>2, <1>3, <1>4, <1>5, <1>6, <1>7 DEF RunStep, OwnStep

LEMMA OthersRest ==
  ASSUME RunTypes, NEW w \in Runs, RunStep(w), NEW v \in Runs \ {w}
  PROVE  Still(v)
<1>1. CASE \E l \in Ended : End(w, l) /\ UNCHANGED child
  BY <1>1 DEF RunTypes, Still, End, Goto
<1>2. CASE ChildExits(w) \/ ChildTimesOut(w) \/ Cut(w)
  BY <1>2 DEF ChildExits, ChildTimesOut, Cut, Fail, RunTypes, Still, End, Goto
<1>3. CASE Start(w) \/ NoCollision(w) \/ Collision(w) \/ Overwrite(w) \/ Rename(w)
  BY <1>3 DEF Start, NoCollision, Collision, Overwrite, Rename, localVars, RunTypes, Still, Goto
<1>4. CASE ReadExisting(w) \/ Backup(w) \/ NothingToBackup(w)
  BY <1>4 DEF ReadExisting, Backup, NothingToBackup, Backed, RunTypes, Still, Goto
<1>5. CASE Spawn(w) \/ ChildWrites(w) \/ Orphaned(w)
  BY <1>5 DEF Spawn, ChildWrites, Orphaned, localVars, RunTypes, Still, Goto
<1>6. \/ InspectFails(w) \/ Quit(w) \/ WriteFails(w) \/ ReadFails(w) \/ BackupFails(w)
      \/ MergeFails(w) \/ Replace(w)
      => \E l \in Ended : End(w, l) /\ UNCHANGED child
  BY DEF InspectFails, Quit, WriteFails, ReadFails, BackupFails, MergeFails, Replace, Fail, Ended
<1> QED BY <1>1, <1>2, <1>3, <1>4, <1>5, <1>6 DEF RunStep, OwnStep

LEMMA Descent ==
  ASSUME TypeOK, BackupInv, [Next]_vars, NEW v \in Runs
  PROVE  Still(v) \/ Falls(v)
<1>a. RunTypes /\ ChildInv
  BY TypeParts DEF BackupInv, CopyInv, ChildInv
<1>1. ASSUME NEW w \in Runs, RunStep(w) PROVE Still(v) \/ Falls(v)
  BY <1>1, <1>a, OwnFalls, OthersRest
<1>2. CASE OthersEdit \/ Tick \/ TestStep \/ UNCHANGED vars
  BY <1>2 DEF OthersEdit, Tick, TestStep, Snapshot, Inspect, Restore, Sweep, TestKilled, Still,
              vars, hostVars, runVars, localVars
<1> QED BY <1>1, <1>2 DEF Next, Quiet

(* A run of the wizard is over after at most StepsLeft steps of its own,   *)
(* of any number of runs that overlap, whatever else happens to the file,  *)
(* and with the claude program hanging, writing late or outliving the run  *)
(* (_resolve_server_name counts its rounds, write times the program out).  *)
THEOREM RunsDescendCorrect ==
  Spec => RunsDescend /\ [](\A w \in Runs : StepsLeft(w) \in Nat)
<1>1. TypeOK /\ BackupInv /\ [Next]_vars =>
        [\A w \in Runs :
           \/ UNCHANGED <<pc[w], name[w], round[w], shown[w], seen[w], child[w], saved[w]>>
           \/ StepsLeft(w)' < StepsLeft(w)]_vars
  BY Descent DEF Still, Falls
<1>2. TypeOK => \A w \in Runs : StepsLeft(w) \in Nat
  BY TypeParts, StepsLeftNat
<1> QED BY <1>1, <1>2, BackupAlways, PTL DEF Spec, RunsDescend

Waits(w) == pc[w] \in {"wait", "orphan"} <=> child[w] # "none"
WaitInv == \A w \in Runs : Waits(w)

(* A run waits just as long as there is a program to wait for, so that its *)
(* time-out always has one to kill: of the stages a run goes through the   *)
(* only one whose steps depend on more than the file, the name and the     *)
(* kind of writer, among which their guards leave no gap (ChildTimesOut).  *)
THEOREM WaitsForAProgram == Spec => []WaitInv
<1>1. Init => WaitInv
  BY DEF Init, HostInit, WaitInv, Waits
<1>2. TypeOK /\ BackupInv /\ WaitInv /\ [Next]_vars => WaitInv'
  <2> SUFFICES ASSUME TypeOK, BackupInv, [Next]_vars, NEW v \in Runs, Waits(v) PROVE Waits(v)'
    BY DEF WaitInv
  <2> USE DEF Waits
  <2>a. RunTypes /\ ChildInv
    BY TypeParts DEF BackupInv, CopyInv, ChildInv
  <2>1. CASE RunStep(v)
    <3>1. CASE \/ InspectFails(v) \/ Quit(v) \/ WriteFails(v) \/ ReadFails(v) \/ BackupFails(v)
               \/ MergeFails(v) \/ Replace(v)
      <4>1. pc[v] \notin {"wait", "orphan"} /\ child' = child /\ \E l \in Ended : End(v, l)
        BY <3>1 DEF InspectFails, Quit, WriteFails, ReadFails, BackupFails, BacksUp, Writes,
                    MergeFails, Replace, Fail, Ended
      <4> QED BY <2>a, <4>1 DEF End, Goto, RunTypes, Ended
    <3>2. CASE ChildTimesOut(v) \/ Cut(v) \/ ChildExits(v)
      <4>1. child' = [child EXCEPT ![v] = "none"] /\ \E l \in Ended : End(v, l)
        BY <3>2 DEF ChildTimesOut, Cut, ChildExits, Fail, Ended
      <4> QED BY <2>a, <4>1 DEF End, Goto, RunTypes, Ended
    <3>3. CASE Start(v) \/ NoCollision(v) \/ Collision(v) \/ Overwrite(v) \/ Rename(v)
      BY <2>a, <3>3 DEF Start, NoCollision, Collision, Overwrite, Rename, Goto, RunTypes
    <3>4. CASE ReadExisting(v) \/ Backup(v) \/ NothingToBackup(v)
      BY <2>a, <3>4 DEF ReadExisting, Backup, NothingToBackup, Backed, BacksUp, Writes, Goto, RunTypes
    <3>5. CASE Spawn(v) \/ ChildWrites(v) \/ Orphaned(v)
      BY <2>a, <3>5 DEF Spawn, ChildWrites, Orphaned, Goto, RunTypes
    <3> QED BY <2>1, <3>1, <3>2, <3>3, <3>4, <3>5 DEF RunStep, OwnStep
  <2>2. CASE \E w \in Runs \ {v} : RunStep(w)
    BY <2>2, <2>a, OthersRest DEF Still
  <2>3. CASE OthersEdit \/ Tick \/ TestStep \/ UNCHANGED vars
    BY <2>3 DEF OthersEdit, Tick, TestStep, Snapshot, Inspect, Restore, Sweep, TestKilled,
                vars, hostVars, runVars
  <2> QED BY <2>1, <2>2, <2>3 DEF Next, Quiet
<1> QED BY <1>1, <1>2, BackupAlways, PTL DEF Spec
=============================================================================
