--------------------------- MODULE DotFileProofs ---------------------------
(***************************************************************************)
(* Proofs about DotFile: for any number of overlapping writers, keys and   *)
(* values, it is type-correct, implements KeyStore and, of values without  *)
(* separators, gives the server what was stored.  The invariant the        *)
(* refinement needs is that contents reach the disk before the rename, so  *)
(* that whatever a power cut leaves at the path is whole.                  *)
(***************************************************************************)
EXTENDS DotFile, TLAPS

Busy == {"write", "sync", "replace"}

SyncedInv ==
  /\ file.synced = TRUE /\ disk.synced = TRUE
  /\ \A w \in Writers :
       /\ pc[w] = "replace" => temp[w] = "synced"
       /\ IF pc[w] \in Busy THEN job[w] \in Jobs ELSE existing[w] = Nothing

Inv == TypeOK /\ SyncedInv

(* The lines of a key come from a first and a last value of the map.       *)
LEMMA Places ==
  ASSUME NEW ks \in SUBSET Keys, ks # {}
  PROVE  Least(ks) \in ks /\ Greatest(ks) \in ks
BY RankAssumption DEF Least, Greatest

(* What is written can be read: a line has no separator in it.             *)
LEMMA FormattedType ==
  ASSUME NEW m \in [Keys -> Values \cup {None}]
  PROVE  Formatted(m) \in Lines
<1>1. ASSUME NEW k \in Keys
      PROVE  FirstLine(m, k) \in Plain \cup {None} /\ LastLine(m, k) \in Plain \cup {None}
  <2>1. CASE Makers(m, k) = {}
    BY <2>1 DEF FirstLine, LastLine
  <2>2. CASE Makers(m, k) # {}
    <3>1. Least(Makers(m, k)) \in Makers(m, k) /\ Greatest(Makers(m, k)) \in Makers(m, k)
      <4>1. Makers(m, k) \in SUBSET Keys
        BY DEF Makers
      <4> QED BY <2>2, <4>1, Places
    <3>2. ASSUME NEW i \in Makers(m, k)
          PROVE  /\ i \in Keys /\ m[i] \in Values
                 /\ Head[m[i]] \in Plain
                 /\ Tail[m[i]].first \in Data /\ Tail[m[i]].last \in Data
                 /\ i = k \/ Tail[m[i]].last[k] # None
      BY DotFileAssumption DEF Makers
    <3>3. FirstLine(m, k) \in Plain \cup {None}
      BY <3>1, <3>2 DEF FirstLine, Data
    <3>4. LastLine(m, k) \in Plain \cup {None}
      BY <3>1, <3>2 DEF LastLine, Data
    <3> QED BY <3>3, <3>4
  <2> QED BY <2>1, <2>2
<1> QED BY <1>1 DEF Formatted, Lines, Data, Fits

(* Plain values are read as they were written.                             *)
LEMMA FormattedPlain ==
  ASSUME NEW m \in Data
  PROVE  Formatted(m) = [first |-> m, last |-> m, small |-> Fits(m)]
<1>1. ASSUME NEW k \in Keys PROVE FirstLine(m, k) = m[k] /\ LastLine(m, k) = m[k]
  <2>1. \A j \in Keys : m[j] # None =>
          m[j] \in Values /\ Head[m[j]] = m[j] /\ Tail[m[j]].first[k] = None /\ Tail[m[j]].last[k] = None
    BY DotFileAssumption DEF Data, Plain, Nothing
  <2>2. Makers(m, k) = IF m[k] = None THEN {} ELSE {k}
    BY <2>1 DEF Makers
  <2>3. CASE m[k] = None
    BY <2>2, <2>3 DEF FirstLine, LastLine
  <2>4. CASE m[k] # None
    <3>1. Makers(m, k) = {k} /\ Least({k}) = k /\ Greatest({k}) = k
      BY <2>2, <2>4, Places
    <3> QED BY <2>1, <2>4, <3>1 DEF FirstLine, LastLine
  <2> QED BY <2>3, <2>4
<1> QED BY <1>1 DEF Formatted, Data

LEMMA Updated ==
  ASSUME NEW w \in Writers, existing[w] \in Data, job[w] \in Jobs
  PROVE  [existing[w] EXCEPT ![job[w].key] = job[w].value] \in [Keys -> Values \cup {None}]
BY DEF Data, Plain, Jobs

LEMMA NoLinesType == Nothing \in Data /\ NoLines \in Lines
BY DEF NoLines, Lines, Data, Nothing

LEMMA Initially == Init => Inv
<1> SUFFICES ASSUME Init PROVE Inv
  OBVIOUS
<1>1. file \in File /\ file.synced = TRUE
  BY DotFileAssumption, NoLinesType DEF Init, File
<1> QED BY <1>1, NoLinesType DEF Init, Inv, TypeOK, SyncedInv, Busy

LEMMA Step == Inv /\ [Next]_vars => Inv'
<1> SUFFICES ASSUME Inv, [Next]_vars PROVE Inv'
  OBVIOUS
<1> USE NoLinesType DEF Inv, TypeOK, SyncedInv, Busy, Goto, Forget
<1>1. ASSUME NEW w \in Writers, NEW k \in Keys, NEW v \in Values \cup {None}, Begin(w, k, v)
      PROVE  Inv'
  <2>1. Visible(file) \in Data
    BY DEF Visible, File, Lines
  <2>2. [key |-> k, value |-> v] \in Jobs
    BY DEF Jobs
  <2> QED BY <1>1, <2>1, <2>2 DEF Begin
<1>2. ASSUME NEW w \in Writers, Write(w) PROVE Inv'
  BY <1>2 DEF Write
<1>3. ASSUME NEW w \in Writers, Sync(w) PROVE Inv'
  BY <1>3 DEF Sync
<1>4. ASSUME NEW w \in Writers, Replace(w) PROVE Inv'
  <2>1. job[w] \in Jobs /\ temp[w] = "synced"
    BY <1>4 DEF Replace
  <2>2. Formatted([existing[w] EXCEPT ![job[w].key] = job[w].value]) \in Lines
    BY <2>1, Updated, FormattedType
  <2>3. file' \in File /\ file'.synced = TRUE
    BY <1>4, <2>1, <2>2 DEF Replace, File
  <2> QED BY <1>4, <2>3 DEF Replace
<1>5. ASSUME NEW w \in Writers, Chmod(w) PROVE Inv'
  <2>1. file' \in File /\ file'.synced = TRUE
    BY <1>5 DEF Chmod, File
  <2> QED BY <1>5, <2>1 DEF Chmod
<1>6. ASSUME NEW w \in Writers, Stops(w) PROVE Inv'
  BY <1>6 DEF Stops
<1>7. CASE SyncDirectory
  BY <1>7 DEF SyncDirectory
<1>8. CASE PowerCut
  BY <1>8 DEF PowerCut, File
<1>9. ASSUME NEW b \in BOOLEAN, ChangeMode(b) PROVE Inv'
  <2>1. file' \in File /\ file'.synced = TRUE
    BY <1>9 DEF ChangeMode, File
  <2> QED BY <1>9, <2>1 DEF ChangeMode
<1>10. CASE UNCHANGED vars
  BY <1>10 DEF vars
<1> QED
  BY <1>1, <1>2, <1>3, <1>4, <1>5, <1>6, <1>7, <1>8, <1>9, <1>10 DEF Next

LEMMA Invariance == Spec => []Inv
<1> QED BY Initially, Step, PTL DEF Spec

(* Every reachable state of the credentials file is well-typed: no value   *)
(* in it, however it was stored, would be split a second time.             *)
THEOREM TypeCorrect == Spec => []TypeOK
<1>1. Inv => TypeOK
  BY DEF Inv
<1> QED BY <1>1, Invariance, PTL
-----------------------------------------------------------------------------
(* What the server reads after a store of a plain value or a deletion, in  *)
(* terms of what the store read.                                           *)
LEMMA Stored ==
  ASSUME Inv, [Next]_vars, NEW w \in Writers, StoresPlain(w), file'.lines.small, NEW k \in Keys
  PROVE  Served(file')[k] = Text(IF k = job[w].key THEN job[w].value ELSE existing[w][k])
<1>1. Replace(w)
  BY DEF Next, vars, StoresPlain, Replaced, Begin, Write, Sync, Replace, Chmod, Stops,
         SyncDirectory, PowerCut, ChangeMode, Goto, Inv, TypeOK
<1>2. job[w] \in Jobs /\ existing[w] \in Data
  BY <1>1 DEF Inv, TypeOK, SyncedInv, Busy, Replace
<1> DEFINE m == [existing[w] EXCEPT ![job[w].key] = job[w].value]
<1>3. file'.lines = Formatted(m) /\ file'.private = TRUE
  BY <1>1 DEF Replace
<1>4. m \in Data
  BY <1>2 DEF StoresPlain, Data, Jobs
<1>5. file'.lines.first = m
  BY <1>3, <1>4, FormattedPlain
<1>6. Served(file')[k] = Text(m[k])
  BY <1>3, <1>5 DEF Served, Readable
<1>7. m[k] = IF k = job[w].key THEN job[w].value ELSE existing[w][k]
  BY <1>2 DEF Data, Jobs
<1> QED BY <1>6, <1>7

LEMMA ServesStep == Inv /\ [Next]_vars => \A w \in Writers : StoresPlain(w) => Serves(w)
<1> SUFFICES ASSUME Inv, [Next]_vars, NEW w \in Writers, StoresPlain(w), file'.lines.small
             PROVE  /\ Served(file')[job[w].key] = Text(job[w].value)
                    /\ UpToDate(w) => \A k \in Keys \ {job[w].key} :
                                        Served(file')[k] = Served(file)[k]
  BY DEF Serves, GivesOwn, KeepsOthers
<1>1. job[w].key \in Keys
  BY DEF Inv, TypeOK, SyncedInv, Busy, StoresPlain, Replaced, Jobs
<1>2. UpToDate(w) => \A k \in Keys : Served(file)[k] = Text(existing[w][k])
  BY DEF UpToDate, Served
<1> QED BY <1>1, <1>2, Stored

(* A store of any value without separators, and a deletion, gives the      *)
(* server the new value, and leaves it the others when the store's reading *)
(* is up to date (DotfileStore.store and _try_user_dotfile).               *)
THEOREM StoreServesCorrect == Spec => StoreServes
<1>1. Inv /\ [Next]_vars => [\A w \in Writers : StoresPlain(w) => Serves(w)]_vars
  BY ServesStep
<1> QED BY <1>1, Invariance, PTL DEF Spec, StoreServes
-----------------------------------------------------------------------------
(* Stores one after the other: nothing changes the file between a store's  *)
(* reading and its own rename.                                             *)
HandsOff == file' # file => \A w \in Writers : pc[w] \in Busy => Replaced(w)

(* No store under way has a value with a separator in it.                  *)
PlainJobs == \A w \in Writers : pc[w] \in Busy => job[w].value \in Plain \cup {None}

(* A file only the store has written has one line of a key, and a store    *)
(* under way has read the file that is there.                              *)
OneLine(f) == f.lines.first = f.lines.last

OwnInv ==
  /\ OneLine(file) /\ OneLine(disk)
  /\ \A w \in Writers : pc[w] \in Busy => existing[w] = Visible(file)

LEMMA OwnStep ==
  ASSUME Inv, OwnInv, [Next]_vars, HandsOff, PlainJobs
  PROVE  OwnInv'
<1> USE DEF OwnInv, OneLine, Goto, Forget
<1>a. pc \in [Writers -> {"idle", "write", "sync", "replace", "chmod"}]
  BY DEF Inv, TypeOK
<1>1. ASSUME file' = file,
             \A w \in Writers : pc'[w] \in Busy => pc[w] \in Busy /\ existing'[w] = existing[w]
      PROVE  \A w \in Writers : pc'[w] \in Busy => existing'[w] = Visible(file')
  BY <1>1
<1>2. ASSUME NEW w \in Writers, NEW k \in Keys, NEW v \in Values \cup {None}, Begin(w, k, v)
      PROVE  OwnInv'
  <2>1. file' = file /\ disk' = disk /\ existing' = [existing EXCEPT ![w] = Visible(file)]
    BY <1>2 DEF Begin
  <2>2. \A u \in Writers \ {w} : pc'[u] = pc[u]
    BY <1>a, <1>2 DEF Begin
  <2> QED BY <2>1, <2>2 DEF Inv, TypeOK
<1>3. ASSUME NEW w \in Writers, Write(w) \/ Sync(w) PROVE OwnInv'
  <2>1. file' = file /\ disk' = disk /\ existing' = existing /\ pc[w] \in Busy
    BY <1>3 DEF Write, Sync, Busy
  <2>2. \A u \in Writers \ {w} : pc'[u] = pc[u]
    BY <1>a, <1>3 DEF Write, Sync
  <2> QED BY <2>1, <2>2
<1>4. ASSUME NEW w \in Writers, Replace(w) PROVE OwnInv'
  <2> DEFINE m == [existing[w] EXCEPT ![job[w].key] = job[w].value]
  <2>a. m \in Data
    <3>1. pc[w] \in Busy
      BY <1>4 DEF Replace, Busy
    <3>2. existing[w] \in Data /\ job[w] \in Jobs /\ job[w].value \in Plain \cup {None}
      BY <3>1 DEF Inv, TypeOK, SyncedInv, PlainJobs
    <3> QED BY <3>2 DEF Data, Jobs
  <2>b. file'.lines = Formatted(m) /\ pc' = [pc EXCEPT ![w] = "chmod"] /\ disk' = disk
    BY <1>4 DEF Replace
  <2>1. pc' = [pc EXCEPT ![w] = "chmod"] /\ disk' = disk /\ OneLine(file')
    BY <2>a, <2>b, FormattedPlain
  <2>2. pc'[w] \notin Busy /\ \A u \in Writers \ {w} : pc'[u] = pc[u] /\ ~Replaced(u)
    BY <1>a, <2>1 DEF Busy, Replaced
  <2>3. \A u \in Writers \ {w} : existing'[u] = existing[u]
    BY <1>4 DEF Replace, Inv, TypeOK
  <2>4. CASE file' = file
    BY <2>1, <2>2, <2>3, <2>4
  <2>5. CASE file' # file
    BY <2>1, <2>2, <2>5 DEF HandsOff
  <2> QED BY <2>4, <2>5
<1>5. ASSUME NEW w \in Writers, Chmod(w) PROVE OwnInv'
  <2>1. /\ pc' = [pc EXCEPT ![w] = "idle"] /\ existing' = existing /\ disk' = disk
        /\ OneLine(file')
    BY <1>5 DEF Chmod, Inv, TypeOK, File
  <2>2. \A u \in Writers : (pc'[u] \in Busy => pc[u] \in Busy) /\ ~Replaced(u)
    BY <1>a, <2>1 DEF Busy, Replaced
  <2> QED BY <1>1, <2>1, <2>2 DEF HandsOff
<1>6. ASSUME NEW w \in Writers, Stops(w) PROVE OwnInv'
  <2>1. pc' = [pc EXCEPT ![w] = "idle"] /\ file' = file /\ disk' = disk
    BY <1>6 DEF Stops
  <2>2. \A u \in Writers : pc'[u] \in Busy => u # w /\ pc[u] \in Busy
    BY <1>a, <2>1 DEF Busy
  <2>3. \A u \in Writers \ {w} : existing'[u] = existing[u]
    BY <1>6 DEF Stops, Inv, TypeOK
  <2> QED BY <1>1, <2>1, <2>2, <2>3
<1>7. CASE SyncDirectory
  BY <1>7 DEF SyncDirectory
<1>8. CASE PowerCut
  <2>1. \A w \in Writers : pc'[w] \notin Busy
    BY <1>8 DEF PowerCut, Busy
  <2>2. OneLine(file') /\ disk' = file'
    BY <1>8 DEF PowerCut, Inv, SyncedInv
  <2> QED BY <2>1, <2>2
<1>9. ASSUME NEW b \in BOOLEAN, ChangeMode(b) PROVE OwnInv'
  <2>1. pc' = pc /\ existing' = existing /\ disk' = disk /\ OneLine(file')
    BY <1>9 DEF ChangeMode, Inv, TypeOK, File
  <2>2. \A u \in Writers : ~Replaced(u)
    BY <2>1 DEF Replaced
  <2> QED BY <1>1, <2>1, <2>2 DEF HandsOff
<1>10. CASE UNCHANGED vars
  BY <1>10 DEF vars
<1> QED
  BY <1>2, <1>3, <1>4, <1>5, <1>6, <1>7, <1>8, <1>9, <1>10 DEF Next

(* On a file nobody wrote by hand, stores of plain values and deletions    *)
(* that do not overlap lose no update: the server finds the value stored,  *)
(* and of every other key what it found before, through failures, kills    *)
(* and power cuts between them.  The hypotheses name what can lose one:    *)
(* lines by hand, a change of the file under a store, and a separator in a *)
(* value, which NoneInjected shows (DotfileStore.store, delete,            *)
(* _write_all).                                                            *)
THEOREM SequentialStoresServe ==
  ASSUME HandMade = {}
  PROVE  Spec /\ [][HandsOff]_vars /\ []PlainJobs
           => [][\A w \in Writers : GivesOwn(w) /\ KeepsOthers(w)]_vars
<1>1. Init => OwnInv
  BY DEF Init, OwnInv, OneLine, NoLines, Busy
<1>2. Inv /\ OwnInv /\ PlainJobs /\ [Next]_vars /\ [HandsOff]_vars => OwnInv'
  BY OwnStep DEF HandsOff, vars
<1>3. Inv /\ OwnInv /\ PlainJobs /\ [Next]_vars
        => [\A w \in Writers : GivesOwn(w) /\ KeepsOthers(w)]_vars
  <2> SUFFICES ASSUME Inv, OwnInv, PlainJobs, [Next]_vars, NEW w \in Writers,
                      Replaced(w), file'.lines.small
               PROVE  /\ Served(file')[job[w].key] = Text(job[w].value)
                      /\ \A k \in Keys \ {job[w].key} : Served(file')[k] = Served(file)[k]
    BY DEF GivesOwn, KeepsOthers
  <2>1. pc[w] \in Busy /\ job[w].key \in Keys
    BY DEF Inv, TypeOK, SyncedInv, Busy, Replaced, Jobs
  <2>2. StoresPlain(w) /\ existing[w] = Visible(file) /\ OneLine(file)
    BY <2>1 DEF OwnInv, PlainJobs, StoresPlain
  <2>3. \A k \in Keys : Served(file)[k] = Text(existing[w][k])
    BY <2>2 DEF Served, Visible, OneLine, Nothing, Text
  <2> QED BY <2>1, <2>2, <2>3, Stored
<1> QED BY <1>1, <1>2, <1>3, Invariance, PTL DEF Spec
-----------------------------------------------------------------------------
LEMMA InitRefines == Init => KS!Init
<1> SUFFICES ASSUME Init PROVE KS!Init
  OBVIOUS
<1>1. file.lines.last \in KS!Maps /\ Readable(file) \in BOOLEAN
  BY Initially DEF Inv, TypeOK, File, Lines, Data, KS!Maps, Readable
<1> QED BY <1>1 DEF Init, KS!Init, KS!Nothing, Nothing

LEMMA StepRefines ==
  ASSUME Inv, [Next]_vars
  PROVE  [KS!Next]_<<[map |-> file.lines.last, shown |-> Readable(file)],
                     [map |-> disk.lines.last, shown |-> Readable(disk)],
                     existing,
                     {w \in Writers : pc[w] \in {"write", "sync", "replace"}}>>
<1> DEFINE Now(f) == [map |-> f.lines.last, shown |-> Readable(f)]
           fresh == {w \in Writers : pc[w] \in Busy}
<1> SUFFICES [KS!Next]_<<Now(file), Now(disk), existing, fresh>>
  BY DEF Busy
<1> USE DEF Inv, TypeOK, SyncedInv, Goto, Forget
<1>1. ASSUME NEW w \in Writers, NEW k \in Keys, NEW v \in Values \cup {None}, Begin(w, k, v)
      PROVE  KS!Snapshot(w)
  <2>1. w \notin fresh /\ fresh' = fresh \cup {w}
    BY <1>1 DEF Begin, Busy
  <2>2. existing' = [existing EXCEPT ![w] = KS!Visible(Now(file))]
    BY <1>1 DEF Begin, Visible, KS!Visible, KS!Nothing, Nothing
  <2>3. UNCHANGED <<file, disk>>
    BY <1>1 DEF Begin
  <2> QED BY <2>1, <2>2, <2>3 DEF KS!Snapshot, Busy
<1>2. ASSUME NEW w \in Writers, Write(w) \/ Sync(w)
      PROVE  UNCHANGED <<Now(file), Now(disk), existing, fresh>>
  <2>1. UNCHANGED <<file, disk, existing>> /\ fresh' = fresh
    BY <1>2 DEF Write, Sync, Busy
  <2> QED BY <2>1
<1>3. ASSUME NEW w \in Writers, Replace(w) PROVE KS!Next
  <2>1. job[w] \in Jobs
    BY <1>3 DEF Replace, Busy
  <2>2. PICK k \in Keys, v \in Values \cup {None} : job[w].key = k /\ job[w].value = v
    BY <2>1 DEF Jobs
  <2> DEFINE m == [existing[w] EXCEPT ![k] = v]
  <2>3. w \in fresh /\ fresh' = fresh \ {w}
    BY <1>3 DEF Replace, Busy
  <2>4. file'.lines = Formatted(m) /\ file'.private = TRUE
    BY <1>3, <2>2 DEF Replace
  <2> DEFINE n == file'.lines.last
  <2>5. n \in KS!Maps /\ (v \in Plain \cup {None} => n = m)
    <3>1. existing[w] \in Data /\ m \in [Keys -> Values \cup {None}]
      BY <2>1, <2>2, Updated
    <3>2. n \in KS!Maps
      <4> HIDE DEF m
      <4> QED BY <2>4, <3>1, FormattedType DEF Lines, Data, KS!Maps
    <3>3. ASSUME v \in Plain \cup {None} PROVE n = m
      <4>1. m \in Data
        BY <3>1, <3>3 DEF Data
      <4> QED BY <2>4, <4>1, FormattedPlain
    <3> QED BY <3>2, <3>3
  <2>6. Now(file') = [map |-> n, shown |-> KS!Fits(m)]
    <3>0. file'.lines.small = KS!Fits(m)
      BY <2>4 DEF Formatted, Fits, KS!Fits
    <3>1. Readable(file') = KS!Fits(m)
      BY <2>4, <3>0 DEF Readable, KS!Fits
    <3> HIDE DEF m
    <3> QED BY <3>1
  <2>7. Now(disk') = Now(disk) /\ existing' = [existing EXCEPT ![w] = Nothing]
    BY <1>3 DEF Replace
  <2>8. KS!Commit(w, k, v)
    <3> HIDE DEF Now, fresh, n
    <3>1. \E x \in KS!Maps : /\ v \in Plain \cup {None} => x = m
                             /\ Now(file') = [map |-> x, shown |-> KS!Fits(m)]
      BY <2>5, <2>6
    <3> QED BY <2>3, <2>7, <3>1 DEF KS!Commit, KS!Drop, KS!Nothing, Nothing, Busy, Now, fresh
  <2> QED BY <2>8 DEF KS!Next
<1>4. ASSUME NEW b \in BOOLEAN, file' = [file EXCEPT !.private = b],
             UNCHANGED <<disk, existing>>, fresh' = fresh
      PROVE  KS!Next
  <2>1. PICK c \in BOOLEAN : c = Readable(file')
    BY <1>4 DEF Readable, File, Lines
  <2>2. file'.lines = file.lines
    BY <1>4 DEF File
  <2>3. Now(file') = [Now(file) EXCEPT !.shown = c]
    BY <2>1, <2>2
  <2>4. KS!Show(c)
    BY <1>4, <2>3 DEF KS!Show, Busy
  <2> QED BY <2>4 DEF KS!Next
<1>5. ASSUME NEW w \in Writers, Chmod(w) PROVE KS!Next
  <2>1. file' = [file EXCEPT !.private = TRUE] /\ UNCHANGED <<disk, existing>> /\ fresh' = fresh
    BY <1>5 DEF Chmod, Busy
  <2> QED BY <1>4, <2>1
<1>6. ASSUME NEW b \in BOOLEAN, ChangeMode(b) PROVE KS!Next
  <2>1. file' = [file EXCEPT !.private = b] /\ UNCHANGED <<disk, existing>> /\ fresh' = fresh
    BY <1>6 DEF ChangeMode, Busy
  <2> QED BY <1>4, <1>6, <2>1
<1>7. ASSUME NEW w \in Writers, Stops(w)
      PROVE  KS!GiveUp(w) \/ UNCHANGED <<Now(file), Now(disk), existing, fresh>>
  <2>1. UNCHANGED <<file, disk>> /\ existing' = [existing EXCEPT ![w] = Nothing]
    BY <1>7 DEF Stops
  <2>2. fresh' = fresh \ {w}
    BY <1>7 DEF Stops, Busy
  <2>3. CASE w \in fresh
    BY <2>1, <2>2, <2>3 DEF KS!GiveUp, KS!Drop, KS!Nothing, Nothing, Busy
  <2>4. CASE w \notin fresh
    <3>1. existing' = existing
      BY <2>1, <2>4
    <3> QED BY <2>1, <2>2, <2>4, <3>1
  <2> QED BY <2>3, <2>4
<1>8. CASE SyncDirectory
  BY <1>8 DEF SyncDirectory, KS!Settle, KS!Next, Busy
<1>9. CASE PowerCut
  <2>1. file' = disk /\ disk' = disk
    BY <1>9 DEF PowerCut
  <2>2. fresh' = {}
    BY <1>9 DEF PowerCut, Busy
  <2>3. KS!PowerCut
    BY <1>9, <2>1, <2>2 DEF PowerCut, KS!PowerCut, KS!Nothing, Nothing, Busy
  <2> QED BY <2>3 DEF KS!Next
<1>10. CASE UNCHANGED vars
  BY <1>10 DEF vars, Readable
<1>11. ASSUME NEW w \in Writers, NEW k \in Keys, NEW v \in Values \cup {None}, Begin(w, k, v)
       PROVE  KS!Next
  BY <1>1, <1>11 DEF KS!Next
<1>12. ASSUME NEW w \in Writers, Stops(w)
       PROVE  KS!Next \/ UNCHANGED <<Now(file), Now(disk), existing, fresh>>
  BY <1>7, <1>12 DEF KS!Next
<1> HIDE DEF Now, fresh
<1> QED
  BY <1>2, <1>3, <1>5, <1>6, <1>8, <1>9, <1>10, <1>11, <1>12 DEF Next

(* The file of credentials implements the store of snapshots and atomic    *)
(* commits, across failures, kills and power cuts at any step.             *)
THEOREM Refinement == Spec => Implements
<1> QED BY InitRefines, StepRefines, Invariance, PTL DEF Spec, Implements, KS!Spec
=============================================================================
