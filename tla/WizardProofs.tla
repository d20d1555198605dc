---------------------------- MODULE WizardProofs ----------------------------
(***************************************************************************)
(* Proofs about Wizard, for any number of runs, names, probes and rename   *)
(* rounds: type correctness, that a registered server finds credentials,   *)
(* that a pair is never mixed from two runs, which of the stored secrets   *)
(* the server uses, and that no run goes round for ever.                   *)
(***************************************************************************)
EXTENDS Wizard, TLAPS

(* A run is numbered while it lasts, and the stores of a password run come *)
(* in order.                                                               *)
RunInv ==
  /\ pc # "idle" => run \in Runs
  /\ pc = "probe" \/ pc = "menu" => probes > 0
  /\ pc = "collect" => probes < MaxProbes
  /\ Between => store[backend]["username"] = run

Present(s) == \E b \in Backends : store[b][s] # Absent
PairThere == Present("username") /\ Present("password")
Complete == Present("token") \/ PairThere

(* Credentials are complete before a name is registered, and stay so under *)
(* a server that is looking them up.                                       *)
FoundInv ==
  /\ pc \in {"name", "resolve", "write"} => Complete
  /\ (\E n \in Names : entries[n] \in Runs) => Complete
  /\ spc # "off" => Complete
  /\ keyringUp /\ ~flaky =>
       /\ spc = "username" => HasToken \/ PairThere
       /\ spc = "password" => HasToken \/ (got["username"] # Absent /\ PairThere)
       /\ spc = "check" => HasToken \/ HasPair

(* Each backend holds the name and the password of one run, except between *)
(* the two stores, and a server that was not disturbed saw one backend.    *)
Paired(b) == store[b]["username"] = store[b]["password"]

PairedInv == ~torn => \A b \in Backends : Paired(b) \/ (Between /\ b = backend)

ReadInv ==
  /\ Reading /\ ~raced => ~Between
  /\ ~torn /\ ~raced /\ ~flaky =>
       /\ spc = "password" => got["username"] = Resolve("username")
       /\ spc = "check" => got["username"] = got["password"]

PairInv == PairedInv /\ ReadInv

(* A backend holds of each kind the secret of the last run that stored one *)
(* in it; a name is one behind its password, see PairedInv.                *)
Stored(r, m, b) == [run |-> r, mode |-> m, backend |-> b]

Last(b, s, m) ==
  /\ store[b][s] # Absent => Stored(store[b][s], m, b) \in stored
  /\ \A q \in stored : q.mode = m /\ q.backend = b => q.run <= store[b][s]

LastInv ==
  /\ \A q \in stored : q.run <= run
  /\ pc = "store" => (todo = "token" <=> setting[run].mode = "token")
  /\ \A b \in Backends : Last(b, "token", "token") /\ Last(b, "password", "password")

(* What an undisturbed lookup has read is still what it would read.        *)
LookInv ==
  ~raced /\ ~flaky =>
    /\ spc \in {"username", "password", "check"} => got["token"] = Resolve("token")
    /\ spc \in {"password", "check"} => got["username"] = Resolve("username")

Inv == TypeOK /\ RunInv /\ FoundInv /\ PairInv

(* The values the variables of the bookkeeping can take.                   *)
LEMMA Constants ==
  /\ Absent \notin Runs
  /\ Foreign \notin Runs
  /\ \A b \in Backends : b = "keyring" \/ b = "dotfile"
  /\ MaxProbes \in Nat /\ MaxProbes > 0
  /\ MaxRenames \in Nat /\ MaxRenames > 0
  /\ MaxRuns \in Nat
  BY WizardAssumption DEF Absent, Foreign, Runs, Backends

LEMMA TypeInit == Init => TypeOK
<1> SUFFICES ASSUME Init PROVE TypeOK
  OBVIOUS
<1>1. [mode |-> "token", scheme |-> "https"] \in Settings
  BY DEF Settings
<1>2. setting \in [Runs -> Settings]
  BY <1>1 DEF Init
<1>3. store \in [Backends -> [Secrets -> Runs \cup {Absent}]] /\ got \in [Secrets -> Runs \cup {Absent}]
  BY DEF Init, NoSecrets
<1>4. /\ probes \in 0..MaxProbes /\ rounds \in 0..(MaxRenames - 1)
      /\ run \in Runs \cup {Absent} /\ entry \in Runs \cup {Absent}
  BY Constants DEF Init, Absent
<1>5. todo \in Secrets /\ backend \in Backends
  BY DEF Init, Secrets, Backends
<1>6. entries \in [Names -> Runs \cup {Absent, Foreign}]
  BY DEF Init
<1> QED BY <1>2, <1>3, <1>4, <1>5, <1>6 DEF Init, TypeOK

LEMMA InvInit == Init => Inv
<1> SUFFICES ASSUME Init PROVE RunInv /\ FoundInv /\ PairInv
  BY TypeInit DEF Inv
<1>1. RunInv
  BY DEF Init, RunInv, Between
<1>2. FoundInv
  BY Constants DEF Init, FoundInv
<1>3. PairInv
  BY DEF Init, PairInv, PairedInv, ReadInv, Paired, Between, Reading, Secrets, NoSecrets
<1> QED BY <1>1, <1>2, <1>3

LEMMA TypeStep == TypeOK /\ RunInv /\ [Next]_vars => TypeOK'
<1> SUFFICES ASSUME TypeOK, RunInv, [Next]_vars PROVE TypeOK'
  OBVIOUS
<1> USE Constants DEF TypeOK, RunInv, wizardVars, serverVars, ghostVars
<1>1. CASE StartRun
  <2>1. run' \in Runs
    BY <1>1 DEF StartRun, Runs, Absent
  <2> QED BY <1>1, <2>1 DEF StartRun
<1>2. ASSUME NEW s \in Settings, Collect(s) PROVE TypeOK'
  BY <1>2 DEF Collect
<1>3. CASE ProbeAnswers
  BY <1>3 DEF ProbeAnswers, Move
<1>4. CASE Edit
  BY <1>4 DEF Edit, Move
<1>5. CASE SaveAnyway
  BY <1>5 DEF SaveAnyway, Move
<1>6. CASE SelectBackend
  BY <1>6 DEF SelectBackend, Secrets, Backends
<1>7. CASE StoreSecret
  <2>1. run \in Runs /\ setting[run] \in Settings
    BY <1>7 DEF StoreSecret, StoreIn
  <2>2. setting[run].mode \in {"token", "password"}
    BY <2>1 DEF Settings
  <2>3. stored' \subseteq [run : Runs, mode : {"token", "password"}, backend : Backends]
    BY <1>7, <2>1, <2>2 DEF StoreSecret, StoreIn
  <2>4. todo' \in Secrets
    BY <1>7 DEF StoreSecret, StoreIn, Secrets
  <2>5. store' \in [Backends -> [Secrets -> Runs \cup {Absent}]]
    BY <1>7, <2>1 DEF StoreSecret, StoreIn
  <2>6. raced' \in BOOLEAN
    BY <1>7 DEF StoreSecret, StoreIn
  <2> QED BY <1>7, <2>3, <2>4, <2>5, <2>6 DEF StoreSecret, StoreIn
<1>8. ASSUME NEW n \in Names, AskName(n) PROVE TypeOK'
  BY <1>8 DEF AskName
<1>9. ASSUME NEW n \in Names, Rename(n) PROVE TypeOK'
  BY <1>9 DEF Rename
<1>10. CASE NameSettled
  BY <1>10 DEF NameSettled, Move
<1>11. CASE WriteEntry
  BY <1>11 DEF WriteEntry
<1>12. CASE Leave \/ StoreFails
  BY <1>12 DEF Leave, StoreFails
<1>13. CASE KeyringChanges
  BY <1>13 DEF KeyringChanges
<1>14. ASSUME NEW n \in Names, StartServer(n) PROVE TypeOK'
  <2>1. got' \in [Secrets -> Runs \cup {Absent}] /\ spc' \in Secrets
    BY <1>14 DEF StartServer, NoSecrets, Secrets
  <2>2. raced' \in BOOLEAN
    BY <1>14 DEF StartServer, Between
  <2> QED BY <1>14, <2>1, <2>2 DEF StartServer
<1>15. CASE ReadSecret
  <2>1. spc \in Secrets /\ Resolve(spc) \in Runs \cup {Absent}
    BY <1>15 DEF ReadSecret, Resolve, Backends
  <2>2. spc' \in Secrets \cup {"check"}
    BY <1>15 DEF ReadSecret, Secrets
  <2> QED BY <1>15, <2>1, <2>2 DEF ReadSecret
<1>16. CASE CheckConfig
  BY <1>16 DEF CheckConfig
<1>17. CASE StopServer
  BY <1>17 DEF StopServer
<1>18. CASE UNCHANGED vars
  BY <1>18 DEF vars
<1> QED
  BY <1>1, <1>2, <1>3, <1>4, <1>5, <1>6, <1>7, <1>8, <1>9,
     <1>10, <1>11, <1>12, <1>13, <1>14, <1>15, <1>16, <1>17, <1>18
  DEF Next, RunStep, ServerStep

LEMMA RunStepInv == TypeOK /\ RunInv /\ [Next]_vars => RunInv'
<1> SUFFICES ASSUME TypeOK, RunInv, [Next]_vars PROVE RunInv'
  OBVIOUS
<1> USE Constants DEF TypeOK, RunInv, Between, wizardVars, serverVars, ghostVars
<1>1. CASE StartRun
  <2>1. run' \in Runs
    BY <1>1 DEF StartRun, Runs, Absent
  <2> QED BY <1>1, <2>1 DEF StartRun
<1>2. ASSUME NEW s \in Settings, Collect(s) PROVE RunInv'
  BY <1>2 DEF Collect
<1>3. CASE ProbeAnswers
  BY <1>3 DEF ProbeAnswers, Move
<1>4. CASE Edit
  BY <1>4 DEF Edit, Move
<1>5. CASE SaveAnyway
  BY <1>5 DEF SaveAnyway, Move
<1>6. CASE SelectBackend
  BY <1>6 DEF SelectBackend
<1>7. CASE StoreSecret
  BY <1>7 DEF StoreSecret, StoreIn
<1>8. ASSUME NEW n \in Names, AskName(n) PROVE RunInv'
  BY <1>8 DEF AskName
<1>9. ASSUME NEW n \in Names, Rename(n) PROVE RunInv'
  BY <1>9 DEF Rename
<1>10. CASE NameSettled
  BY <1>10 DEF NameSettled, Move
<1>11. CASE WriteEntry
  BY <1>11 DEF WriteEntry
<1>12. CASE Leave \/ StoreFails
  BY <1>12 DEF Leave, StoreFails
<1>13. CASE KeyringChanges
  BY <1>13 DEF KeyringChanges
<1>14. ASSUME NEW n \in Names, StartServer(n) PROVE RunInv'
  BY <1>14 DEF StartServer
<1>15. CASE ReadSecret
  BY <1>15 DEF ReadSecret
<1>16. CASE CheckConfig
  BY <1>16 DEF CheckConfig
<1>17. CASE StopServer
  BY <1>17 DEF StopServer
<1>18. CASE UNCHANGED vars
  BY <1>18 DEF vars
<1> QED
  BY <1>1, <1>2, <1>3, <1>4, <1>5, <1>6, <1>7, <1>8, <1>9,
     <1>10, <1>11, <1>12, <1>13, <1>14, <1>15, <1>16, <1>17, <1>18
  DEF Next, RunStep, ServerStep

(* Stores only add secrets.                                                *)
LEMMA PresentStays ==
  ASSUME TypeOK, RunInv, [Next]_vars, NEW s \in Secrets, Present(s)
  PROVE  Present(s)'
<1>1. CASE StoreSecret
  <2>1. run \in Runs /\ run # Absent
    BY <1>1, Constants DEF StoreSecret, StoreIn, RunInv
  <2> QED BY <1>1, <2>1 DEF StoreSecret, StoreIn, Present, TypeOK
<1>2. CASE store' = store
  BY <1>2 DEF Present
<1>3. StoreSecret \/ store' = store
  BY DEF Next, RunStep, ServerStep, StartRun, Collect, ProbeAnswers, Edit, SaveAnyway, Move,
         SelectBackend, StoreFails, AskName, Rename, NameSettled, WriteEntry, Leave, KeyringChanges,
         StartServer, ReadSecret, CheckConfig, StopServer, vars
<1> QED BY <1>1, <1>2, <1>3

LEMMA CompleteStays ==
  ASSUME TypeOK, RunInv, [Next]_vars
  PROVE  (Complete => Complete') /\ (PairThere => PairThere')
<1> USE DEF Secrets
<1>1. Present("token") => Present("token")'
  BY PresentStays
<1>2. Present("username") => Present("username")'
  BY PresentStays
<1>3. Present("password") => Present("password")'
  BY PresentStays
<1> QED BY <1>1, <1>2, <1>3 DEF Complete, PairThere

LEMMA ResolvePresent ==
  ASSUME NEW s \in Secrets
  PROVE  keyringUp => (Present(s) <=> Resolve(s) # Absent)
  BY DEF Present, Resolve, Backends

LEMMA FoundStep == TypeOK /\ RunInv /\ FoundInv /\ [Next]_vars => FoundInv'
<1> SUFFICES ASSUME TypeOK, RunInv, FoundInv, [Next]_vars PROVE FoundInv'
  OBVIOUS
<1> USE Constants, CompleteStays DEF FoundInv, HasToken, HasPair, wizardVars, serverVars, ghostVars
<1>1. CASE StartRun
  BY <1>1 DEF StartRun
<1>2. ASSUME NEW s \in Settings, Collect(s) PROVE FoundInv'
  BY <1>2 DEF Collect
<1>3. CASE ProbeAnswers
  BY <1>3 DEF ProbeAnswers, Move
<1>4. CASE Edit
  BY <1>4 DEF Edit, Move
<1>5. CASE SaveAnyway
  BY <1>5 DEF SaveAnyway, Move
<1>6. CASE SelectBackend
  BY <1>6 DEF SelectBackend
<1>7. CASE StoreSecret
  <2>1. run \in Runs /\ run # Absent
    BY <1>7 DEF StoreSecret, StoreIn, RunInv
  <2>2. backend \in Backends /\ todo \in Secrets /\ store \in [Backends -> [Secrets -> Runs \cup {Absent}]]
    BY DEF TypeOK
  <2>3. store' = [store EXCEPT ![backend][todo] = run]
    BY <1>7 DEF StoreSecret, StoreIn
  <2>4. CASE todo = "username"
    <3>1. pc' = "store" /\ UNCHANGED <<entries, serverVars, keyringUp, flaky>>
      BY <1>7, <2>4 DEF StoreSecret, StoreIn
    <3> QED BY <3>1
  <2>5. CASE todo = "token"
    <3>1. Present("token")'
      BY <2>1, <2>2, <2>3, <2>5 DEF Present
    <3>2. Complete' /\ UNCHANGED <<entries, serverVars, keyringUp, flaky>>
      BY <1>7, <3>1 DEF Complete, StoreSecret, StoreIn
    <3> QED BY <3>2
  <2>6. CASE todo = "password"
    <3>1. store[backend]["username"] # Absent
      BY <1>7, <2>1, <2>6 DEF StoreSecret, StoreIn, RunInv, Between
    <3>2. Present("username")' /\ Present("password")'
      BY <2>1, <2>2, <2>3, <2>6, <3>1 DEF Present, Secrets
    <3>3. Complete' /\ UNCHANGED <<entries, serverVars, keyringUp, flaky>>
      BY <1>7, <3>2 DEF Complete, PairThere, StoreSecret, StoreIn
    <3> QED BY <3>3
  <2> QED BY <2>2, <2>4, <2>5, <2>6 DEF Secrets
<1>8. ASSUME NEW n \in Names, AskName(n) PROVE FoundInv'
  BY <1>8 DEF AskName
<1>9. ASSUME NEW n \in Names, Rename(n) PROVE FoundInv'
  BY <1>9 DEF Rename
<1>10. CASE NameSettled
  BY <1>10 DEF NameSettled, Move
<1>11. CASE WriteEntry
  <2>1. Complete' /\ pc' = "idle" /\ UNCHANGED <<serverVars, keyringUp, flaky>>
    BY <1>11 DEF WriteEntry
  <2> QED BY <2>1
<1>12. CASE Leave \/ StoreFails
  BY <1>12 DEF Leave, StoreFails
<1>13. CASE KeyringChanges
  <2>1. UNCHANGED <<entries, pc, spc, got>> /\ (flaky' <=> flaky \/ Reading)
    BY <1>13 DEF KeyringChanges
  <2> QED BY <2>1 DEF Reading, Secrets
<1>14. ASSUME NEW n \in Names, StartServer(n) PROVE FoundInv'
  <2>1. Complete' /\ spc' = "token" /\ UNCHANGED <<pc, entries>>
    BY <1>14 DEF StartServer
  <2> QED BY <2>1
<1>15. CASE ReadSecret
  <2>1. /\ UNCHANGED <<store, entries, pc, keyringUp, flaky>>
        /\ got' = [got EXCEPT ![spc] = Resolve(spc)]
        /\ spc \in Secrets /\ got \in [Secrets -> Runs \cup {Absent}]
        /\ Complete /\ Complete' /\ (PairThere <=> PairThere')
    BY <1>15 DEF ReadSecret, TypeOK, Secrets, Complete, PairThere, Present
  <2>2. SUFFICES ASSUME keyringUp, ~flaky
                 PROVE  /\ spc' = "username" => HasToken' \/ PairThere
                        /\ spc' = "password" =>
                             HasToken' \/ (got'["username"] # Absent /\ PairThere)
                        /\ spc' = "check" => HasToken' \/ HasPair'
    BY <2>1
  <2>3. \A s \in Secrets : Present(s) <=> Resolve(s) # Absent
    BY <2>2, ResolvePresent
  <2>4. CASE spc = "token"
    <3>1. spc' = "username" /\ got'["token"] = Resolve("token")
      BY <1>15, <2>1, <2>4 DEF ReadSecret, Secrets
    <3> QED BY <2>1, <2>3, <3>1 DEF Complete, Secrets
  <2>5. CASE spc = "username"
    <3>1. /\ spc' = "password" /\ got'["token"] = got["token"]
          /\ got'["username"] = Resolve("username")
      BY <1>15, <2>1, <2>5 DEF ReadSecret, Secrets
    <3>2. PairThere => Resolve("username") # Absent
      BY <2>3 DEF PairThere, Secrets
    <3> QED BY <2>2, <2>5, <3>1, <3>2
  <2>6. CASE spc = "password"
    <3>1. /\ spc' = "check" /\ got'["token"] = got["token"]
          /\ got'["username"] = got["username"] /\ got'["password"] = Resolve("password")
      BY <1>15, <2>1, <2>6 DEF ReadSecret, Secrets
    <3>2. PairThere => Resolve("password") # Absent
      BY <2>3 DEF PairThere, Secrets
    <3> QED BY <2>2, <2>6, <3>1, <3>2
  <2> QED BY <2>1, <2>4, <2>5, <2>6 DEF Secrets
<1>16. CASE CheckConfig
  BY <1>16 DEF CheckConfig
<1>17. CASE StopServer
  BY <1>17 DEF StopServer
<1>18. CASE UNCHANGED vars
  BY <1>18 DEF vars
<1> QED
  BY <1>1, <1>2, <1>3, <1>4, <1>5, <1>6, <1>7, <1>8, <1>9,
     <1>10, <1>11, <1>12, <1>13, <1>14, <1>15, <1>16, <1>17, <1>18
  DEF Next, RunStep, ServerStep

(* What the steps other than a store leave alone.                          *)
LEMMA WizardFrame ==
  ASSUME TypeOK, [Next]_vars
  PROVE  \/ StoreSecret \/ Leave \/ StoreFails
         \/ /\ store' = store /\ torn' = torn
            /\ UNCHANGED <<pc, todo, backend>> \/ (~Between /\ ~Between')
<1> USE DEF Between, wizardVars, serverVars, ghostVars
<1>1. CASE StartRun
  BY <1>1 DEF StartRun
<1>2. ASSUME NEW s \in Settings, Collect(s) PROVE UNCHANGED <<store, torn>> /\ ~Between /\ ~Between'
  BY <1>2 DEF Collect
<1>3. CASE ProbeAnswers
  BY <1>3 DEF ProbeAnswers, Move
<1>4. CASE Edit \/ SaveAnyway \/ NameSettled
  BY <1>4 DEF Edit, SaveAnyway, NameSettled, Move
<1>5. CASE SelectBackend
  <2>1. todo' # "password"
    BY <1>5 DEF SelectBackend
  <2> QED BY <1>5, <2>1 DEF SelectBackend
<1>6. ASSUME NEW n \in Names, AskName(n) \/ Rename(n)
      PROVE  UNCHANGED <<store, torn>> /\ ~Between /\ ~Between'
  BY <1>6 DEF AskName, Rename
<1>7. CASE WriteEntry
  BY <1>7 DEF WriteEntry
<1>8. CASE KeyringChanges \/ ServerStep \/ UNCHANGED vars
  BY <1>8 DEF KeyringChanges, ServerStep, StartServer, ReadSecret, CheckConfig, StopServer, vars
<1> QED BY <1>1, <1>2, <1>3, <1>4, <1>5, <1>6, <1>7, <1>8 DEF Next, RunStep

LEMMA PairedStep == TypeOK /\ RunInv /\ PairedInv /\ [Next]_vars => PairedInv'
<1> SUFFICES ASSUME TypeOK, RunInv, PairedInv, [Next]_vars PROVE PairedInv'
  OBVIOUS
<1>1. CASE StoreSecret
  <2>1. /\ pc = "store" /\ store' = [store EXCEPT ![backend][todo] = run]
        /\ backend' = backend /\ torn' = torn
        /\ backend \in Backends /\ todo \in Secrets
        /\ store \in [Backends -> [Secrets -> Runs \cup {Absent}]]
    BY <1>1 DEF StoreSecret, StoreIn, TypeOK
  <2>2. \A b \in Backends : b # backend /\ Paired(b) => Paired(b)'
    BY <2>1 DEF Paired, Secrets
  <2>3. CASE todo = "token"
    <3>1. ~Between /\ ( Paired(backend) => Paired(backend)')
      BY <2>1, <2>3 DEF Paired, Between, Secrets
    <3> QED BY <2>1, <2>2, <3>1 DEF PairedInv
  <2>4. CASE todo = "username"
    <3>1. ~Between /\ Between'
      BY <1>1, <2>4 DEF StoreSecret, StoreIn, Between
    <3> QED BY <2>1, <2>2, <3>1 DEF PairedInv
  <2>5. CASE todo = "password"
    <3>1. Paired(backend)'
      BY <2>1, <2>5 DEF Paired, RunInv, Between, Secrets
    <3> QED BY <2>1, <2>2, <3>1 DEF PairedInv
  <2> QED BY <2>1, <2>3, <2>4, <2>5 DEF Secrets
<1>2. CASE Leave \/ StoreFails
  <2>1. store' = store /\ (torn' <=> torn \/ Between)
    BY <1>2 DEF Leave, StoreFails
  <2> QED BY <2>1 DEF PairedInv, Paired
<1>3. CASE store' = store /\ torn' = torn
           /\ (UNCHANGED <<pc, todo, backend>> \/ (~Between /\ ~Between'))
  BY <1>3 DEF PairedInv, Paired, Between
<1> QED BY <1>1, <1>2, <1>3, WizardFrame

LEMMA ReadStep == TypeOK /\ PairedInv /\ ReadInv /\ [Next]_vars => ReadInv'
<1> SUFFICES ASSUME TypeOK, PairedInv, ReadInv, [Next]_vars PROVE ReadInv'
  OBVIOUS
<1>1. CASE StoreSecret
  <2>1. UNCHANGED serverVars /\ (raced' <=> raced \/ Reading)
    BY <1>1 DEF StoreSecret, StoreIn
  <2> QED BY <2>1 DEF ReadInv, Reading, serverVars, Secrets
<1>2. CASE Leave \/ StoreFails
  <2>1. UNCHANGED <<serverVars, store, raced, keyringUp, flaky>> /\ ~Between' /\ (torn => torn')
    BY <1>2 DEF Leave, StoreFails, Between
  <2> QED BY <2>1 DEF ReadInv, Reading, Resolve, serverVars
<1>3. ASSUME NEW n \in Names, StartServer(n) PROVE ReadInv'
  <2>1. spc' = "token" /\ (raced' <=> Between) /\ UNCHANGED <<pc, todo>>
    BY <1>3 DEF StartServer, Between, wizardVars
  <2> QED BY <2>1 DEF ReadInv, Between
<1>4. CASE ReadSecret
  <2>1. /\ UNCHANGED <<store, pc, todo, torn, raced, keyringUp, flaky>>
        /\ got' = [got EXCEPT ![spc] = Resolve(spc)]
        /\ spc \in Secrets /\ got \in [Secrets -> Runs \cup {Absent}]
        /\ (Between' <=> Between)
    BY <1>4 DEF ReadSecret, TypeOK, wizardVars, ghostVars, Between
  <2>2. Reading /\ (Reading' /\ ~raced' => ~Between')
    BY <2>1 DEF ReadInv, Reading
  <2>3. CASE spc = "token"
    <3>1. spc' = "username"
      BY <1>4, <2>3 DEF ReadSecret
    <3> QED BY <2>2, <3>1 DEF ReadInv
  <2>4. CASE spc = "username"
    <3>1. spc' = "password"
      BY <1>4, <2>4 DEF ReadSecret
    <3>2. got'["username"] = Resolve("username")'
      BY <2>1, <2>4 DEF Resolve, Secrets
    <3> QED BY <2>2, <3>1, <3>2 DEF ReadInv
  <2>5. CASE spc = "password"
    <3>1. spc' = "check"
      BY <1>4, <2>5 DEF ReadSecret
    <3>2. got'["username"] = got["username"] /\ got'["password"] = Resolve("password")
      BY <2>1, <2>5 DEF Secrets
    <3>3. ~torn /\ ~raced => Paired("keyring") /\ Paired("dotfile")
      BY <2>2 DEF PairedInv, ReadInv, Backends
    <3>4. ~torn /\ ~raced => Resolve("username") = Resolve("password")
      BY <3>3 DEF Paired, Resolve
    <3>5. ~torn /\ ~raced /\ ~flaky => got["username"] = Resolve("username")
      BY <2>5 DEF ReadInv
    <3>6. ~torn' /\ ~raced' /\ ~flaky' => got'["username"] = got'["password"]
      BY <2>1, <3>2, <3>4, <3>5
    <3> QED BY <2>2, <3>1, <3>6 DEF ReadInv
  <2> QED BY <2>1, <2>3, <2>4, <2>5 DEF Secrets
<1>5. CASE CheckConfig \/ StopServer
  <2>1. spc' \in {"missing", "plaintext", "up", "off"}
    BY <1>5 DEF CheckConfig, StopServer
  <2> QED BY <2>1 DEF ReadInv, Reading, Secrets
<1>6. CASE UNCHANGED <<serverVars, raced, keyringUp, flaky>>
           /\ store' = store /\ torn' = torn
           /\ (UNCHANGED <<pc, todo, backend>> \/ (~Between /\ ~Between'))
  <2>1. Between' => Between
    BY <1>6 DEF Between
  <2> QED BY <1>6, <2>1 DEF ReadInv, Reading, Resolve, serverVars
<1>7. CASE KeyringChanges
  <2>1. /\ UNCHANGED <<serverVars, pc, todo, torn, raced>>
        /\ (flaky' <=> flaky \/ Reading)
    BY <1>7 DEF KeyringChanges, wizardVars
  <2> QED BY <2>1 DEF ReadInv, Reading, Between, Secrets, serverVars
<1>8. \/ StoreSecret \/ Leave \/ StoreFails \/ KeyringChanges \/ ServerStep
      \/ UNCHANGED <<serverVars, raced, keyringUp, flaky>>
  BY DEF Next, RunStep, StartRun, Collect, ProbeAnswers, Edit, SaveAnyway, Move,
         SelectBackend, AskName, Rename, NameSettled, WriteEntry,
         vars, ghostVars
<1> QED BY <1>1, <1>2, <1>3, <1>4, <1>5, <1>6, <1>7, <1>8, WizardFrame DEF ServerStep

LEMMA LastStep == TypeOK /\ RunInv /\ LastInv /\ [Next]_vars => LastInv'
<1> SUFFICES ASSUME TypeOK, RunInv, LastInv, [Next]_vars PROVE LastInv'
  OBVIOUS
<1>1. CASE StoreSecret
  <2>1. /\ pc = "store" /\ run \in Runs /\ run \in Nat /\ run # Absent
        /\ setting \in [Runs -> Settings] /\ setting[run].mode \in {"token", "password"}
        /\ backend \in Backends /\ todo \in Secrets
        /\ store \in [Backends -> [Secrets -> Runs \cup {Absent}]]
        /\ stored \subseteq [run : Runs, mode : {"token", "password"}, backend : Backends]
    BY <1>1, Constants DEF StoreSecret, StoreIn, TypeOK, RunInv, Settings, Runs
  <2>2. /\ store' = [store EXCEPT ![backend][todo] = run]
        /\ UNCHANGED <<run, setting, backend>>
        /\ todo # "username" => pc' = "name"
        /\ todo = "username" => stored' = stored /\ todo' = "password"
        /\ todo # "username" =>
             stored' = stored \cup {Stored(run, setting[run].mode, backend)}
    BY <1>1 DEF StoreSecret, StoreIn, Stored
  <2>3. todo = "token" <=> setting[run].mode = "token"
    BY <2>1 DEF LastInv
  <2>4. /\ Stored(run, setting[run].mode, backend).run = run
        /\ Stored(run, setting[run].mode, backend).mode = setting[run].mode
        /\ Stored(run, setting[run].mode, backend).backend = backend
    BY DEF Stored
  <2>5. \A q \in stored' : q.run <= run'
    BY <2>1, <2>2, <2>4 DEF LastInv
  <2>6. pc' = "store" => (todo' = "token" <=> setting'[run'].mode = "token")
    BY <2>2, <2>3, <1>1 DEF StoreSecret, StoreIn
  <2>7. ASSUME NEW b \in Backends, NEW s \in {"token", "password"} PROVE Last(b, s, s)'
    <3>1. Last(b, s, s)
      BY <2>7 DEF LastInv
    <3>2. CASE b = backend /\ s = todo
      <4>1. store'[b][s] = run /\ setting[run].mode = s
        BY <2>1, <2>2, <2>3, <2>7, <3>2
      <4>2. Stored(run, s, b) \in stored'
        BY <2>2, <2>7, <3>2, <4>1
      <4> QED BY <2>2, <2>5, <4>1, <4>2 DEF Last
    <3>3. CASE ~(b = backend /\ s = todo)
      <4>1. store'[b][s] = store[b][s]
        BY <2>1, <2>2, <2>7, <3>3 DEF Secrets
      <4>2. stored \subseteq stored'
        BY <2>2
      <4>3. \A q \in stored' : q.mode = s /\ q.backend = b => q \in stored
        BY <2>1, <2>2, <2>3, <2>4, <2>7, <3>3 DEF Secrets
      <4> QED BY <3>1, <4>1, <4>2, <4>3 DEF Last
    <3> QED BY <3>2, <3>3
  <2> QED BY <2>5, <2>6, <2>7 DEF LastInv
<1>2. ASSUME UNCHANGED <<store, stored>>, \A q \in stored : q.run <= run',
             pc' = "store" => (todo' = "token" <=> setting'[run'].mode = "token")
      PROVE  LastInv'
  BY <1>2 DEF LastInv, Last
<1>3. CASE StartRun
  <2>1. \A q \in stored : q.run \in Nat
    BY DEF TypeOK, Runs
  <2>2. run \in Nat /\ run' = run + 1 /\ pc' = "collect" /\ UNCHANGED <<store, stored>>
    BY <1>3 DEF StartRun, TypeOK, Runs, Absent, ghostVars
  <2> QED BY <1>2, <2>1, <2>2 DEF LastInv
<1>4. CASE SelectBackend
  <2>1. /\ UNCHANGED <<store, stored, run, setting>>
        /\ todo' = IF setting[run].mode = "token" THEN "token" ELSE "username"
    BY <1>4 DEF SelectBackend, ghostVars
  <2> QED BY <1>2, <2>1 DEF LastInv
<1>5. ASSUME UNCHANGED <<store, stored, run>>,
             pc' # "store" \/ UNCHANGED <<pc, todo, setting>>
      PROVE  LastInv'
  BY <1>2, <1>5 DEF LastInv
<1>6. ASSUME NEW s \in Settings, Collect(s) PROVE LastInv'
  BY <1>5, <1>6 DEF Collect, ghostVars
<1>7. CASE ProbeAnswers \/ Edit \/ SaveAnyway \/ NameSettled
  BY <1>5, <1>7 DEF ProbeAnswers, Edit, SaveAnyway, NameSettled, Move, ghostVars
<1>8. ASSUME NEW n \in Names, AskName(n) \/ Rename(n) PROVE LastInv'
  BY <1>5, <1>8 DEF AskName, Rename, ghostVars
<1>9. CASE WriteEntry \/ Leave \/ StoreFails
  BY <1>5, <1>9 DEF WriteEntry, Leave, StoreFails, ghostVars
<1>10. CASE KeyringChanges \/ ServerStep \/ UNCHANGED vars
  BY <1>5, <1>10 DEF KeyringChanges, ServerStep, StartServer, ReadSecret, CheckConfig,
                     StopServer, wizardVars, ghostVars, vars
<1> QED BY <1>1, <1>3, <1>4, <1>6, <1>7, <1>8, <1>9, <1>10 DEF Next, RunStep

LEMMA LookStep == TypeOK /\ LookInv /\ [Next]_vars => LookInv'
<1> SUFFICES ASSUME TypeOK, LookInv, [Next]_vars PROVE LookInv'
  OBVIOUS
<1>1. CASE StoreSecret
  <2>1. UNCHANGED serverVars /\ (raced' <=> raced \/ Reading)
    BY <1>1 DEF StoreSecret, StoreIn
  <2> QED BY <2>1 DEF LookInv, Reading, serverVars, Secrets
<1>2. CASE KeyringChanges
  <2>1. UNCHANGED <<serverVars, raced>> /\ (flaky' <=> flaky \/ Reading)
    BY <1>2 DEF KeyringChanges, ghostVars
  <2> QED BY <2>1 DEF LookInv, Reading, Secrets, serverVars
<1>3. ASSUME NEW n \in Names, StartServer(n) PROVE LookInv'
  BY <1>3 DEF StartServer, LookInv
<1>4. CASE ReadSecret
  <2>1. /\ UNCHANGED <<store, raced, keyringUp, flaky>>
        /\ got' = [got EXCEPT ![spc] = Resolve(spc)]
        /\ spc \in Secrets /\ got \in [Secrets -> Runs \cup {Absent}]
    BY <1>4 DEF ReadSecret, TypeOK, ghostVars
  <2>2. \A s \in Secrets : Resolve(s)' = Resolve(s)
    BY <2>1 DEF Resolve
  <2>3. CASE spc = "token"
    <3>1. spc' = "username" /\ got'["token"] = Resolve("token")
      BY <1>4, <2>1, <2>3 DEF ReadSecret, Secrets
    <3> QED BY <2>2, <3>1 DEF LookInv, Secrets
  <2>4. CASE spc = "username"
    <3>1. /\ spc' = "password" /\ got'["token"] = got["token"]
          /\ got'["username"] = Resolve("username")
      BY <1>4, <2>1, <2>4 DEF ReadSecret, Secrets
    <3> QED BY <2>1, <2>2, <2>4, <3>1 DEF LookInv, Secrets
  <2>5. CASE spc = "password"
    <3>1. /\ spc' = "check" /\ got'["token"] = got["token"]
          /\ got'["username"] = got["username"]
      BY <1>4, <2>1, <2>5 DEF ReadSecret, Secrets
    <3> QED BY <2>1, <2>2, <2>5, <3>1 DEF LookInv, Secrets
  <2> QED BY <2>1, <2>3, <2>4, <2>5 DEF Secrets
<1>5. CASE CheckConfig \/ StopServer
  <2>1. spc' \in {"missing", "plaintext", "up", "off"}
    BY <1>5 DEF CheckConfig, StopServer
  <2> QED BY <2>1 DEF LookInv
<1>6. CASE UNCHANGED <<serverVars, raced, keyringUp, flaky, store>>
  BY <1>6 DEF LookInv, Resolve, serverVars
<1>7. \/ StoreSecret \/ KeyringChanges \/ ServerStep
      \/ UNCHANGED <<serverVars, raced, keyringUp, flaky, store>>
  BY DEF Next, RunStep, StartRun, Collect, ProbeAnswers, Edit, SaveAnyway, Move, StoreFails,
         SelectBackend, AskName, Rename, NameSettled, WriteEntry, Leave, vars, ghostVars
<1> QED BY <1>1, <1>2, <1>3, <1>4, <1>5, <1>6, <1>7 DEF ServerStep

LEMMA Invariance == Spec => []Inv
<1>1. Init => Inv
  BY TypeInit, InvInit DEF Inv
<1>2. Inv /\ [Next]_vars => Inv'
  BY TypeStep, RunStepInv, FoundStep, PairedStep, ReadStep DEF Inv, PairInv
<1> QED BY <1>1, <1>2, PTL DEF Spec

(* The variables keep their types: a wizard run has at most MaxProbes      *)
(* attempts and MaxRenames rounds, whatever the user answers.              *)
THEOREM TypeCorrect == Spec => []TypeOK
<1>1. Inv => TypeOK
  BY DEF Inv
<1> QED BY <1>1, Invariance, PTL

(* A server the wizard registered finds a token or a name and a password   *)
(* if the keyring answers it, after any number of runs, cut anywhere:      *)
(* _run_credstore comes before the writer, and no store removes a secret.  *)
THEOREM CredentialsFoundCorrect == Spec => []CredentialsFound
<1>1. Inv => CredentialsFound
  BY DEF Inv, FoundInv, CredentialsFound
<1> QED BY <1>1, Invariance, PTL

(* A pair the server authenticates with comes from one run, unless a run   *)
(* was cut between its stores, or stored or lost the keyring during the    *)
(* lookup.                                                                 *)
THEOREM PairConsistentCorrect == Spec => []PairConsistent
<1>1. Inv => PairConsistent
  BY DEF Inv, PairInv, ReadInv, PairConsistent, Undisturbed
<1> QED BY <1>1, Invariance, PTL

(* A lookup finds the secret that ranks first of its kind, if a run stored *)
(* one where it can be read.                                               *)
LEMMA ResolveFirst ==
  ASSUME TypeOK, NEW s \in Secrets, NEW m \in {"token", "password"},
         \A b \in Backends : Last(b, s, m)
  PROVE  /\ \A q \in Readable : q.mode = m => Resolve(s) # Absent
         /\ Resolve(s) # Absent =>
              \E r \in Readable : /\ r.mode = m /\ r.run = Resolve(s)
                                  /\ \A q \in Readable : q.mode = m => Yields(q, r)
<1>1. /\ store \in [Backends -> [Secrets -> Runs \cup {Absent}]]
      /\ \A q \in Readable : q.run \in Nat \ {0} /\ q.backend \in Backends /\ Works(q.backend)
      /\ "keyring" \in Backends /\ "dotfile" \in Backends
  BY DEF TypeOK, Runs, Backends, Readable
<1>2. \A b \in Backends : store[b][s] \in Nat
  BY <1>1 DEF Runs, Absent
<1>3. ASSUME NEW q \in Readable, q.mode = m
      PROVE  q.run <= store[q.backend][s] /\ store[q.backend][s] # Absent
  <2>1. q.run <= store[q.backend][s]
    BY <1>1, <1>3 DEF Last, Readable
  <2> QED BY <1>1, <1>2, <2>1 DEF Absent
<1>4. ASSUME NEW q \in Readable, q.mode = m PROVE Resolve(s) # Absent
  BY <1>1, <1>3, <1>4 DEF Resolve, Works, Backends
<1>5. ASSUME NEW b \in Backends, Works(b), store[b][s] # Absent, Resolve(s) = store[b][s],
             b = "dotfile" => ~(keyringUp /\ store["keyring"][s] # Absent)
      PROVE  \E r \in Readable : /\ r.mode = m /\ r.run = Resolve(s)
                                 /\ \A q \in Readable : q.mode = m => Yields(q, r)
  <2> DEFINE r == Stored(store[b][s], m, b)
  <2>1. r.run = store[b][s] /\ r.mode = m /\ r.backend = b
    BY DEF Stored
  <2>2. r \in Readable
    BY <1>5, <2>1 DEF Last, Readable
  <2> HIDE DEF r
  <2>3. ASSUME NEW q \in Readable, q.mode = m PROVE Yields(q, r)
    <3>1. CASE q.backend = b
      BY <1>3, <2>1, <2>3, <3>1 DEF Yields, Rank
    <3>2. CASE q.backend # b
      <4>1. b = "keyring" /\ q.backend = "dotfile"
        BY <1>1, <1>3, <1>5, <2>3, <3>2 DEF Backends, Works
      <4> QED BY <2>1, <2>3, <4>1 DEF Yields, Rank
    <3> QED BY <3>1, <3>2
  <2> QED BY <1>5, <2>1, <2>2, <2>3
<1>6. Resolve(s) # Absent =>
        \E b \in Backends : /\ Works(b) /\ store[b][s] # Absent /\ Resolve(s) = store[b][s]
                            /\ b = "dotfile" => ~(keyringUp /\ store["keyring"][s] # Absent)
  BY <1>1 DEF Resolve, Works
<1> QED BY <1>4, <1>5, <1>6

(* No two runs of which each yields to the other.                          *)
LEMMA PreferredOnce ==
  ASSUME TypeOK, NEW q \in Preferred, NEW r \in Preferred
  PROVE  q.run = r.run
<1>1. q.run \in Nat /\ r.run \in Nat /\ Rank(q) \in Nat /\ Rank(r) \in Nat
  BY DEF TypeOK, Preferred, Readable, Rank, Runs
<1>2. Yields(q, r) /\ Yields(r, q)
  BY DEF Preferred
<1> QED BY <1>1, <1>2 DEF Yields

(* Rotation takes effect exactly as far as the order of the lookup lets    *)
(* it, for any number of runs of any kind, wherever each one stored: a     *)
(* server that is started next uses the secrets of the run that ranks      *)
(* first and of no other (_run_credstore, _resolve_secret, auth_mode).     *)
THEOREM LookupOrderCorrect == Spec => []LookupOrder
<1>1. Init => LastInv /\ LookInv
  BY DEF Init, LastInv, LookInv, Last, NoSecrets, Secrets
<1>2. Inv /\ LastInv /\ LookInv => LookupOrder
  <2> SUFFICES ASSUME Inv, LastInv, LookInv, Undisturbed, NEW n \in Runs
               PROVE  Used = n <=> \E r \in Preferred : r.run = n
    BY DEF LookupOrder
  <2>1. /\ TypeOK /\ ~Between
        /\ got["token"] = Resolve("token") /\ got["username"] = Resolve("username")
    BY DEF Inv, PairInv, ReadInv, LookInv, Undisturbed, Reading
  <2>2. \A b \in Backends : Last(b, "token", "token") /\ Last(b, "username", "password")
    <3>1. \A b \in Backends : store[b]["username"] = store[b]["password"]
      BY <2>1 DEF Inv, PairInv, PairedInv, Paired, Undisturbed
    <3> QED BY <3>1 DEF LastInv, Last
  <2>3. \A q \in Readable : q.mode \in {"token", "password"}
    BY <2>1 DEF TypeOK, Readable
  <2>4. /\ \A q \in Readable : Used # Absent
        /\ Used # Absent => \E r \in Preferred : r.run = Used
    <3>1. CASE Resolve("token") # Absent
      <4>1. PICK r \in Readable : /\ r.mode = "token" /\ r.run = Resolve("token")
                                  /\ \A q \in Readable : q.mode = "token" => Yields(q, r)
        BY <2>1, <2>2, <3>1, ResolveFirst DEF Secrets
      <4>2. \A q \in Readable : q.mode = "password" => Yields(q, r)
        BY <4>1 DEF Yields, Rank
      <4> QED BY <2>1, <2>3, <3>1, <4>1, <4>2 DEF Used, HasToken, Preferred
    <3>2. CASE Resolve("token") = Absent
      <4>1. \A q \in Readable : q.mode = "password"
        BY <2>1, <2>2, <2>3, <3>2, ResolveFirst DEF Secrets
      <4>2. Used = Resolve("username")
        BY <2>1, <3>2 DEF Used, HasToken
      <4>3. /\ \A q \in Readable : Resolve("username") # Absent
            /\ Resolve("username") # Absent =>
                 \E r \in Readable : /\ r.run = Resolve("username")
                                     /\ \A q \in Readable : Yields(q, r)
        BY <2>1, <2>2, <4>1, ResolveFirst DEF Secrets
      <4> QED BY <4>2, <4>3 DEF Preferred
    <3> QED BY <3>1, <3>2
  <2>5. n # Absent
    BY Constants
  <2> QED BY <2>1, <2>4, <2>5, PreferredOnce DEF Preferred
<1>3. Inv /\ LastInv /\ LookInv /\ [Next]_vars => LastInv' /\ LookInv'
  BY LastStep, LookStep DEF Inv
<1> QED BY <1>1, <1>2, <1>3, Invariance, PTL DEF Spec

(* A run that has come to its name has stored all its secrets, and so has  *)
(* every run that registered one.                                          *)
StoredBy(r) == \E q \in stored : q.run = r

RegisteredInv ==
  /\ pc \in {"name", "resolve", "write"} => StoredBy(run)
  /\ \A n \in Names : entries[n] \in Runs => StoredBy(entries[n])
  /\ spc # "off" => StoredBy(entry)

OwnCredentials ==
  /\ \A n \in Names : entries[n] \in Runs => StoredBy(entries[n])
  /\ Undisturbed /\ keyringUp /\ Used # entry =>
       \E r \in Readable \ Preferred : r.run = entry

LEMMA RegisteredStep == TypeOK /\ RegisteredInv /\ [Next]_vars => RegisteredInv'
<1> SUFFICES ASSUME TypeOK, RegisteredInv, [Next]_vars PROVE RegisteredInv'
  OBVIOUS
<1> USE DEF RegisteredInv
<1>1. CASE StoreSecret
  <2>1. /\ UNCHANGED <<run, entries, spc, entry>> /\ stored \subseteq stored'
        /\ pc' = "store" \/ Stored(run, setting[run].mode, backend) \in stored'
        /\ pc' \in {"store", "name"}
    BY <1>1 DEF StoreSecret, StoreIn, serverVars, Stored
  <2>2. Stored(run, setting[run].mode, backend).run = run
    BY DEF Stored
  <2> QED BY <2>1, <2>2 DEF StoredBy
<1>2. ASSUME UNCHANGED <<stored, run, entries, spc, entry>>,
             pc' \in {"name", "resolve", "write"} => pc \in {"name", "resolve", "write"}
      PROVE  RegisteredInv'
  BY <1>2 DEF StoredBy
<1>3. CASE StartRun
  <2>1. pc' = "collect" /\ UNCHANGED <<stored, entries, spc, entry>>
    BY <1>3 DEF StartRun, ghostVars, serverVars
  <2> QED BY <2>1 DEF StoredBy
<1>4. CASE SelectBackend \/ StoreFails \/ Leave \/ ProbeAnswers \/ Edit \/ SaveAnyway \/ NameSettled
  BY <1>2, <1>4 DEF SelectBackend, StoreFails, Leave, ProbeAnswers, Edit, SaveAnyway, NameSettled,
                    Move, ghostVars, serverVars
<1>5. ASSUME NEW s \in Settings, Collect(s) PROVE RegisteredInv'
  BY <1>2, <1>5 DEF Collect, ghostVars, serverVars
<1>6. ASSUME NEW n \in Names, AskName(n) \/ Rename(n) PROVE RegisteredInv'
  BY <1>2, <1>6 DEF AskName, Rename, ghostVars, serverVars
<1>7. CASE WriteEntry
  <2>1. /\ pc = "write" /\ pc' = "idle" /\ UNCHANGED <<stored, spc, entry>>
        /\ entries' = [entries EXCEPT ![name] = run]
    BY <1>7 DEF WriteEntry, ghostVars, serverVars
  <2> QED BY <2>1 DEF StoredBy, TypeOK
<1>8. CASE KeyringChanges \/ ReadSecret \/ CheckConfig \/ StopServer \/ UNCHANGED vars
  <2>1. /\ UNCHANGED <<stored, run, entries, entry, pc>> /\ (spc' # "off" => spc # "off")
    BY <1>8 DEF KeyringChanges, ReadSecret, CheckConfig, StopServer, vars, wizardVars, ghostVars,
                serverVars, Secrets
  <2> QED BY <2>1 DEF StoredBy
<1>9. ASSUME NEW n \in Names, StartServer(n) PROVE RegisteredInv'
  <2>1. UNCHANGED <<stored, run, entries, pc>> /\ entries[n] \in Runs /\ entry' = entries[n]
    BY <1>9 DEF StartServer, wizardVars
  <2> QED BY <2>1 DEF StoredBy
<1> QED
  BY <1>1, <1>3, <1>4, <1>5, <1>6, <1>7, <1>8, <1>9 DEF Next, RunStep, ServerStep

(* No server runs for a run of the wizard that did not store its secrets,  *)
(* however it came past the probe, quit a menu or was cut: with            *)
(* LookupOrder, a server uses other credentials than those of the run that *)
(* registered it only where those were stored and rank behind others (main *)
(* stores before it registers).                                            *)
THEOREM RegisteredStored == Spec => []OwnCredentials
<1>1. Init => RegisteredInv
  BY Constants DEF Init, RegisteredInv
<1>2. TypeOK /\ RegisteredInv /\ LookupOrder => OwnCredentials
  <2> SUFFICES ASSUME TypeOK, RegisteredInv, LookupOrder, Undisturbed, keyringUp, Used # entry
               PROVE  \E r \in Readable \ Preferred : r.run = entry
    BY DEF OwnCredentials, RegisteredInv
  <2>1. PICK r \in stored : r.run = entry
    BY DEF RegisteredInv, StoredBy, Undisturbed
  <2>2. r \in Readable /\ entry \in Runs
    BY <2>1 DEF Readable, Works, TypeOK
  <2>3. r \notin Preferred
    BY <2>1, <2>2 DEF LookupOrder
  <2> QED BY <2>1, <2>2, <2>3
<1>3. TypeOK /\ RegisteredInv /\ [Next]_vars => RegisteredInv'
  BY RegisteredStep
<1> QED BY <1>1, <1>2, <1>3, TypeCorrect, LookupOrderCorrect, PTL DEF Spec

LEMMA StepsLeftNat ==
  ASSUME TypeOK
  PROVE  /\ StepsLeft \in Nat
         /\ pc # "idle" => StepsLeft > 0
<1> USE Constants DEF TypeOK
<1>1. 3 * (MaxProbes - probes) \in Nat /\ 1 + MaxRenames - rounds \in Nat
      /\ 1 + MaxRenames - rounds > 0
  OBVIOUS
<1> QED BY <1>1 DEF StepsLeft

(* What moves the run under way is a step of its own.                      *)
LEMMA Descent ==
  ASSUME TypeOK, RunInv, [Next]_vars, pc # "idle"
  PROVE  UNCHANGED wizardVars \/ StepsLeft' < StepsLeft
<1> USE Constants DEF TypeOK, RunInv, StepsLeft
<1> DEFINE Goal == UNCHANGED wizardVars \/ StepsLeft' < StepsLeft
<1>1. CASE StartRun
  BY <1>1 DEF StartRun
<1>2. ASSUME NEW s \in Settings, Collect(s) PROVE Goal
  BY <1>2 DEF Collect
<1>3. CASE ProbeAnswers
  BY <1>3 DEF ProbeAnswers, Move
<1>4. CASE Edit
  BY <1>4 DEF Edit, Move
<1>5. CASE SaveAnyway
  BY <1>5 DEF SaveAnyway, Move
<1>6. CASE SelectBackend
  BY <1>6 DEF SelectBackend
<1>7. CASE StoreSecret
  BY <1>7 DEF StoreSecret, StoreIn
<1>8. ASSUME NEW n \in Names, AskName(n) PROVE Goal
  BY <1>8 DEF AskName
<1>9. ASSUME NEW n \in Names, Rename(n) PROVE Goal
  BY <1>9 DEF Rename
<1>10. CASE NameSettled
  BY <1>10 DEF NameSettled, Move
<1>11. CASE WriteEntry
  BY <1>11 DEF WriteEntry
<1>12. CASE Leave \/ StoreFails
  <2>1. StepsLeft > 0 /\ StepsLeft' = 0
    BY <1>12, StepsLeftNat DEF Leave, StoreFails
  <2> QED BY <2>1
<1>13. CASE KeyringChanges \/ ServerStep \/ UNCHANGED vars
  BY <1>13 DEF KeyringChanges, ServerStep, StartServer, ReadSecret, CheckConfig, StopServer, vars
<1> QED
  BY <1>1, <1>2, <1>3, <1>4, <1>5, <1>6, <1>7, <1>8, <1>9, <1>10, <1>11, <1>12, <1>13
  DEF Next, RunStep

(* A run of the wizard ends after at most StepsLeft steps of its own, for  *)
(* any number of probes and rename rounds (main, _resolve_server_name):    *)
(* the measure is a natural, every step of the run lowers it, and neither  *)
(* the server nor the keyring raises it.                                   *)
THEOREM RunDescendsCorrect == Spec => RunDescends /\ [](StepsLeft \in Nat)
<1>1. Inv /\ [Next]_vars => [pc # "idle" => UNCHANGED wizardVars \/ StepsLeft' < StepsLeft]_vars
  BY Descent DEF Inv
<1>2. Inv => StepsLeft \in Nat
  BY StepsLeftNat DEF Inv
<1> QED BY <1>1, <1>2, Invariance, PTL DEF Spec, RunDescends
=============================================================================
