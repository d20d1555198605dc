----------------------------- MODULE SplunkAuth -----------------------------
(***************************************************************************)
(* spl_bridge/auth.py: the process-global session cache of password mode,  *)
(* guarded by one lock that is held across the login POST, and the login   *)
(* itself, which forgets the password once it has succeeded.  Callers are  *)
(* the threads of the server or the successive probes of the setup wizard; *)
(* each uses a configuration object of its process.                        *)
(***************************************************************************)
EXTENDS Naturals, FiniteSets

CONSTANTS
  Calls,         \* API calls made in the process, each by a thread of its own
  Configs,       \* SplunkMCPConfig objects
  ConfigOf,      \* ConfigOf[c]: the configuration of call c
  UserOf,        \* UserOf[f]: config.username
  TokenConfigs,  \* configurations with a splunk_token
  Correct,       \* configurations whose password Splunk accepts
  Keys,          \* session keys Splunk can issue
  Token,         \* the header value of token mode
  None

ASSUME AuthAssumption ==
  /\ ConfigOf \in [Calls -> Configs]
  /\ DOMAIN UserOf = Configs
  /\ TokenConfigs \subseteq Configs
  /\ Correct \subseteq Configs
  /\ Token \notin Keys
  /\ None \notin Calls \cup Configs \cup Keys \cup {Token} \cup {UserOf[f] : f \in Configs}

Users == {UserOf[f] : f \in Configs}

VARIABLES
  sessionKey,    \* _session_state["session_key"]
  sessionUser,   \* _session_state["username"]
  sessionLock,   \* holder of _session_lock
  hasPassword,   \* configurations that still hold their password
  issuer,        \* history: issuer[k]: the configuration key k was issued to
  live           \* Splunk's side: credentials it accepts now

session  == <<sessionKey, sessionUser>>
authVars == <<session, sessionLock, hasPassword, issuer, live>>

AuthTypeOK ==
  /\ sessionKey \in Keys \cup {None}
  /\ sessionUser \in Users \cup {None}
  /\ sessionLock \in Calls \cup {None}
  /\ hasPassword \subseteq Configs
  /\ issuer \in [Keys -> Configs \cup {None}]
  /\ live \subseteq Keys \cup {Token}

AuthInit ==
  /\ sessionKey = None
  /\ sessionUser = None
  /\ sessionLock = None
  /\ hasPassword = Configs \ TokenConfigs
  /\ issuer = [k \in Keys |-> None]
  /\ live = {Token}

(* config.auth_mode is computed on every read, from the password the login *)
(* may have cleared meanwhile.                                             *)
AuthMode(f) ==
  IF f \in TokenConfigs THEN "token"
  ELSE IF f \in hasPassword THEN "password"
  ELSE "none"

(* Mutants: the lock is taken without waiting; the name behind the cached   *)
(* key is not compared.                                                    *)
EnterSessionUnlocked(c) ==
  /\ sessionLock' = c
  /\ sessionUser' = UserOf[ConfigOf[c]]
  /\ sessionKey' = IF sessionUser # UserOf[ConfigOf[c]] THEN None ELSE sessionKey
  /\ UNCHANGED <<hasPassword, issuer, live>>

EnterSessionAnyUser(c) ==
  /\ sessionLock = None
  /\ sessionLock' = c
  /\ sessionUser' = UserOf[ConfigOf[c]]
  /\ UNCHANGED <<sessionKey, hasPassword, issuer, live>>

(* get_auth_header takes the lock and drops a key cached for another name. *)
EnterSession(c) ==
  LET user == UserOf[ConfigOf[c]] IN
  /\ sessionLock = None
  /\ sessionLock' = c
  /\ sessionUser' = user
  /\ sessionKey' = IF sessionUser # user THEN None ELSE sessionKey
  /\ UNCHANGED <<hasPassword, issuer, live>>

(* A cached key is used as it is.                                          *)
UseCached(c) ==
  /\ sessionLock = c
  /\ sessionKey # None
  /\ sessionLock' = None
  /\ UNCHANGED <<session, hasPassword, issuer, live>>

(* Mutant: the password is not zeroised.                                   *)
LoginOkKeepsPassword(c, k) ==
  /\ sessionLock = c
  /\ sessionKey = None
  /\ ConfigOf[c] \in hasPassword \cap Correct
  /\ issuer[k] = None
  /\ issuer' = [issuer EXCEPT ![k] = ConfigOf[c]]
  /\ live' = live \cup {k}
  /\ sessionKey' = k
  /\ sessionLock' = None
  /\ UNCHANGED <<sessionUser, hasPassword>>

(* login_with_password succeeds with a fresh key: the key is cached and    *)
(* config.password becomes None, all before the lock is released.          *)
LoginOk(c, k) ==
  /\ sessionLock = c
  /\ sessionKey = None
  /\ ConfigOf[c] \in hasPassword \cap Correct
  /\ issuer[k] = None
  /\ issuer' = [issuer EXCEPT ![k] = ConfigOf[c]]
  /\ live' = live \cup {k}
  /\ hasPassword' = hasPassword \ {ConfigOf[c]}
  /\ sessionKey' = k
  /\ sessionLock' = None
  /\ UNCHANGED sessionUser

(* Mutant: the lock is released on success only.                           *)
LoginFailsLocked(c) ==
  /\ sessionLock = c
  /\ sessionKey = None
  /\ UNCHANGED <<session, sessionLock, hasPassword, issuer, live>>

(* It raises SplunkLoginError: no password left, a transport fault, an     *)
(* answer other than 200, one that is not JSON or carries no sessionKey.   *)
LoginFails(c) ==
  /\ sessionLock = c
  /\ sessionKey = None
  /\ sessionLock' = None
  /\ UNCHANGED <<session, hasPassword, issuer, live>>

(* invalidate_session.                                                     *)
InvalidateSession ==
  /\ sessionLock = None
  /\ sessionKey' = None
  /\ UNCHANGED <<sessionUser, sessionLock, hasPassword, issuer, live>>

(* Splunk expires a session key or revokes the token.                      *)
Expire(k) ==
  /\ k \in live
  /\ live' = live \ {k}
  /\ UNCHANGED <<session, sessionLock, hasPassword, issuer>>
=============================================================================
