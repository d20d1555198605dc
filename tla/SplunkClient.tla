---------------------------- MODULE SplunkClient ----------------------------
(***************************************************************************)
(* SplunkClient.call_api of spl_bridge/splunk_client.py over SplunkAuth:   *)
(* the authorization header, the request, the reaction to 401/403, and the *)
(* per-process capability gate, whose lock is held across an API call of   *)
(* its own.  A call is one tool call of the server (gate, then one request *)
(* for the search) or one probe of the setup wizard (one request).         *)
(***************************************************************************)
EXTENDS SplunkAuth

CONSTANTS
  GateSettings,  \* values config.require_capabilities may have
  Concurrent     \* calls overlap (server threads) or not (wizard probes)

(* ok: 200.  denied: 401/403, or the synthetic 401 of a failed retry.      *)
(* error: any other status, synthetic 500/502 included.  raised: Timeout   *)
(* or ConnectionError.  loginError: SplunkLoginError.  capDenied: the gate *)
(* returned False.                                                         *)
Response == {"ok", "denied", "error", "raised", "loginError", "capDenied"}

ASSUME GateAssumption == GateSettings \subseteq BOOLEAN /\ None \notin Response

VARIABLES
  pc,            \* where each call is
  purpose,       \* what its current API call is for: "context" or "search"
  attempt,       \* 1, or 2 once call_api retries
  header,        \* the credential in its current request
  resp,          \* what call_api got: see Response
  requireCaps,   \* config.require_capabilities, read once at start-up
  capLock,       \* holder of _cap_lock
  capVerified,   \* _capability_verified
  capChecked,    \* _capabilities_checked
  tokenLogged,   \* _token_invalid_logged, of the client of each configuration
  warnings,      \* history: token warnings logged per configuration
  contexts       \* history: capability contexts fetched

gateVars == <<capLock, capVerified, capChecked, contexts>>
logVars  == <<tokenLogged, warnings>>
callVars == <<pc, purpose, attempt, header, resp>>
vars == <<authVars, callVars, requireCaps, gateVars, logVars>>

TypeOK ==
  /\ AuthTypeOK
  /\ pc \in [Calls -> {"new", "gate", "auth", "session", "send", "rejected",
                       "invalidate", "log", "flag", "deliver", "done"}]
  /\ purpose \in [Calls -> {"context", "search"}]
  /\ attempt \in [Calls -> {1, 2}]
  /\ header \in [Calls -> Keys \cup {Token, None}]
  /\ resp \in [Calls -> Response \cup {None}]
  /\ requireCaps \in BOOLEAN
  /\ capLock \in Calls \cup {None}
  /\ capVerified \in BOOLEAN /\ capChecked \in BOOLEAN
  /\ tokenLogged \in [Configs -> BOOLEAN]
  /\ warnings \in [Configs -> Nat]
  /\ contexts \in Nat

Init ==
  /\ AuthInit
  /\ pc = [c \in Calls |-> "new"]
  /\ purpose = [c \in Calls |-> "search"]
  /\ attempt = [c \in Calls |-> 1]
  /\ header = [c \in Calls |-> None]
  /\ resp = [c \in Calls |-> None]
  /\ requireCaps \in GateSettings
  /\ capLock = None
  /\ capVerified = FALSE
  /\ capChecked = FALSE
  /\ tokenLogged = [f \in Configs |-> FALSE]
  /\ warnings = [f \in Configs |-> 0]
  /\ contexts = 0

Goto(c, l) == pc' = [pc EXCEPT ![c] = l]
Got(c, r)  == resp' = [resp EXCEPT ![c] = r]

(* A server has one configuration and a thread for each call; the wizard   *)
(* probes one configuration after the other.                               *)
Begin(c) ==
  /\ pc[c] = "new"
  /\ IF Concurrent THEN \A d \in Calls : pc[d] # "new" => ConfigOf[d] = ConfigOf[c]
                   ELSE \A d \in Calls : pc[d] \in {"new", "done"}
  /\ Goto(c, IF requireCaps THEN "gate" ELSE "auth")
  /\ UNCHANGED <<authVars, requireCaps, purpose, attempt, header, resp, gateVars, logVars>>
-----------------------------------------------------------------------------
(* ensure_capabilities_verified, under _cap_lock.  Already verified: the   *)
(* lock is given back at once.                                             *)
GateOpen(c) ==
  /\ pc[c] = "gate"
  /\ capLock = None
  /\ capVerified
  /\ Goto(c, "auth")
  /\ UNCHANGED <<authVars, purpose, attempt, header, resp, gateVars, logVars>>

(* A context fetched before lacked the capability: that answer is final.   *)
GateShut(c) ==
  /\ pc[c] = "gate"
  /\ capLock = None
  /\ capChecked /\ ~capVerified
  /\ Goto(c, "done")
  /\ Got(c, "capDenied")
  /\ UNCHANGED <<authVars, purpose, attempt, header, gateVars, logVars>>

(* Mutant: the gate is not serialised.                                     *)
GateFetchUnlocked(c) ==
  /\ pc[c] = "gate"
  /\ ~capChecked
  /\ capLock' = c
  /\ purpose' = [purpose EXCEPT ![c] = "context"]
  /\ Goto(c, "auth")
  /\ UNCHANGED <<authVars, attempt, header, resp, capVerified, capChecked, contexts, logVars>>

(* No context yet: fetch it, holding the lock.                             *)
GateFetch(c) ==
  /\ pc[c] = "gate"
  /\ capLock = None
  /\ ~capChecked
  /\ capLock' = c
  /\ purpose' = [purpose EXCEPT ![c] = "context"]
  /\ Goto(c, "auth")
  /\ UNCHANGED <<authVars, attempt, header, resp, capVerified, capChecked, contexts, logVars>>
-----------------------------------------------------------------------------
(* get_auth_header in token mode: a pure function.                         *)
TokenHeader(c) ==
  /\ pc[c] = "auth"
  /\ ConfigOf[c] \in TokenConfigs
  /\ header' = [header EXCEPT ![c] = Token]
  /\ Goto(c, "send")
  /\ UNCHANGED <<authVars, purpose, attempt, resp, gateVars, logVars>>

(* get_auth_header in password mode.                                       *)
TakeSession(c) ==
  /\ pc[c] = "auth"
  /\ ConfigOf[c] \notin TokenConfigs
  /\ EnterSession(c)
  /\ Goto(c, "session")
  /\ UNCHANGED <<purpose, attempt, header, resp, gateVars, logVars>>

(* Mutant: the other field of _session_state goes into the header.         *)
CachedHeaderName(c) ==
  /\ pc[c] = "session"
  /\ UseCached(c)
  /\ header' = [header EXCEPT ![c] = sessionUser]
  /\ Goto(c, "send")
  /\ UNCHANGED <<purpose, attempt, resp, gateVars, logVars>>

CachedHeader(c) ==
  /\ pc[c] = "session"
  /\ UseCached(c)
  /\ header' = [header EXCEPT ![c] = sessionKey]
  /\ Goto(c, "send")
  /\ UNCHANGED <<purpose, attempt, resp, gateVars, logVars>>

FreshHeader(c) ==
  /\ pc[c] = "session"
  /\ \E k \in Keys : LoginOk(c, k) /\ header' = [header EXCEPT ![c] = k]
  /\ Goto(c, "send")
  /\ UNCHANGED <<purpose, attempt, resp, gateVars, logVars>>

(* SplunkLoginError leaves call_api on the first attempt and becomes a     *)
(* synthetic 401 on the retry.                                             *)
NoHeader(c) ==
  /\ pc[c] = "session"
  /\ LoginFails(c)
  /\ Got(c, IF attempt[c] = 1 THEN "loginError" ELSE "denied")
  /\ Goto(c, "deliver")
  /\ UNCHANGED <<purpose, attempt, header, gateVars, logVars>>

(* _do_request, with Splunk's answer: 200 only to a credential it accepts, *)
(* 401 or 403 to any (403 is also a matter of permissions), other statuses *)
(* and transport faults at will.  Only the first attempt looks for         *)
(* 401/403.                                                                *)
Answers(k) == {"denied", "error", "raised"} \cup (IF k \in live THEN {"ok"} ELSE {})

Request(c) ==
  /\ pc[c] = "send"
  /\ \E r \in Answers(header[c]) :
       /\ Got(c, r)
       /\ Goto(c, IF r = "denied" /\ attempt[c] = 1 THEN "rejected" ELSE "deliver")
  /\ UNCHANGED <<authVars, purpose, attempt, header, gateVars, logVars>>

(* 401/403 in password mode: re-authenticate once.                         *)
Reauthenticate(c) ==
  /\ pc[c] = "rejected"
  /\ AuthMode(ConfigOf[c]) = "password"
  /\ Goto(c, "invalidate")
  /\ UNCHANGED <<authVars, purpose, attempt, header, resp, gateVars, logVars>>

Invalidate(c) ==
  /\ pc[c] = "invalidate"
  /\ InvalidateSession
  /\ attempt' = [attempt EXCEPT ![c] = 2]
  /\ Goto(c, "auth")
  /\ UNCHANGED <<purpose, header, resp, gateVars, logVars>>

(* Mutant: the flag is set when it is read, ahead of the warning.          *)
RejectedTokenFlagsFirst(c) ==
  /\ pc[c] = "rejected"
  /\ AuthMode(ConfigOf[c]) = "token"
  /\ Goto(c, IF tokenLogged[ConfigOf[c]] THEN "deliver" ELSE "log")
  /\ tokenLogged' = [tokenLogged EXCEPT ![ConfigOf[c]] = TRUE]
  /\ UNCHANGED <<authVars, purpose, attempt, header, resp, gateVars, warnings>>

(* 401/403 in token mode: the flag is read, the warning is logged, the     *)
(* flag is set, with no lock around the three.                             *)
RejectedToken(c) ==
  /\ pc[c] = "rejected"
  /\ AuthMode(ConfigOf[c]) = "token"
  /\ Goto(c, IF tokenLogged[ConfigOf[c]] THEN "deliver" ELSE "log")
  /\ UNCHANGED <<authVars, purpose, attempt, header, resp, gateVars, logVars>>

LogToken(c) ==
  /\ pc[c] = "log"
  /\ warnings' = [warnings EXCEPT ![ConfigOf[c]] = @ + 1]
  /\ Goto(c, "flag")
  /\ UNCHANGED <<authVars, purpose, attempt, header, resp, gateVars, tokenLogged>>

FlagToken(c) ==
  /\ pc[c] = "flag"
  /\ tokenLogged' = [tokenLogged EXCEPT ![ConfigOf[c]] = TRUE]
  /\ Goto(c, "deliver")
  /\ UNCHANGED <<authVars, purpose, attempt, header, resp, gateVars, warnings>>

(* 401/403 in any other mode goes to the caller as it is.                  *)
RejectedPlain(c) ==
  /\ pc[c] = "rejected"
  /\ AuthMode(ConfigOf[c]) = "none"
  /\ Goto(c, "deliver")
  /\ UNCHANGED <<authVars, purpose, attempt, header, resp, gateVars, logVars>>
-----------------------------------------------------------------------------
(* check_capabilities with a 200 it can parse: the set is cached for good, *)
(* and the call goes on to its search if the capability is there.          *)
ContextFetched(c) ==
  /\ pc[c] = "deliver" /\ purpose[c] = "context"
  /\ resp[c] = "ok"
  /\ capChecked' = TRUE
  /\ contexts' = contexts + 1
  /\ capLock' = None
  /\ \/ /\ capVerified' = TRUE
        /\ purpose' = [purpose EXCEPT ![c] = "search"]
        /\ attempt' = [attempt EXCEPT ![c] = 1]
        /\ header' = [header EXCEPT ![c] = None]
        /\ Got(c, None)
        /\ Goto(c, "auth")
     \/ /\ Got(c, "capDenied")
        /\ Goto(c, "done")
        /\ UNCHANGED <<capVerified, purpose, attempt, header>>
  /\ UNCHANGED <<authVars, logVars>>

(* Mutant: the gate is tried again until Splunk answers.                   *)
ContextFailedRetries(c) ==
  /\ pc[c] = "deliver" /\ purpose[c] = "context"
  /\ capLock' = None
  /\ purpose' = [purpose EXCEPT ![c] = "search"]
  /\ attempt' = [attempt EXCEPT ![c] = 1]
  /\ Got(c, None)
  /\ Goto(c, "gate")
  /\ UNCHANGED <<authVars, header, capVerified, capChecked, contexts, logVars>>

(* Any other status, or a body it cannot parse: denied now, nothing        *)
(* cached.  An exception leaves the gate and the lock with it.             *)
ContextFailed(c) ==
  /\ pc[c] = "deliver" /\ purpose[c] = "context"
  /\ capLock' = None
  /\ Got(c, IF resp[c] \in {"raised", "loginError"} THEN resp[c] ELSE "capDenied")
  /\ Goto(c, "done")
  /\ UNCHANGED <<authVars, purpose, attempt, header, capVerified, capChecked, contexts, logVars>>

SearchAnswered(c) ==
  /\ pc[c] = "deliver" /\ purpose[c] = "search"
  /\ Goto(c, "done")
  /\ UNCHANGED <<authVars, purpose, attempt, header, resp, gateVars, logVars>>
-----------------------------------------------------------------------------
Step(c) ==
  /\ UNCHANGED requireCaps
  /\ \/ GateOpen(c) \/ GateShut(c) \/ GateFetch(c)
     \/ TokenHeader(c) \/ TakeSession(c) \/ CachedHeader(c) \/ FreshHeader(c) \/ NoHeader(c)
     \/ Request(c)
     \/ Reauthenticate(c) \/ Invalidate(c)
     \/ RejectedToken(c) \/ LogToken(c) \/ FlagToken(c) \/ RejectedPlain(c)
     \/ ContextFetched(c) \/ ContextFailed(c) \/ SearchAnswered(c)

SplunkExpires ==
  /\ \E k \in live : Expire(k)
  /\ UNCHANGED <<callVars, requireCaps, gateVars, logVars>>

(* Nothing is under way; the process may wait for good.                    *)
Quiet ==
  /\ \A c \in Calls : pc[c] \in {"new", "done"}
  /\ UNCHANGED vars

Next ==
  \/ \E c \in Calls : Begin(c) \/ Step(c)
  \/ SplunkExpires
  \/ Quiet

Spec == Init /\ [][Next]_vars

(* A call that has begun keeps running: its thread is scheduled, and a     *)
(* request ends because requests bounds it with config.timeout.  Calls are *)
(* finitely many, so no lock is contended forever.                         *)
Fairness == \A c \in Calls : WF_vars(Step(c))

FairSpec == Spec /\ Fairness
-----------------------------------------------------------------------------
(* Safety: however many threads race to the first login, one login POST is *)
(* in flight at a time and each configuration logs in successfully at most *)
(* once (get_auth_header holding its lock across login_with_password).     *)
LoginInFlight(c) == pc[c] = "session" /\ sessionKey = None

OneLogin ==
  /\ \A c, d \in Calls : LoginInFlight(c) /\ LoginInFlight(d) => c = d
  /\ \A j, k \in Keys : issuer[j] = issuer[k] /\ issuer[j] # None => j = k

(* Safety: a request never carries the key of another user name, although  *)
(* the cache outlives the configuration that filled it (get_auth_header).  *)
KeyMatchesUser ==
  \A c \in Calls :
    header[c] \in Keys =>
      /\ issuer[header[c]] # None
      /\ UserOf[issuer[header[c]]] = UserOf[ConfigOf[c]]

(* Safety: the gate fails closed.  With require_capabilities a search      *)
(* request leaves only after the capability was seen, and no two threads   *)
(* fetch the context successfully (ensure_capabilities_verified).          *)
GateHolds ==
  requireCaps =>
    /\ \A c \in Calls :
         purpose[c] = "search" /\ pc[c] \notin {"new", "gate", "done"} => capVerified
    /\ contexts <= 1

(* Refinement: a process with one password configuration has one session   *)
(* in its life: after the first login no answer of Splunk, expiry included, *)
(* makes it drop the key or use another.  login_with_password cleared the  *)
(* password, so auth_mode is "none" and call_api takes neither branch on   *)
(* 401/403.                                                                *)
PasswordCalls == {c \in Calls : ConfigOf[c] \notin TokenConfigs}
SentKey == [c \in PasswordCalls |-> header[c]]

SS == INSTANCE SingleSession WITH Calls <- PasswordCalls, key <- sessionKey, used <- SentKey

OneSession == SS!Spec

(* Liveness: every call that has begun ends, with the gate's lock held     *)
(* across the session's and both across requests.                          *)
CallsEnd == \A c \in Calls : pc[c] # "new" ~> pc[c] = "done"

(* At most so many steps of its own are left to a call: one request, one   *)
(* retry, and the same before it for the context it may have to fetch.     *)
StepsLeft(c) ==
  LET retry == IF attempt[c] = 1 THEN 5 ELSE 0
      rest  == CASE pc[c] = "done"       -> 0
                 [] pc[c] = "deliver"    -> 1
                 [] pc[c] = "flag"       -> 2
                 [] pc[c] = "log"        -> 3
                 [] pc[c] = "invalidate" -> 5
                 [] pc[c] = "rejected"   -> 6
                 [] pc[c] = "send"       -> 2 + retry
                 [] pc[c] = "session"    -> 3 + retry
                 [] pc[c] = "auth"       -> 4 + retry
                 [] pc[c] = "gate"       -> 19
                 [] pc[c] = "new"        -> 20
  IN  IF purpose[c] = "context" /\ pc[c] # "done" THEN rest + 9 ELSE rest

(* Action: no call is sent back to where it was, by its own steps or by    *)
(* another's: 401/403 is answered by at most one retry of the context and  *)
(* one of the search, and the gate is passed once (call_api,               *)
(* ensure_capabilities_verified).                                          *)
CallDescends ==
  [][\A c \in Calls :
       \/ UNCHANGED <<pc[c], purpose[c], attempt[c], header[c], resp[c]>>
       \/ StepsLeft(c)' < StepsLeft(c)]_vars

(* Safety: calls never all wait for each other.  Whatever holds the gate's *)
(* lock may wait for the session's, across the requests of its own; what   *)
(* holds the session's waits for no lock (get_auth_header,                 *)
(* ensure_capabilities_verified, invalidate_session).                      *)
Waiting(c) ==
  \/ pc[c] = "gate" /\ capLock # None
  \/ pc[c] = "auth" /\ ConfigOf[c] \notin TokenConfigs /\ sessionLock # None
  \/ pc[c] = "invalidate" /\ sessionLock # None

UnderWay == {c \in Calls : pc[c] \notin {"new", "done"}}

NoDeadlock == UnderWay # {} => \E c \in UnderWay : ~Waiting(c)

(* Safety: call_api re-authenticates only with a key it inherited from an  *)
(* earlier configuration of the same user, never after the configuration's *)
(* own login, since that cleared the password auth_mode is computed from.  *)
RetryOnlyInherited ==
  \A c \in Calls : pc[c] = "invalidate" => issuer[header[c]] # ConfigOf[c]

(* Safety: a rejected token is never retried, and no call reports the      *)
(* rejection before the warning is in the log (call_api in token mode).    *)
TokenRejection ==
  \A c \in Calls :
    pc[c] = "done" /\ resp[c] = "denied" /\ ConfigOf[c] \in TokenConfigs
      => attempt[c] = 1 /\ warnings[ConfigOf[c]] >= 1

(* call_api: "On 401/403 in password auth mode, invalidates the cached     *)
(* session key and retries exactly once."                                  *)
RetriedOnce ==
  \A c \in Calls :
    pc[c] = "done" /\ resp[c] = "denied" /\ ConfigOf[c] \notin TokenConfigs
      => attempt[c] = 2

(* The wizard's probe is a live request "against the credentials you just  *)
(* entered": one that succeeds shows that Splunk accepts them.             *)
ProbeHonest ==
  \A c \in Calls :
    pc[c] = "done" /\ resp[c] = "ok" /\ ConfigOf[c] \notin TokenConfigs
      => ConfigOf[c] \in Correct
=============================================================================
