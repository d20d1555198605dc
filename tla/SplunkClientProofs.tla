--------------------------- MODULE SplunkClientProofs ---------------------------
(***************************************************************************)
(* Proofs about SplunkAuth and SplunkClient for any number of calls,       *)
(* configurations and keys: one login per configuration however many       *)
(* threads race, no key under another user's name, a capability gate that  *)
(* fails closed, one session for life in a one-configuration process, no   *)
(* deadlock of the two locks, and no call that goes round for ever.        *)
(***************************************************************************)
EXTENDS SplunkClient, TLAPS

(* A call between EnterSession and the release holds the session lock, and *)
(* the cache is under its user's name.                                     *)
SessionInv ==
  \A c \in Calls : pc[c] = "session" =>
    /\ sessionLock = c
    /\ sessionUser = UserOf[ConfigOf[c]]
    /\ ConfigOf[c] \notin TokenConfigs

(* The cached key was issued to a configuration of the cached name.        *)
CacheInv ==
  sessionKey # None =>
    /\ issuer[sessionKey] # None
    /\ UserOf[issuer[sessionKey]] = sessionUser

(* A key is issued to a configuration once, at the cost of its password.   *)
IssuerInv ==
  /\ \A k \in Keys : issuer[k] # None => issuer[k] \notin hasPassword \cup TokenConfigs
  /\ \A j, k \in Keys : issuer[j] = issuer[k] /\ issuer[j] # None => j = k

(* A request in password mode carries a key, and only such a request is    *)
(* followed by an invalidation.                                            *)
HeaderInv ==
  \A c \in Calls :
    /\ pc[c] \in {"send", "rejected", "invalidate"} /\ ConfigOf[c] \notin TokenConfigs
         => header[c] \in Keys
    /\ pc[c] = "invalidate" => ConfigOf[c] \notin TokenConfigs

(* Fetching the context holds the gate's lock until the context is known.  *)
GateInv ==
  /\ \A c \in Calls : purpose[c] = "context" /\ pc[c] # "done" => capLock = c /\ ~capChecked
  /\ ~capChecked => contexts = 0
  /\ contexts <= 1

(* Who holds a lock: the session's only between EnterSession and the       *)
(* header, the gate's only while the context is fetched.                   *)
LockInv ==
  \A c \in Calls :
    /\ sessionLock = c => pc[c] = "session"
    /\ capLock = c => purpose[c] = "context" /\ pc[c] \notin {"new", "gate", "done"}

(* Keys are issued for passwords Splunk accepts, and an answer of 200 in   *)
(* password mode was to such a password, if no two configurations share a  *)
(* user name.                                                              *)
AnswerInv ==
  /\ \A k \in Keys : issuer[k] # None => issuer[k] \in Correct
  /\ \A c \in Calls : resp[c] = "ok" /\ ConfigOf[c] \notin TokenConfigs => ConfigOf[c] \in Correct

AuthInv == TypeOK /\ SessionInv /\ CacheInv /\ IssuerInv
CallInv == HeaderInv /\ KeyMatchesUser /\ RetryOnlyInherited
------------------------------------------------------------------------------
LEMMA TypeInit == Init => TypeOK
<1> SUFFICES ASSUME Init PROVE TypeOK
  OBVIOUS
<1>1. AuthTypeOK
  BY AuthAssumption DEF Init, AuthInit, AuthTypeOK, Users
<1>2. /\ pc \in [Calls -> {"new", "gate", "auth", "session", "send", "rejected",
                           "invalidate", "log", "flag", "deliver", "done"}]
      /\ purpose \in [Calls -> {"context", "search"}]
      /\ attempt \in [Calls -> {1, 2}]
      /\ header \in [Calls -> Keys \cup {Token, None}]
      /\ resp \in [Calls -> Response \cup {None}]
  BY DEF Init
<1>3. /\ requireCaps \in BOOLEAN
      /\ capLock \in Calls \cup {None} /\ capVerified \in BOOLEAN /\ capChecked \in BOOLEAN
      /\ tokenLogged \in [Configs -> BOOLEAN]
      /\ warnings \in [Configs -> Nat] /\ contexts \in Nat
  BY GateAssumption DEF Init
<1> QED BY <1>1, <1>2, <1>3 DEF TypeOK

(* Type correctness of the session cache, the calls and the gate.          *)
LEMMA TypeStep == TypeOK /\ [Next]_vars => TypeOK'
<1> SUFFICES ASSUME TypeOK, [Next]_vars PROVE TypeOK'
  OBVIOUS
<1> USE AuthAssumption DEF TypeOK, AuthTypeOK, Users, Response, authVars, session, callVars, gateVars, logVars, Goto, Got
<1>0. requireCaps' = requireCaps
  BY DEF Next, Step, Begin, SplunkExpires, Quiet, vars
<1>1. ASSUME NEW c \in Calls, Begin(c) PROVE TypeOK'
  BY <1>0, <1>1 DEF Begin
<1>2. ASSUME NEW c \in Calls, GateOpen(c) PROVE TypeOK'
  BY <1>0, <1>2 DEF GateOpen
<1>3. ASSUME NEW c \in Calls, GateShut(c) PROVE TypeOK'
  BY <1>0, <1>3 DEF GateShut
<1>4. ASSUME NEW c \in Calls, GateFetch(c) PROVE TypeOK'
  BY <1>0, <1>4 DEF GateFetch
<1>5. ASSUME NEW c \in Calls, TokenHeader(c) PROVE TypeOK'
  BY <1>0, <1>5 DEF TokenHeader
<1>6. ASSUME NEW c \in Calls, TakeSession(c) PROVE TypeOK'
  BY <1>0, <1>6 DEF TakeSession, EnterSession
<1>7. ASSUME NEW c \in Calls, CachedHeader(c) PROVE TypeOK'
  BY <1>0, <1>7 DEF CachedHeader, UseCached
<1>8. ASSUME NEW c \in Calls, FreshHeader(c) PROVE TypeOK'
  BY <1>0, <1>8 DEF FreshHeader, LoginOk
<1>9. ASSUME NEW c \in Calls, NoHeader(c) PROVE TypeOK'
  BY <1>0, <1>9 DEF NoHeader, LoginFails
<1>10. ASSUME NEW c \in Calls, Request(c) PROVE TypeOK'
  BY <1>0, <1>10 DEF Request, Answers
<1>11. ASSUME NEW c \in Calls, Reauthenticate(c) PROVE TypeOK'
  BY <1>0, <1>11 DEF Reauthenticate, AuthMode
<1>12. ASSUME NEW c \in Calls, Invalidate(c) PROVE TypeOK'
  BY <1>0, <1>12 DEF Invalidate, InvalidateSession
<1>13. ASSUME NEW c \in Calls, RejectedToken(c) PROVE TypeOK'
  BY <1>0, <1>13 DEF RejectedToken
<1>14. ASSUME NEW c \in Calls, LogToken(c) PROVE TypeOK'
  BY <1>0, <1>14 DEF LogToken
<1>15. ASSUME NEW c \in Calls, FlagToken(c) PROVE TypeOK'
  BY <1>0, <1>15 DEF FlagToken
<1>16. ASSUME NEW c \in Calls, RejectedPlain(c) PROVE TypeOK'
  BY <1>0, <1>16 DEF RejectedPlain
<1>17. ASSUME NEW c \in Calls, ContextFetched(c) PROVE TypeOK'
  <2>1. CASE capVerified' = TRUE /\ Goto(c, "auth") /\ Got(c, None)
             /\ purpose' = [purpose EXCEPT ![c] = "search"]
             /\ attempt' = [attempt EXCEPT ![c] = 1]
             /\ header' = [header EXCEPT ![c] = None]
    BY <1>0, <1>17, <2>1 DEF ContextFetched
  <2>2. CASE Got(c, "capDenied") /\ Goto(c, "done")
             /\ UNCHANGED <<capVerified, purpose, attempt, header>>
    BY <1>0, <1>17, <2>2 DEF ContextFetched
  <2> QED BY <1>0, <1>17, <2>1, <2>2 DEF ContextFetched
<1>18. ASSUME NEW c \in Calls, ContextFailed(c) PROVE TypeOK'
  BY <1>0, <1>18 DEF ContextFailed
<1>19. ASSUME NEW c \in Calls, SearchAnswered(c) PROVE TypeOK'
  BY <1>0, <1>19 DEF SearchAnswered
<1>20. CASE SplunkExpires
  BY <1>0, <1>20 DEF SplunkExpires, Expire
<1>21. CASE UNCHANGED vars
  BY <1>0, <1>21 DEF vars
<1> QED
  BY <1>1, <1>2, <1>3, <1>4, <1>5, <1>6, <1>7, <1>8, <1>9, <1>10,
     <1>11, <1>12, <1>13, <1>14, <1>15, <1>16, <1>17, <1>18, <1>19,
     <1>20, <1>21
  DEF Next, Step, Quiet

(* Every reachable state is well-typed.                                    *)
THEOREM TypeCorrect == Spec => []TypeOK
<1> QED BY TypeInit, TypeStep, PTL DEF Spec
------------------------------------------------------------------------------
LEMMA AuthInvInit == Init => AuthInv
  BY TypeInit DEF Init, AuthInit, AuthInv, SessionInv, CacheInv, IssuerInv

LEMMA AuthInvStep == AuthInv /\ [Next]_vars => AuthInv'
<1> SUFFICES ASSUME AuthInv, [Next]_vars PROVE SessionInv' /\ CacheInv' /\ IssuerInv'
  BY TypeStep DEF AuthInv
<1> USE AuthAssumption DEF AuthInv, TypeOK, AuthTypeOK, SessionInv, CacheInv, IssuerInv, authVars, session, callVars, gateVars, logVars, Goto, Got
<1>1. ASSUME NEW c \in Calls, Begin(c) PROVE SessionInv' /\ CacheInv' /\ IssuerInv'
  BY <1>1 DEF Begin
<1>2. ASSUME NEW c \in Calls, GateOpen(c) PROVE SessionInv' /\ CacheInv' /\ IssuerInv'
  BY <1>2 DEF GateOpen
<1>3. ASSUME NEW c \in Calls, GateShut(c) PROVE SessionInv' /\ CacheInv' /\ IssuerInv'
  BY <1>3 DEF GateShut
<1>4. ASSUME NEW c \in Calls, GateFetch(c) PROVE SessionInv' /\ CacheInv' /\ IssuerInv'
  BY <1>4 DEF GateFetch
<1>5. ASSUME NEW c \in Calls, TokenHeader(c) PROVE SessionInv' /\ CacheInv' /\ IssuerInv'
  BY <1>5 DEF TokenHeader
<1>6. ASSUME NEW c \in Calls, TakeSession(c) PROVE SessionInv' /\ CacheInv' /\ IssuerInv'
  BY <1>6 DEF TakeSession, EnterSession
<1>7. ASSUME NEW c \in Calls, CachedHeader(c) PROVE SessionInv' /\ CacheInv' /\ IssuerInv'
  BY <1>7 DEF CachedHeader, UseCached
<1>8. ASSUME NEW c \in Calls, FreshHeader(c) PROVE SessionInv' /\ CacheInv' /\ IssuerInv'
  BY <1>8 DEF FreshHeader, LoginOk
<1>9. ASSUME NEW c \in Calls, NoHeader(c) PROVE SessionInv' /\ CacheInv' /\ IssuerInv'
  BY <1>9 DEF NoHeader, LoginFails
<1>10. ASSUME NEW c \in Calls, Request(c) PROVE SessionInv' /\ CacheInv' /\ IssuerInv'
  BY <1>10 DEF Request, Answers
<1>11. ASSUME NEW c \in Calls, Reauthenticate(c) PROVE SessionInv' /\ CacheInv' /\ IssuerInv'
  BY <1>11 DEF Reauthenticate, AuthMode
<1>12. ASSUME NEW c \in Calls, Invalidate(c) PROVE SessionInv' /\ CacheInv' /\ IssuerInv'
  BY <1>12 DEF Invalidate, InvalidateSession
<1>13. ASSUME NEW c \in Calls, RejectedToken(c) PROVE SessionInv' /\ CacheInv' /\ IssuerInv'
  BY <1>13 DEF RejectedToken
<1>14. ASSUME NEW c \in Calls, LogToken(c) PROVE SessionInv' /\ CacheInv' /\ IssuerInv'
  BY <1>14 DEF LogToken
<1>15. ASSUME NEW c \in Calls, FlagToken(c) PROVE SessionInv' /\ CacheInv' /\ IssuerInv'
  BY <1>15 DEF FlagToken
<1>16. ASSUME NEW c \in Calls, RejectedPlain(c) PROVE SessionInv' /\ CacheInv' /\ IssuerInv'
  BY <1>16 DEF RejectedPlain
<1>17. ASSUME NEW c \in Calls, ContextFetched(c) PROVE SessionInv' /\ CacheInv' /\ IssuerInv'
  BY <1>17 DEF ContextFetched
<1>18. ASSUME NEW c \in Calls, ContextFailed(c) PROVE SessionInv' /\ CacheInv' /\ IssuerInv'
  BY <1>18 DEF ContextFailed
<1>19. ASSUME NEW c \in Calls, SearchAnswered(c) PROVE SessionInv' /\ CacheInv' /\ IssuerInv'
  BY <1>19 DEF SearchAnswered
<1>20. CASE SplunkExpires
  BY <1>20 DEF SplunkExpires, Expire
<1>21. CASE UNCHANGED vars
  BY <1>21 DEF vars
<1> QED
  BY <1>1, <1>2, <1>3, <1>4, <1>5, <1>6, <1>7, <1>8, <1>9, <1>10,
     <1>11, <1>12, <1>13, <1>14, <1>15, <1>16, <1>17, <1>18, <1>19,
     <1>20, <1>21
  DEF Next, Step, Quiet

(* At most one login POST is in flight, and a configuration logs in        *)
(* successfully at most once, for any number of racing threads.            *)
THEOREM OneLoginCorrect == Spec => []OneLogin
<1>1. AuthInv => OneLogin
  BY DEF AuthInv, SessionInv, IssuerInv, OneLogin, LoginInFlight
<1> QED BY <1>1, AuthInvInit, AuthInvStep, PTL DEF Spec
------------------------------------------------------------------------------
LEMMA CallInvInit == Init => CallInv
  BY AuthAssumption DEF Init, CallInv, HeaderInv, KeyMatchesUser, RetryOnlyInherited

LEMMA CallInvStep == AuthInv /\ CallInv /\ [Next]_vars => CallInv'
<1> SUFFICES ASSUME AuthInv, CallInv, [Next]_vars PROVE CallInv'
  OBVIOUS
<1> USE AuthAssumption DEF AuthInv, TypeOK, AuthTypeOK, SessionInv, CacheInv, IssuerInv,
                           CallInv, HeaderInv, KeyMatchesUser, RetryOnlyInherited, authVars, session, callVars, gateVars, logVars, Goto, Got
<1>1. ASSUME NEW c \in Calls, Begin(c) PROVE CallInv'
  BY <1>1 DEF Begin
<1>2. ASSUME NEW c \in Calls, GateOpen(c) PROVE CallInv'
  BY <1>2 DEF GateOpen
<1>3. ASSUME NEW c \in Calls, GateShut(c) PROVE CallInv'
  BY <1>3 DEF GateShut
<1>4. ASSUME NEW c \in Calls, GateFetch(c) PROVE CallInv'
  BY <1>4 DEF GateFetch
<1>5. ASSUME NEW c \in Calls, TokenHeader(c) PROVE CallInv'
  BY <1>5 DEF TokenHeader
<1>6. ASSUME NEW c \in Calls, TakeSession(c) PROVE CallInv'
  BY <1>6 DEF TakeSession, EnterSession
<1>7. ASSUME NEW c \in Calls, CachedHeader(c) PROVE CallInv'
  BY <1>7 DEF CachedHeader, UseCached
<1>8. ASSUME NEW c \in Calls, FreshHeader(c) PROVE CallInv'
  BY <1>8 DEF FreshHeader, LoginOk
<1>9. ASSUME NEW c \in Calls, NoHeader(c) PROVE CallInv'
  BY <1>9 DEF NoHeader, LoginFails
<1>10. ASSUME NEW c \in Calls, Request(c) PROVE CallInv'
  BY <1>10 DEF Request, Answers
<1>11. ASSUME NEW c \in Calls, Reauthenticate(c) PROVE CallInv'
  <2>1. pc[c] = "rejected" /\ ConfigOf[c] \in hasPassword /\ ConfigOf[c] \notin TokenConfigs
    BY <1>11 DEF Reauthenticate, AuthMode
  <2>2. header[c] \in Keys
    BY <2>1
  <2>3. issuer[header[c]] # None /\ issuer[header[c]] \notin hasPassword
    BY <2>2
  <2>4. issuer[header[c]] # ConfigOf[c]
    BY <2>1, <2>3
  <2> QED BY <1>11, <2>1, <2>2, <2>4 DEF Reauthenticate
<1>12. ASSUME NEW c \in Calls, Invalidate(c) PROVE CallInv'
  BY <1>12 DEF Invalidate, InvalidateSession
<1>13. ASSUME NEW c \in Calls, RejectedToken(c) PROVE CallInv'
  BY <1>13 DEF RejectedToken
<1>14. ASSUME NEW c \in Calls, LogToken(c) PROVE CallInv'
  BY <1>14 DEF LogToken
<1>15. ASSUME NEW c \in Calls, FlagToken(c) PROVE CallInv'
  BY <1>15 DEF FlagToken
<1>16. ASSUME NEW c \in Calls, RejectedPlain(c) PROVE CallInv'
  BY <1>16 DEF RejectedPlain
<1>17. ASSUME NEW c \in Calls, ContextFetched(c) PROVE CallInv'
  BY <1>17 DEF ContextFetched
<1>18. ASSUME NEW c \in Calls, ContextFailed(c) PROVE CallInv'
  BY <1>18 DEF ContextFailed
<1>19. ASSUME NEW c \in Calls, SearchAnswered(c) PROVE CallInv'
  BY <1>19 DEF SearchAnswered
<1>20. CASE SplunkExpires
  BY <1>20 DEF SplunkExpires, Expire
<1>21. CASE UNCHANGED vars
  BY <1>21 DEF vars
<1> QED
  BY <1>1, <1>2, <1>3, <1>4, <1>5, <1>6, <1>7, <1>8, <1>9, <1>10,
     <1>11, <1>12, <1>13, <1>14, <1>15, <1>16, <1>17, <1>18, <1>19,
     <1>20, <1>21
  DEF Next, Step, Quiet

(* No request carries a key issued under another user name.                *)
THEOREM KeyMatchesUserCorrect == Spec => []KeyMatchesUser
<1>1. CallInv => KeyMatchesUser
  BY DEF CallInv
<1> QED BY <1>1, AuthInvInit, AuthInvStep, CallInvInit, CallInvStep, PTL DEF Spec

(* call_api re-authenticates only with an inherited key.                   *)
THEOREM RetryOnlyInheritedCorrect == Spec => []RetryOnlyInherited
<1>1. CallInv => RetryOnlyInherited
  BY DEF CallInv
<1> QED BY <1>1, AuthInvInit, AuthInvStep, CallInvInit, CallInvStep, PTL DEF Spec
------------------------------------------------------------------------------
LEMMA GateInvInit == Init => GateInv /\ GateHolds
  BY DEF Init, GateInv, GateHolds

LEMMA GateInvStep == TypeOK /\ GateInv /\ GateHolds /\ [Next]_vars => GateInv' /\ GateHolds'
<1> SUFFICES ASSUME TypeOK, GateInv, GateHolds, [Next]_vars PROVE GateInv' /\ GateHolds'
  OBVIOUS
<1> USE AuthAssumption DEF TypeOK, AuthTypeOK, GateInv, GateHolds, authVars, session, callVars, gateVars, logVars, Goto, Got
<1>0. requireCaps' = requireCaps
  BY DEF Next, Step, Begin, SplunkExpires, Quiet, vars
<1>1. ASSUME NEW c \in Calls, Begin(c) PROVE GateInv' /\ GateHolds'
  BY <1>0, <1>1 DEF Begin
<1>2. ASSUME NEW c \in Calls, GateOpen(c) PROVE GateInv' /\ GateHolds'
  BY <1>0, <1>2 DEF GateOpen
<1>3. ASSUME NEW c \in Calls, GateShut(c) PROVE GateInv' /\ GateHolds'
  BY <1>0, <1>3 DEF GateShut
<1>4. ASSUME NEW c \in Calls, GateFetch(c) PROVE GateInv' /\ GateHolds'
  BY <1>0, <1>4 DEF GateFetch
<1>5. ASSUME NEW c \in Calls, TokenHeader(c) PROVE GateInv' /\ GateHolds'
  BY <1>0, <1>5 DEF TokenHeader
<1>6. ASSUME NEW c \in Calls, TakeSession(c) PROVE GateInv' /\ GateHolds'
  BY <1>0, <1>6 DEF TakeSession, EnterSession
<1>7. ASSUME NEW c \in Calls, CachedHeader(c) PROVE GateInv' /\ GateHolds'
  BY <1>0, <1>7 DEF CachedHeader, UseCached
<1>8. ASSUME NEW c \in Calls, FreshHeader(c) PROVE GateInv' /\ GateHolds'
  BY <1>0, <1>8 DEF FreshHeader, LoginOk
<1>9. ASSUME NEW c \in Calls, NoHeader(c) PROVE GateInv' /\ GateHolds'
  BY <1>0, <1>9 DEF NoHeader, LoginFails
<1>10. ASSUME NEW c \in Calls, Request(c) PROVE GateInv' /\ GateHolds'
  BY <1>0, <1>10 DEF Request, Answers
<1>11. ASSUME NEW c \in Calls, Reauthenticate(c) PROVE GateInv' /\ GateHolds'
  BY <1>0, <1>11 DEF Reauthenticate, AuthMode
<1>12. ASSUME NEW c \in Calls, Invalidate(c) PROVE GateInv' /\ GateHolds'
  BY <1>0, <1>12 DEF Invalidate, InvalidateSession
<1>13. ASSUME NEW c \in Calls, RejectedToken(c) PROVE GateInv' /\ GateHolds'
  BY <1>0, <1>13 DEF RejectedToken
<1>14. ASSUME NEW c \in Calls, LogToken(c) PROVE GateInv' /\ GateHolds'
  BY <1>0, <1>14 DEF LogToken
<1>15. ASSUME NEW c \in Calls, FlagToken(c) PROVE GateInv' /\ GateHolds'
  BY <1>0, <1>15 DEF FlagToken
<1>16. ASSUME NEW c \in Calls, RejectedPlain(c) PROVE GateInv' /\ GateHolds'
  BY <1>0, <1>16 DEF RejectedPlain
<1>17. ASSUME NEW c \in Calls, ContextFetched(c) PROVE GateInv' /\ GateHolds'
  BY <1>0, <1>17 DEF ContextFetched
<1>18. ASSUME NEW c \in Calls, ContextFailed(c) PROVE GateInv' /\ GateHolds'
  BY <1>0, <1>18 DEF ContextFailed
<1>19. ASSUME NEW c \in Calls, SearchAnswered(c) PROVE GateInv' /\ GateHolds'
  BY <1>0, <1>19 DEF SearchAnswered
<1>20. CASE SplunkExpires
  BY <1>0, <1>20 DEF SplunkExpires, Expire
<1>21. CASE UNCHANGED vars
  BY <1>0, <1>21 DEF vars
<1> QED
  BY <1>1, <1>2, <1>3, <1>4, <1>5, <1>6, <1>7, <1>8, <1>9, <1>10,
     <1>11, <1>12, <1>13, <1>14, <1>15, <1>16, <1>17, <1>18, <1>19,
     <1>20, <1>21
  DEF Next, Step, Quiet

(* The capability gate fails closed and fetches the context once.          *)
THEOREM GateCorrect == Spec => []GateHolds
<1> QED BY TypeInit, TypeStep, GateInvInit, GateInvStep, PTL DEF Spec
-----------------------------------------------------------------------------
(* A token call never leaves its first attempt, and where the rejection of *)
(* its token is reported or flagged the warning was logged before.         *)
TokenInv ==
  /\ \A c \in Calls : ConfigOf[c] \in TokenConfigs =>
       /\ attempt[c] = 1
       /\ pc[c] \notin {"session", "invalidate"}
       /\ pc[c] = "flag" \/ (pc[c] \in {"deliver", "done"} /\ resp[c] = "denied")
            => warnings[ConfigOf[c]] >= 1
  /\ \A c \in Calls : pc[c] \in {"log", "flag"} => ConfigOf[c] \in TokenConfigs
  /\ \A f \in Configs : tokenLogged[f] => warnings[f] >= 1

LEMMA TokenInvStep == TypeOK /\ TokenInv /\ [Next]_vars => TokenInv'
<1> SUFFICES ASSUME TypeOK, TokenInv, [Next]_vars PROVE TokenInv'
  OBVIOUS
<1> USE AuthAssumption DEF TypeOK, TokenInv, authVars, session, callVars, gateVars, logVars, Goto, Got
<1>1. ASSUME NEW c \in Calls, Begin(c) PROVE TokenInv'
  BY <1>1 DEF Begin
<1>2. ASSUME NEW c \in Calls, GateOpen(c) PROVE TokenInv'
  BY <1>2 DEF GateOpen
<1>3. ASSUME NEW c \in Calls, GateShut(c) PROVE TokenInv'
  BY <1>3 DEF GateShut
<1>4. ASSUME NEW c \in Calls, GateFetch(c) PROVE TokenInv'
  BY <1>4 DEF GateFetch
<1>5. ASSUME NEW c \in Calls, TokenHeader(c) PROVE TokenInv'
  BY <1>5 DEF TokenHeader
<1>6. ASSUME NEW c \in Calls, TakeSession(c) PROVE TokenInv'
  BY <1>6 DEF TakeSession, EnterSession
<1>7. ASSUME NEW c \in Calls, CachedHeader(c) PROVE TokenInv'
  BY <1>7 DEF CachedHeader, UseCached
<1>8. ASSUME NEW c \in Calls, FreshHeader(c) PROVE TokenInv'
  BY <1>8 DEF FreshHeader, LoginOk
<1>9. ASSUME NEW c \in Calls, NoHeader(c) PROVE TokenInv'
  BY <1>9 DEF NoHeader, LoginFails
<1>10. ASSUME NEW c \in Calls, Request(c) PROVE TokenInv'
  BY <1>10 DEF Request, Answers
<1>11. ASSUME NEW c \in Calls, Reauthenticate(c) PROVE TokenInv'
  BY <1>11 DEF Reauthenticate, AuthMode
<1>12. ASSUME NEW c \in Calls, Invalidate(c) PROVE TokenInv'
  BY <1>12 DEF Invalidate, InvalidateSession
<1>13. ASSUME NEW c \in Calls, RejectedToken(c) PROVE TokenInv'
  BY <1>13 DEF RejectedToken, AuthMode
<1>14. ASSUME NEW c \in Calls, LogToken(c) PROVE TokenInv'
  BY <1>14 DEF LogToken
<1>15. ASSUME NEW c \in Calls, FlagToken(c) PROVE TokenInv'
  BY <1>15 DEF FlagToken
<1>16. ASSUME NEW c \in Calls, RejectedPlain(c) PROVE TokenInv'
  BY <1>16 DEF RejectedPlain, AuthMode
<1>17. ASSUME NEW c \in Calls, ContextFetched(c) PROVE TokenInv'
  BY <1>17 DEF ContextFetched
<1>18. ASSUME NEW c \in Calls, ContextFailed(c) PROVE TokenInv'
  BY <1>18 DEF ContextFailed
<1>19. ASSUME NEW c \in Calls, SearchAnswered(c) PROVE TokenInv'
  BY <1>19 DEF SearchAnswered
<1>20. CASE SplunkExpires
  BY <1>20 DEF SplunkExpires, Expire
<1>21. CASE UNCHANGED vars
  BY <1>21 DEF vars
<1> QED
  BY <1>1, <1>2, <1>3, <1>4, <1>5, <1>6, <1>7, <1>8, <1>9, <1>10,
     <1>11, <1>12, <1>13, <1>14, <1>15, <1>16, <1>17, <1>18, <1>19,
     <1>20, <1>21
  DEF Next, Step, Quiet

(* A rejected token is not retried, and is in the log before any call      *)
(* reports the rejection, whatever the races over the flag.                *)
THEOREM TokenRejectionCorrect == Spec => []TokenRejection
<1>1. Init => TokenInv
  BY AuthAssumption DEF Init, TokenInv
<1>2. TokenInv => TokenRejection
  BY DEF TokenInv, TokenRejection
<1> QED BY <1>1, <1>2, TypeInit, TypeStep, TokenInvStep, PTL DEF Spec
------------------------------------------------------------------------------
(* A process with at most one configuration in password mode.              *)
OneConfig == \A f, g \in Configs \ TokenConfigs : f = g

LEMMA NeverRetries ==
  ASSUME OneConfig, AuthInv, CallInv, NEW c \in Calls
  PROVE  pc[c] # "invalidate"
<1> SUFFICES ASSUME pc[c] = "invalidate" PROVE FALSE
  OBVIOUS
<1>1. ConfigOf[c] \in Configs \ TokenConfigs
  BY AuthAssumption DEF CallInv, HeaderInv
<1>2. header[c] \in Keys
  BY <1>1 DEF CallInv, HeaderInv
<1>3. issuer[header[c]] # None /\ issuer[header[c]] # ConfigOf[c]
  BY <1>2 DEF CallInv, KeyMatchesUser, RetryOnlyInherited
<1>4. issuer[header[c]] \in Configs \ TokenConfigs
  BY <1>2, <1>3 DEF AuthInv, TypeOK, AuthTypeOK, IssuerInv
<1> QED BY <1>1, <1>3, <1>4 DEF OneConfig

(* A step that leaves every header alone leaves the keys sent alone.       *)
LEMMA SentKeyFrame ==
  ASSUME header' = header
  PROVE  SentKey' = SentKey
BY DEF SentKey, PasswordCalls

(* A step that sets one header sets that call's key, if it is in password  *)
(* mode.                                                                   *)
LEMMA SentKeyExcept ==
  ASSUME TypeOK, NEW c \in PasswordCalls, NEW k, header' = [header EXCEPT ![c] = k]
  PROVE  SentKey' = [SentKey EXCEPT ![c] = k]
<1>1. header \in [Calls -> Keys \cup {Token, None}] /\ c \in Calls
  BY DEF TypeOK, PasswordCalls
<1>2. \A d \in Calls : header'[d] = IF d = c THEN k ELSE header[d]
  BY <1>1
<1> QED BY <1>1, <1>2 DEF SentKey, PasswordCalls

(* A step that sets the header of a token call sets no key.                *)
LEMMA SentKeyOther ==
  ASSUME TypeOK, NEW c \in Calls \ PasswordCalls, NEW k, header' = [header EXCEPT ![c] = k]
  PROVE  SentKey' = SentKey
<1>1. header \in [Calls -> Keys \cup {Token, None}]
  BY DEF TypeOK
<1>2. \A d \in PasswordCalls : header'[d] = header[d]
  BY <1>1 DEF PasswordCalls
<1> QED BY <1>2 DEF SentKey, PasswordCalls

LEMMA SingleStep ==
  ASSUME OneConfig, AuthInv, CallInv, [Next]_vars
  PROVE  [SS!Next]_<<sessionKey, SentKey>>
<1> USE AuthAssumption DEF AuthInv, TypeOK, AuthTypeOK, authVars, session, callVars, gateVars, logVars, Goto, Got
<1>1. ASSUME NEW c \in Calls, Begin(c) PROVE [SS!Next]_<<sessionKey, SentKey>>
  <2>1. UNCHANGED <<sessionKey, header>>
    BY <1>1 DEF Begin
  <2> QED BY <2>1, SentKeyFrame
<1>2. ASSUME NEW c \in Calls, GateOpen(c) PROVE [SS!Next]_<<sessionKey, SentKey>>
  <2>1. UNCHANGED <<sessionKey, header>>
    BY <1>2 DEF GateOpen
  <2> QED BY <2>1, SentKeyFrame
<1>3. ASSUME NEW c \in Calls, GateShut(c) PROVE [SS!Next]_<<sessionKey, SentKey>>
  <2>1. UNCHANGED <<sessionKey, header>>
    BY <1>3 DEF GateShut
  <2> QED BY <2>1, SentKeyFrame
<1>4. ASSUME NEW c \in Calls, GateFetch(c) PROVE [SS!Next]_<<sessionKey, SentKey>>
  <2>1. UNCHANGED <<sessionKey, header>>
    BY <1>4 DEF GateFetch
  <2> QED BY <2>1, SentKeyFrame
<1>5. ASSUME NEW c \in Calls, TokenHeader(c) PROVE [SS!Next]_<<sessionKey, SentKey>>
  <2>1. c \notin PasswordCalls /\ header' = [header EXCEPT ![c] = Token]
    BY <1>5 DEF TokenHeader, PasswordCalls
  <2>2. SentKey' = SentKey
    BY <2>1, SentKeyOther
  <2>3. sessionKey' = sessionKey
    BY <1>5 DEF TokenHeader
  <2> QED BY <2>2, <2>3
<1>6. ASSUME NEW c \in Calls, TakeSession(c) PROVE [SS!Next]_<<sessionKey, SentKey>>
  <2>1. header' = header
    BY <1>6 DEF TakeSession
  <2>2. sessionKey # None => sessionUser = UserOf[ConfigOf[c]]
    <3> SUFFICES ASSUME sessionKey # None PROVE sessionUser = UserOf[ConfigOf[c]]
      OBVIOUS
    <3>1. sessionKey \in Keys /\ issuer[sessionKey] # None
          /\ UserOf[issuer[sessionKey]] = sessionUser
      BY DEF CacheInv
    <3>2. issuer[sessionKey] \in Configs \ TokenConfigs
      BY <3>1 DEF IssuerInv
    <3>3. ConfigOf[c] \in Configs \ TokenConfigs
      BY <1>6 DEF TakeSession
    <3> QED BY <3>1, <3>2, <3>3 DEF OneConfig
  <2>3. sessionKey' = sessionKey
    BY <1>6, <2>2 DEF TakeSession, EnterSession
  <2> QED BY <2>1, <2>3, SentKeyFrame
<1>7. ASSUME NEW c \in Calls, CachedHeader(c) PROVE [SS!Next]_<<sessionKey, SentKey>>
  <2>1. c \in PasswordCalls
    BY <1>7 DEF CachedHeader, SessionInv, PasswordCalls
  <2>2. /\ sessionKey # None /\ sessionKey' = sessionKey
        /\ header' = [header EXCEPT ![c] = sessionKey]
    BY <1>7 DEF CachedHeader, UseCached
  <2>3. SentKey' = [SentKey EXCEPT ![c] = sessionKey]
    BY <2>1, <2>2, SentKeyExcept
  <2>4. SS!Use(c)
    BY <2>2, <2>3 DEF SS!Use
  <2> QED BY <2>1, <2>4 DEF SS!Next
<1>8. ASSUME NEW c \in Calls, FreshHeader(c) PROVE [SS!Next]_<<sessionKey, SentKey>>
  <2>1. PICK k \in Keys : LoginOk(c, k) /\ header' = [header EXCEPT ![c] = k]
    BY <1>8 DEF FreshHeader
  <2>2. c \in PasswordCalls
    BY <1>8 DEF FreshHeader, SessionInv, PasswordCalls
  <2>3. SentKey' = [SentKey EXCEPT ![c] = k]
    BY <2>1, <2>2, SentKeyExcept
  <2>4. SS!Login(c, k)
    BY <2>1, <2>3 DEF LoginOk, SS!Login
  <2> QED BY <2>2, <2>4 DEF SS!Next
<1>9. ASSUME NEW c \in Calls, NoHeader(c) PROVE [SS!Next]_<<sessionKey, SentKey>>
  <2>1. UNCHANGED <<sessionKey, header>>
    BY <1>9 DEF NoHeader, LoginFails
  <2> QED BY <2>1, SentKeyFrame
<1>10. ASSUME NEW c \in Calls, Request(c) PROVE [SS!Next]_<<sessionKey, SentKey>>
  <2>1. UNCHANGED <<sessionKey, header>>
    BY <1>10 DEF Request
  <2> QED BY <2>1, SentKeyFrame
<1>11. ASSUME NEW c \in Calls, Reauthenticate(c) PROVE [SS!Next]_<<sessionKey, SentKey>>
  <2>1. UNCHANGED <<sessionKey, header>>
    BY <1>11 DEF Reauthenticate
  <2> QED BY <2>1, SentKeyFrame
<1>12. ASSUME NEW c \in Calls, Invalidate(c) PROVE [SS!Next]_<<sessionKey, SentKey>>
  BY <1>12, NeverRetries DEF Invalidate
<1>13. ASSUME NEW c \in Calls, RejectedToken(c) PROVE [SS!Next]_<<sessionKey, SentKey>>
  <2>1. UNCHANGED <<sessionKey, header>>
    BY <1>13 DEF RejectedToken
  <2> QED BY <2>1, SentKeyFrame
<1>14. ASSUME NEW c \in Calls, LogToken(c) PROVE [SS!Next]_<<sessionKey, SentKey>>
  <2>1. UNCHANGED <<sessionKey, header>>
    BY <1>14 DEF LogToken
  <2> QED BY <2>1, SentKeyFrame
<1>15. ASSUME NEW c \in Calls, FlagToken(c) PROVE [SS!Next]_<<sessionKey, SentKey>>
  <2>1. UNCHANGED <<sessionKey, header>>
    BY <1>15 DEF FlagToken
  <2> QED BY <2>1, SentKeyFrame
<1>16. ASSUME NEW c \in Calls, RejectedPlain(c) PROVE [SS!Next]_<<sessionKey, SentKey>>
  <2>1. UNCHANGED <<sessionKey, header>>
    BY <1>16 DEF RejectedPlain
  <2> QED BY <2>1, SentKeyFrame
<1>17. ASSUME NEW c \in Calls, ContextFetched(c) PROVE [SS!Next]_<<sessionKey, SentKey>>
  <2>1. sessionKey' = sessionKey
    BY <1>17 DEF ContextFetched
  <2>2. header' = [header EXCEPT ![c] = None] \/ header' = header
    BY <1>17 DEF ContextFetched
  <2>3. CASE header' = [header EXCEPT ![c] = None] /\ c \in PasswordCalls
    <3>1. SentKey' = [SentKey EXCEPT ![c] = None]
      BY <2>3, SentKeyExcept
    <3>2. SS!Forget(c)
      BY <2>1, <3>1 DEF SS!Forget
    <3> QED BY <2>3, <3>2 DEF SS!Next
  <2>4. CASE header' = [header EXCEPT ![c] = None] /\ c \notin PasswordCalls
    BY <2>1, <2>4, SentKeyOther
  <2>5. CASE header' = header
    BY <2>1, <2>5, SentKeyFrame
  <2> QED BY <2>2, <2>3, <2>4, <2>5
<1>18. ASSUME NEW c \in Calls, ContextFailed(c) PROVE [SS!Next]_<<sessionKey, SentKey>>
  <2>1. UNCHANGED <<sessionKey, header>>
    BY <1>18 DEF ContextFailed
  <2> QED BY <2>1, SentKeyFrame
<1>19. ASSUME NEW c \in Calls, SearchAnswered(c) PROVE [SS!Next]_<<sessionKey, SentKey>>
  <2>1. UNCHANGED <<sessionKey, header>>
    BY <1>19 DEF SearchAnswered
  <2> QED BY <2>1, SentKeyFrame
<1>20. CASE SplunkExpires
  <2>1. UNCHANGED <<sessionKey, header>>
    BY <1>20 DEF SplunkExpires, Expire
  <2> QED BY <2>1, SentKeyFrame
<1>21. CASE UNCHANGED vars
  <2>1. UNCHANGED <<sessionKey, header>>
    BY <1>21 DEF vars
  <2> QED BY <2>1, SentKeyFrame
<1> QED
  BY <1>1, <1>2, <1>3, <1>4, <1>5, <1>6, <1>7, <1>8, <1>9, <1>10,
     <1>11, <1>12, <1>13, <1>14, <1>15, <1>16, <1>17, <1>18, <1>19,
     <1>20, <1>21
  DEF Next, Step, Quiet

(* After the first login the process has that session for the rest of its  *)
(* life: the detailed client implements SingleSession.                     *)
THEOREM Refinement ==
  ASSUME OneConfig
  PROVE  Spec => OneSession
<1>1. Init => SS!Init
  BY DEF Init, AuthInit, SS!Init, SentKey, PasswordCalls
<1>2. AuthInv /\ CallInv /\ [Next]_vars => [SS!Next]_<<sessionKey, SentKey>>
  BY SingleStep
<1> QED
  BY <1>1, <1>2, AuthInvInit, AuthInvStep, CallInvInit, CallInvStep, PTL
  DEF Spec, OneSession, SS!Spec

(* The server has one configuration, and there no call ever makes a second *)
(* attempt: the retry of call_api on 401/403 in password mode runs only in *)
(* the wizard, where an earlier probe left its key in the cache.           *)
THEOREM NoRetryInOneConfig ==
  ASSUME OneConfig
  PROVE  Spec => [](\A c \in Calls : attempt[c] = 1)
<1> DEFINE Once == \A c \in Calls : attempt[c] = 1
<1>1. Init => Once
  BY DEF Init
<1>2. AuthInv /\ CallInv /\ Once /\ [Next]_vars => Once'
  <2> SUFFICES ASSUME AuthInv, CallInv, Once, [Next]_vars PROVE Once'
    OBVIOUS
  <2>1. attempt \in [Calls -> {1, 2}]
    BY DEF AuthInv, TypeOK
  <2>2. \A c \in Calls : ~Invalidate(c)
    BY NeverRetries DEF Invalidate
  <2>3. ASSUME NEW c \in Calls, ContextFetched(c) PROVE Once'
    BY <2>1, <2>3 DEF ContextFetched
  <2>4. CASE attempt' = attempt
    BY <2>4
  <2>5. attempt' = attempt \/ \E c \in Calls : Invalidate(c) \/ ContextFetched(c)
    BY DEF Next, Begin, Step, GateOpen, GateShut, GateFetch, TokenHeader, TakeSession, CachedHeader,
           FreshHeader, NoHeader, Request, Reauthenticate, RejectedToken, LogToken, FlagToken,
           RejectedPlain, ContextFailed, SearchAnswered, SplunkExpires, Quiet, vars, callVars
  <2> QED BY <2>2, <2>3, <2>4, <2>5
<1> QED BY <1>1, <1>2, AuthInvInit, AuthInvStep, CallInvInit, CallInvStep, PTL DEF Spec
------------------------------------------------------------------------------
LEMMA LockInvInit == Init => LockInv
  BY AuthAssumption DEF Init, AuthInit, LockInv

LEMMA LockInvStep == TypeOK /\ LockInv /\ [Next]_vars => LockInv'
<1> SUFFICES ASSUME TypeOK, LockInv, [Next]_vars PROVE LockInv'
  OBVIOUS
<1> USE AuthAssumption DEF TypeOK, AuthTypeOK, LockInv, authVars, session, callVars, gateVars, logVars, Goto, Got
<1>1. ASSUME NEW c \in Calls, Begin(c) PROVE LockInv'
  BY <1>1 DEF Begin
<1>2. ASSUME NEW c \in Calls, GateOpen(c) PROVE LockInv'
  BY <1>2 DEF GateOpen
<1>3. ASSUME NEW c \in Calls, GateShut(c) PROVE LockInv'
  BY <1>3 DEF GateShut
<1>4. ASSUME NEW c \in Calls, GateFetch(c) PROVE LockInv'
  BY <1>4 DEF GateFetch
<1>5. ASSUME NEW c \in Calls, TokenHeader(c) PROVE LockInv'
  BY <1>5 DEF TokenHeader
<1>6. ASSUME NEW c \in Calls, TakeSession(c) PROVE LockInv'
  BY <1>6 DEF TakeSession, EnterSession
<1>7. ASSUME NEW c \in Calls, CachedHeader(c) PROVE LockInv'
  BY <1>7 DEF CachedHeader, UseCached
<1>8. ASSUME NEW c \in Calls, FreshHeader(c) PROVE LockInv'
  BY <1>8 DEF FreshHeader, LoginOk
<1>9. ASSUME NEW c \in Calls, NoHeader(c) PROVE LockInv'
  BY <1>9 DEF NoHeader, LoginFails
<1>10. ASSUME NEW c \in Calls, Request(c) PROVE LockInv'
  BY <1>10 DEF Request, Answers
<1>11. ASSUME NEW c \in Calls, Reauthenticate(c) PROVE LockInv'
  BY <1>11 DEF Reauthenticate, AuthMode
<1>12. ASSUME NEW c \in Calls, Invalidate(c) PROVE LockInv'
  BY <1>12 DEF Invalidate, InvalidateSession
<1>13. ASSUME NEW c \in Calls, RejectedToken(c) PROVE LockInv'
  BY <1>13 DEF RejectedToken
<1>14. ASSUME NEW c \in Calls, LogToken(c) PROVE LockInv'
  BY <1>14 DEF LogToken
<1>15. ASSUME NEW c \in Calls, FlagToken(c) PROVE LockInv'
  BY <1>15 DEF FlagToken
<1>16. ASSUME NEW c \in Calls, RejectedPlain(c) PROVE LockInv'
  BY <1>16 DEF RejectedPlain
<1>17. ASSUME NEW c \in Calls, ContextFetched(c) PROVE LockInv'
  BY <1>17 DEF ContextFetched
<1>18. ASSUME NEW c \in Calls, ContextFailed(c) PROVE LockInv'
  BY <1>18 DEF ContextFailed
<1>19. ASSUME NEW c \in Calls, SearchAnswered(c) PROVE LockInv'
  BY <1>19 DEF SearchAnswered
<1>20. CASE SplunkExpires
  BY <1>20 DEF SplunkExpires, Expire
<1>21. CASE UNCHANGED vars
  BY <1>21 DEF vars
<1> QED
  BY <1>1, <1>2, <1>3, <1>4, <1>5, <1>6, <1>7, <1>8, <1>9, <1>10,
     <1>11, <1>12, <1>13, <1>14, <1>15, <1>16, <1>17, <1>18, <1>19,
     <1>20, <1>21
  DEF Next, Step, Quiet

(* The chain of waits ends: at the holder of the session's lock if there   *)
(* is one, else at the holder of the gate's.                               *)
LEMMA WaitsEnd == TypeOK /\ LockInv => NoDeadlock
<1> SUFFICES ASSUME TypeOK, LockInv, UnderWay # {}, \A c \in UnderWay : Waiting(c)
             PROVE  FALSE
  BY DEF NoDeadlock
<1>1. sessionLock = None
  <2>1. SUFFICES ASSUME sessionLock \in Calls PROVE FALSE
    BY DEF TypeOK, AuthTypeOK
  <2>2. pc[sessionLock] = "session"
    BY <2>1 DEF LockInv
  <2> QED BY <2>1, <2>2 DEF UnderWay, Waiting
<1>2. capLock # None
  BY <1>1 DEF Waiting, UnderWay
<1>3. capLock \in UnderWay /\ pc[capLock] # "gate"
  BY <1>2 DEF TypeOK, LockInv, UnderWay
<1> QED BY <1>1, <1>3 DEF Waiting

(* No reachable state has every call under way wait for a lock, for any    *)
(* number of calls of password, token or mixed configurations: the gate's  *)
(* lock is taken before the session's and never after it.                  *)
THEOREM NoDeadlockCorrect == Spec => []NoDeadlock
<1> QED BY TypeInit, TypeStep, LockInvInit, LockInvStep, WaitsEnd, PTL DEF Spec
------------------------------------------------------------------------------
LEMMA StepsLeftNat == TypeOK => \A c \in Calls : StepsLeft(c) \in Nat
  BY DEF TypeOK, StepsLeft

LEMMA Descent ==
  ASSUME TypeOK, [Next]_vars, NEW d \in Calls
  PROVE  \/ UNCHANGED <<pc[d], purpose[d], attempt[d], header[d], resp[d]>>
         \/ StepsLeft(d)' < StepsLeft(d)
<1> DEFINE Rests(e) == UNCHANGED <<pc[e], purpose[e], attempt[e], header[e], resp[e]>>
           Falls(e) == StepsLeft(e)' < StepsLeft(e)
<1> USE DEF TypeOK, StepsLeft, callVars, Goto, Got
<1>1. ASSUME NEW c \in Calls, Begin(c) PROVE Rests(d) \/ Falls(d)
  BY <1>1 DEF Begin
<1>2. ASSUME NEW c \in Calls, GateOpen(c) PROVE Rests(d) \/ Falls(d)
  BY <1>2 DEF GateOpen
<1>3. ASSUME NEW c \in Calls, GateShut(c) PROVE Rests(d) \/ Falls(d)
  BY <1>3 DEF GateShut
<1>4. ASSUME NEW c \in Calls, GateFetch(c) PROVE Rests(d) \/ Falls(d)
  BY <1>4 DEF GateFetch
<1>5. ASSUME NEW c \in Calls, TokenHeader(c) PROVE Rests(d) \/ Falls(d)
  BY <1>5 DEF TokenHeader
<1>6. ASSUME NEW c \in Calls, TakeSession(c) PROVE Rests(d) \/ Falls(d)
  BY <1>6 DEF TakeSession, EnterSession
<1>7. ASSUME NEW c \in Calls, CachedHeader(c) PROVE Rests(d) \/ Falls(d)
  BY <1>7 DEF CachedHeader, UseCached
<1>8. ASSUME NEW c \in Calls, FreshHeader(c) PROVE Rests(d) \/ Falls(d)
  BY <1>8 DEF FreshHeader, LoginOk
<1>9. ASSUME NEW c \in Calls, NoHeader(c) PROVE Rests(d) \/ Falls(d)
  BY <1>9 DEF NoHeader, LoginFails
<1>10. ASSUME NEW c \in Calls, Request(c) PROVE Rests(d) \/ Falls(d)
  BY <1>10 DEF Request, Answers
<1>11. ASSUME NEW c \in Calls, Reauthenticate(c) PROVE Rests(d) \/ Falls(d)
  BY <1>11 DEF Reauthenticate, AuthMode
<1>12. ASSUME NEW c \in Calls, Invalidate(c) PROVE Rests(d) \/ Falls(d)
  BY <1>12 DEF Invalidate, InvalidateSession
<1>13. ASSUME NEW c \in Calls, RejectedToken(c) PROVE Rests(d) \/ Falls(d)
  BY <1>13 DEF RejectedToken
<1>14. ASSUME NEW c \in Calls, LogToken(c) PROVE Rests(d) \/ Falls(d)
  BY <1>14 DEF LogToken
<1>15. ASSUME NEW c \in Calls, FlagToken(c) PROVE Rests(d) \/ Falls(d)
  BY <1>15 DEF FlagToken
<1>16. ASSUME NEW c \in Calls, RejectedPlain(c) PROVE Rests(d) \/ Falls(d)
  BY <1>16 DEF RejectedPlain
<1>17. ASSUME NEW c \in Calls, ContextFetched(c) PROVE Rests(d) \/ Falls(d)
  BY <1>17 DEF ContextFetched
<1>18. ASSUME NEW c \in Calls, ContextFailed(c) PROVE Rests(d) \/ Falls(d)
  BY <1>18 DEF ContextFailed
<1>19. ASSUME NEW c \in Calls, SearchAnswered(c) PROVE Rests(d) \/ Falls(d)
  BY <1>19 DEF SearchAnswered
<1>20. CASE SplunkExpires
  BY <1>20 DEF SplunkExpires, Expire
<1>21. CASE UNCHANGED vars
  BY <1>21 DEF vars
<1> QED
  BY <1>1, <1>2, <1>3, <1>4, <1>5, <1>6, <1>7, <1>8, <1>9, <1>10,
     <1>11, <1>12, <1>13, <1>14, <1>15, <1>16, <1>17, <1>18, <1>19,
     <1>20, <1>21
  DEF Next, Step, Quiet

(* A call makes at most StepsLeft steps of its own, nineteen once it has   *)
(* begun, whatever Splunk answers and whatever the other calls do: the     *)
(* retry and the gate cannot loop (call_api).                              *)
THEOREM CallDescendsCorrect ==
  Spec => CallDescends /\ [](\A c \in Calls : StepsLeft(c) \in Nat)
<1>1. TypeOK /\ [Next]_vars =>
        [\A c \in Calls : \/ UNCHANGED <<pc[c], purpose[c], attempt[c], header[c], resp[c]>>
                          \/ StepsLeft(c)' < StepsLeft(c)]_vars
  BY Descent
<1> QED BY <1>1, TypeCorrect, StepsLeftNat, PTL DEF Spec, CallDescends
------------------------------------------------------------------------------
LEMMA AnswerInvStep ==
  ASSUME \A f, g \in Configs : UserOf[f] = UserOf[g] => f = g,
         AuthInv, CallInv, AnswerInv, [Next]_vars
  PROVE  AnswerInv'
<1> USE AuthAssumption, GateAssumption DEF AuthInv, TypeOK, AuthTypeOK, CallInv, HeaderInv,
      KeyMatchesUser, AnswerInv, Response, authVars, session, callVars, gateVars, logVars, Goto, Got
<1>1. ASSUME NEW c \in Calls, Begin(c) PROVE AnswerInv'
  BY <1>1 DEF Begin
<1>2. ASSUME NEW c \in Calls, GateOpen(c) PROVE AnswerInv'
  BY <1>2 DEF GateOpen
<1>3. ASSUME NEW c \in Calls, GateShut(c) PROVE AnswerInv'
  BY <1>3 DEF GateShut
<1>4. ASSUME NEW c \in Calls, GateFetch(c) PROVE AnswerInv'
  BY <1>4 DEF GateFetch
<1>5. ASSUME NEW c \in Calls, TokenHeader(c) PROVE AnswerInv'
  BY <1>5 DEF TokenHeader
<1>6. ASSUME NEW c \in Calls, TakeSession(c) PROVE AnswerInv'
  BY <1>6 DEF TakeSession, EnterSession
<1>7. ASSUME NEW c \in Calls, CachedHeader(c) PROVE AnswerInv'
  BY <1>7 DEF CachedHeader, UseCached
<1>8. ASSUME NEW c \in Calls, FreshHeader(c) PROVE AnswerInv'
  BY <1>8 DEF FreshHeader, LoginOk
<1>9. ASSUME NEW c \in Calls, NoHeader(c) PROVE AnswerInv'
  BY <1>9 DEF NoHeader, LoginFails
<1>10. ASSUME NEW c \in Calls, Request(c) PROVE AnswerInv'
  BY <1>10 DEF Request, Answers
<1>11. ASSUME NEW c \in Calls, Reauthenticate(c) PROVE AnswerInv'
  BY <1>11 DEF Reauthenticate, AuthMode
<1>12. ASSUME NEW c \in Calls, Invalidate(c) PROVE AnswerInv'
  BY <1>12 DEF Invalidate, InvalidateSession
<1>13. ASSUME NEW c \in Calls, RejectedToken(c) PROVE AnswerInv'
  BY <1>13 DEF RejectedToken
<1>14. ASSUME NEW c \in Calls, LogToken(c) PROVE AnswerInv'
  BY <1>14 DEF LogToken
<1>15. ASSUME NEW c \in Calls, FlagToken(c) PROVE AnswerInv'
  BY <1>15 DEF FlagToken
<1>16. ASSUME NEW c \in Calls, RejectedPlain(c) PROVE AnswerInv'
  BY <1>16 DEF RejectedPlain
<1>17. ASSUME NEW c \in Calls, ContextFetched(c) PROVE AnswerInv'
  BY <1>17 DEF ContextFetched
<1>18. ASSUME NEW c \in Calls, ContextFailed(c) PROVE AnswerInv'
  BY <1>18 DEF ContextFailed
<1>19. ASSUME NEW c \in Calls, SearchAnswered(c) PROVE AnswerInv'
  BY <1>19 DEF SearchAnswered
<1>20. CASE SplunkExpires
  BY <1>20 DEF SplunkExpires, Expire
<1>21. CASE UNCHANGED vars
  BY <1>21 DEF vars
<1> QED
  BY <1>1, <1>2, <1>3, <1>4, <1>5, <1>6, <1>7, <1>8, <1>9, <1>10,
     <1>11, <1>12, <1>13, <1>14, <1>15, <1>16, <1>17, <1>18, <1>19,
     <1>20, <1>21
  DEF Next, Step, Quiet

(* The probe's promise holds when no two configurations of the process     *)
(* have one user name: a 200 then answers a key that was issued for the    *)
(* password just entered.  The wizard lets the user correct a password     *)
(* under the same name, and there the session cache of auth.py breaks it.  *)
THEOREM ProbeHonestIfDistinct ==
  ASSUME \A f, g \in Configs : UserOf[f] = UserOf[g] => f = g
  PROVE  Spec => []ProbeHonest
<1>1. Init => AnswerInv
  BY AuthAssumption, GateAssumption DEF Init, AuthInit, AnswerInv, Response
<1>2. AuthInv /\ CallInv /\ AnswerInv /\ [Next]_vars => AnswerInv'
  BY AnswerInvStep
<1>3. AnswerInv => ProbeHonest
  BY DEF AnswerInv, ProbeHonest
<1> QED BY <1>1, <1>2, <1>3, AuthInvInit, AuthInvStep, CallInvInit, CallInvStep, PTL DEF Spec
=============================================================================
