CONSTANTS
  c1 = c1
  c2 = c2
  c3 = c3
  c4 = c4
  c5 = c5
  f1 = f1
  f2 = f2
  f3 = f3
  u1 = u1
  u2 = u2
  k1 = k1
  k2 = k2
  k3 = k3
  None = None
  Token = Token
  Calls <- ServerCalls
  Keys <- MCKeys
  Configs <- ServerConfigs
  ConfigOf <- ServerConfigOf
  UserOf <- ServerUserOf
  Concurrent = TRUE
  TokenConfigs <- ServerTokens
  Correct <- ServerConfigs
  GateSettings = {TRUE, FALSE}
SPECIFICATION FairSpec
INVARIANTS
  TypeOK
  OneLogin
  GateHolds
  TokenRejection
  NoDeadlock
PROPERTIES
  OneSession
  CallsEnd
  CallDescends
