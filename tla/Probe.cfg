CONSTANTS
  c1 = c1
  c2 = c2
  c3 = c3
  c4 = c4
  c5 = c5
  f1 = f1
  f2 = f2
  f3 = f3
  u1 = u1
  u2 = u2
  k1 = k1
  k2 = k2
  k3 = k3
  None = None
  Token = Token
  Calls <- MCCalls
  Keys <- MCKeys
  Configs <- ProbeConfigs
  ConfigOf <- ProbeConfigOf
  UserOf <- ProbeUserOf
  TokenConfigs <- NoConfigs
  GateSettings = {FALSE}
  Concurrent = FALSE
  Correct <- ProbeCorrect
SYMMETRY KeySymmetry
SPECIFICATION Spec
INVARIANTS
  KeyMatchesUser
  RetryOnlyInherited
