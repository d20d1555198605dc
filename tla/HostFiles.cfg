CONSTANTS
  w1 = w1
  w2 = w2
  n1 = n1
  n2 = n2
  n3 = n3
  byTest = byTest
  byUser = byUser
  other = other
  r = r
  Scalar = Scalar
  NoEntry = NoEntry
  NoRest = NoRest
  Names = {n1, n2, n3}
  ValidNames = {n1, n2}
  Launches = {byTest, byUser, other}
  Foreign <- MCForeign
  EditShapes = {"undecodable"}
  Rests = {r, NoRest}
  Runs = {w1, w2}
  TestRun = w2
  TestName = n2
  LaunchOf <- MCLaunchOf
  MaxRenames = 2
  MaxSecond = 1
  MaxEdits = 1
  InitFiles <- MCInitFiles
  Kinds = {"json", "cli"}
SPECIFICATION Spec
INVARIANTS
  TypeOK
  BackupKeepsDisplaced
  TestRestores
  NeverStuck
PROPERTIES
  NoSiblingLost
  OverwriteAsked
  RunsDescend
