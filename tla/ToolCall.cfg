CONSTANTS
  a1 = a1
  a2 = a2
  plain = plain
  bad = bad
  inner = inner
  outer = outer
  mixed = mixed
  None = None
  NoName = None
  Texts <- MCTexts
  Names <- MCNames
  Safe <- MCSafe
  Nesting <- MCNesting
  Parse <- MCParse
  Apps <- MCApps
  RowLimitArgs <- MCRowLimitArgs
  RowCounts <- MCRowCounts
  MaxRows = 2
  DefaultRows = 3
  DefaultWindow = TRUE
  RequireCaps = TRUE
SPECIFICATION Spec
INVARIANTS
  TypeOK
  NoSilentTruncation
  HonestTotals
  SavedSearchVetted
  OnlySafeCommands
  BlockJustified
PROPERTIES
  Implements
