CONSTANTS
  n1 = n1
  n2 = n2
  Names <- MCNames
  MaxRuns = 2
  MaxProbes = 2
  MaxRenames = 2
SPECIFICATION Spec
INVARIANTS
  RotationTakesEffect
