SPECIFICATION Spec
CONSTANTS
  c1 = c1
  c2 = c2
  Checks <- MCOneCheck
  MaxSequence = 2
  MaxCrashes = 1
  Nothing = Nothing
PROPERTY NeverBackToV1
