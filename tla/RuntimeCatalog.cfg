SPECIFICATION Spec
CONSTANTS
  c1 = c1
  c2 = c2
  Checks <- MCOneCheck
  MaxSequence = 3
  MaxCrashes = 2
  Nothing = Nothing
INVARIANTS
  TypeOK
  AcceptedHolds
PROPERTY AcceptanceAdvances
