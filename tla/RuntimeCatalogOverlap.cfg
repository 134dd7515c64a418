SPECIFICATION Spec
CONSTANTS
  c1 = c1
  c2 = c2
  Checks <- MCTwoChecks
  MaxSequence = 2
  MaxCrashes = 0
  Nothing = Nothing
INVARIANT SequenceNeverFalls
