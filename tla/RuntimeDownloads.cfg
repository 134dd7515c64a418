SPECIFICATION Spec
CONSTANTS
  o1 = o1
  o2 = o2
  o3 = o3
  php = php
  node = node
  NoOp = NoOp
  Ops <- MCOps
  Keys <- MCKeys
  Identity <- MCIdentity
  MaxOperations = 2
INVARIANTS
  TypeOK
  SingleInstaller
  NothingLiveForgotten
  RegistryBounded
  ShutdownQuiesces
  OverlapOnlyInCleanup
PROPERTIES
  CancelIsFinal
  PublishedSpec
  CancellationsEnd
\* Every request is optional: with all ids used the registry may stand still.
CHECK_DEADLOCK FALSE
