SPECIFICATION Spec
CONSTANTS
  o1 = o1
  o2 = o2
  o3 = o3
  php = php
  node = node
  NoOp = NoOp
  Ops <- MCOps
  Keys <- MCKeys
  Identity <- MCIdentity
  MaxOperations = 2
INVARIANT OneWorkerPerRuntime
CHECK_DEADLOCK FALSE
