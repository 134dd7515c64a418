SPECIFICATION Spec
CONSTANTS
  v1 = v1
  v2 = v2
  p1 = p1
  p2 = p2
  l1 = l1
  Versions <- MCVersions
  Catalog <- MCCatalog
  Local <- MCLocal
  Bundled <- MCBundled
  BundledPackage = l1
  Absent = Absent
  Torn = Torn
  Scraps = Scraps
  NoVersion = NoVersion
  NoJob = NoJob
  AtomicSwitch = FALSE
SYMMETRY Alike
INVARIANTS
  TypeOK
  NothingLost
  UpdatesNotBlocked
  ActiveLinkValid
PROPERTY StoreSpec
\* Between two requests the directories may stand still.
CHECK_DEADLOCK FALSE
