SPECIFICATION Spec
CONSTANTS
  s1 = s1
  s2 = s2
  d1 = d1
  d2 = d2
  r1 = r1
  r2 = r2
  t1 = t1
  t2 = t2
  p1 = p1
  Ids <- TwoSites
  Domains <- TwoDomains
  Roots <- TwoRoots
  Timeouts <- OneTimeout
  Php <- OnePhp
  NoPhp = NoPhp
  None = None
  NoJob = NoJob
  OneWreck = TRUE
SYMMETRY Alike
INVARIANTS
  TypeOK
  ServedAsConfigured
  SharedCurrent
  HostsFollow
