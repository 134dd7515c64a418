SPECIFICATION Spec
CONSTANTS
  d1 = d1
  d2 = d2
  c1 = c1
  c2 = c2
  p1 = p1
  p2 = p2
  s1 = s1
  s2 = s2
  u1 = u1
  u2 = u2
  h1 = h1
  h2 = h2
  template = template
  beyond = beyond
  bad = bad
  linked = linked
  None = None
INVARIANTS
  TypeOK
  DatabaseAsSaved
  StopsWhole
  FailedChangesUndone
  ServedAsSaved
  TerminalWorks
  UserDataKept
  DomainsWork
  PhpIsThere
  DownloadsVerified
PROPERTY AsAsked
