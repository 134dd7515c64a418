SPECIFICATION MCSpec
CONSTANTS
  api = api
  web = web
  s1 = s1
  s2 = s2
  s3 = s3
  client = client
  Ids <- MCIds
  Settings <- MCSettings
  Ports <- MCPorts
  Domain <- MCDomain
  Secured <- MCSecured
  HostsFile = TRUE
  None = None
INVARIANT PreferenceRemembered
