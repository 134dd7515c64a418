SPECIFICATION Spec
CONSTANTS
  client = client
  Clients <- MCClients
  None = None
PROPERTY ProbeNeverBlocks
