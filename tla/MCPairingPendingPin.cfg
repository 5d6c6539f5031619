SPECIFICATION RSpec
CONSTANTS
  None = None
  nodeA = nodeA
  nodeB = nodeB
  nodeC = nodeC
  inv1 = inv1
  inv2 = inv2
  Nodes = {nodeA, nodeC}
  Noobs = {n1, n2}
  SessionIds <- MCSessionIds
  MaxInt = 9999
  ServerVersions <- MCServerVersions
  ServerSuites <- MCServerSuites
  ServerDirs = 2
  PeerVersions <- MCPeerVersions
  PeerSuites <- MCPeerSuites
  PreferDir = 2
  Invites = {inv1}
  Inviter <- OneInviter
  Joiner <- BothJoinC
  ValidInfo = {nodeA, nodeC}
  Persistent = {nodeA, nodeC}
  Lossy = TRUE
  Abandons = FALSE
  DiskFails = {}
  MaxCrashes = 0
  ForeignSignals = {}
INVARIANT PendingAwaitsPin
CHECK_DEADLOCK FALSE
