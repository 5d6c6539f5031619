SPECIFICATION RSpec
CONSTANTS
  None = None
  nodeA = nodeA
  nodeB = nodeB
  nodeC = nodeC
  inv1 = inv1
  inv2 = inv2
  Nodes = {nodeA, nodeB, nodeC}
  Noobs = {n1}
  SessionIds <- MCSessionIds
  MaxInt = 9999
  ServerVersions <- MCServerVersions
  ServerSuites <- MCServerSuites
  ServerDirs = 2
  PeerVersions <- MCPeerVersions
  PeerSuites <- MCPeerSuites
  PreferDir = 2
  Invites = {inv1, inv2}
  Inviter <- TwoInviters
  Joiner <- BothJoinC
  ValidInfo = {nodeA, nodeB, nodeC}
  Persistent = {nodeA, nodeB, nodeC}
  Lossy = FALSE
  Abandons = FALSE
  DiskFails = {}
  MaxCrashes = 0
  ForeignSignals = {}
INVARIANT SingleCluster
CHECK_DEADLOCK FALSE
