SPECIFICATION RSpec
CONSTANTS
  None = None
  nodeA = nodeA
  nodeB = nodeB
  nodeC = nodeC
  inv1 = inv1
  inv2 = inv2
  Nodes = {nodeA, nodeB, nodeC}
  Noobs = {n1, n2}
  SessionIds <- MCSessionIds
  MaxInt = 9999
  ServerVersions <- MCServerVersions
  ServerSuites <- MCServerSuites
  ServerDirs = 2
  PeerVersions <- MCPeerVersions
  PeerSuites <- MCPeerSuites
  PreferDir = 2
  Invites = {inv1, inv2}
  Inviter <- ChainInviter
  Joiner <- ChainJoiner
  ValidInfo = {nodeA, nodeB, nodeC}
  Persistent = {nodeA, nodeB, nodeC}
  Lossy = TRUE
  Abandons = TRUE
  DiskFails = {}
  MaxCrashes = 1
  ForeignSignals = {}
INVARIANTS TypeOK NoPanic CommitOrder DurableCommit Agreement RightPinNeverBlamed
PROPERTY ImplementsContract
CHECK_DEADLOCK FALSE
