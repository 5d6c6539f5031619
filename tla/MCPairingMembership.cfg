SPECIFICATION RSpec
CONSTANTS
  None = None
  nodeA = nodeA
  nodeB = nodeB
  nodeC = nodeC
  inv1 = inv1
  inv2 = inv2
  Nodes = {nodeA, nodeB, nodeC}
  Noobs = {n1, n2}
  SessionIds <- MCSessionIds
  MaxInt = 9999
  ServerVersions <- MCServerVersions
  ServerSuites <- MCServerSuites
  ServerDirs = 2
  PeerVersions <- MCPeerVersions
  PeerSuites <- MCPeerSuites
  PreferDir = 2
  Invites = {inv1, inv2}
  Inviter <- ChainInviter
  Joiner <- ChainJoiner
  ValidInfo = {nodeA, nodeC}
  Persistent = {nodeA, nodeC}
  Lossy = FALSE
  Abandons = FALSE
  DiskFails = {nodeA, nodeC}
  MaxCrashes = 1
  ForeignSignals = {"cancel", "decline"}
INVARIANTS MembershipFollowsDisk PinnedOnlyByPin
PROPERTY ImplementsContract
CHECK_DEADLOCK FALSE
