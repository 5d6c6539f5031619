SPECIFICATION CSpec
CONSTANTS
  None = None
  nodeA = nodeA
  nodeB = nodeB
  nodeC = nodeC
  inv1 = inv1
  inv2 = inv2
  Nodes = {nodeA, nodeB, nodeC}
  Noobs = {n1, n2}
  SessionIds <- MCSessionIds
  MaxInt = 9999
  ServerVersions <- MCServerVersions
  ServerSuites <- MCServerSuites
  ServerDirs = 2
  PeerVersions <- MCPeerVersions
  PeerSuites <- MCPeerSuites
  PreferDir = 2
  Invites = {inv1, inv2}
  Inviter <- OneInviter
  Joiner <- JoinCAndB
  ValidInfo = {nodeA, nodeB, nodeC}
  Persistent = {nodeA, nodeB, nodeC}
  Lossy = FALSE
  Abandons = FALSE
  DiskFails = {}
  MaxCrashes = 0
  ForeignSignals = {}
  Scenarios <- CommandLine
  MaxPolls = 1
INVARIANT InviteReportTrue
CHECK_DEADLOCK FALSE
