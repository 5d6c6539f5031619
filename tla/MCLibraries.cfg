SPECIFICATION LSpec
CONSTANTS
  None = None
  Nodes = {0, 1, 2}
  ServerNode = 1
  PeerNode = 2
  SessionIds = {"server", "peer"}
  MaxInt = 9999
  ServerVersions <- MCServerVersions
  ServerSuites <- MCServerSuites
  ServerDirs = 2
  PeerVersions <- MCPeerVersions
  PeerSuites <- MCPeerSuites
  PreferDir = 2
  Noobs = {n1, n2}
  MaxConversations = 4
  Nobody = Nobody
  Procs = {a, b}
  DirOf <- OwnDirs
  ClusterDir = {a}
  DevTrust = {a, b}
  Ids = {1, 2, 3, 4}
  MaxKills = 2
  Self = 1
  Models = {m1}
  Ranks = {0, 1}
  Bodies <- MCBodies
  MaxMessages = 3
  Nvidia = {1, 4}
  Amd = {2, 3}
  Others = {5}
  Knows <- MCKnows
  Tools <- MCTools
  MaxResets = 2
INVARIANTS TypeOK NoPanic PeerNeverAlone KeyAgreement BestNegotiated
  StartupTypeOK OneIdentity FailsOnlyTorn TrustLasts DevTrustMeets
  SelectUpToTies ReadsPrefix EndIsHonest MetricsOfSameCard EachCardOnce
PROPERTY RegisteredIsFinal
CHECK_DEADLOCK FALSE
