SPECIFICATION DiscoverySpec
CONSTANTS
  None = None
  Nodes = {0, 1, 2}
  Self = 0
  Models <- OneModel
  h1 = h1
  h2 = h2
  Hosts = {h1, h2}
  Requests = {}
  Engines <- PeersServe
  AdvertisePort = "nodeinfo"
  Settings <- Quiet
  MaxQueue = 1
  MaxChanges = 0
PROPERTY AnnouncedPeerPolled
