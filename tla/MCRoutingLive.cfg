SPECIFICATION DiscoverySpec
CONSTANTS
  None = None
  Nodes = {0, 1, 2}
  Self = 0
  Models <- OneModel
  h1 = h1
  h2 = h2
  Hosts = {h1, h2}
  Requests = {}
  Engines <- FirstAlways
  AdvertisePort = "ingress"
  Settings <- JustMove
  MaxQueue = 1
  MaxChanges = 2
PROPERTIES PollsConverge AnnouncedPeerPolled
