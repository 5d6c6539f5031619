SPECIFICATION Spec
CONSTANTS
  None = None
  Nodes = {0, 1, 2}
  Self = 0
  Models <- OneModel
  h1 = h1
  h2 = h2
  Hosts = {h1, h2}
  Requests = {r1}
  Engines <- FirstServes
  AdvertisePort = "ingress"
  Settings <- PairOrMove
  MaxQueue = 1
  MaxChanges = 2
SYMMETRY HostSymmetry
VIEW Untold
INVARIANTS TypeOK LeavesToPinned ModelsOnlyOfPinned RoutedToOwner PinnedFlagSound
