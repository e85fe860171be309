\* Five nodes, a budget of two relays, two faults.
SPECIFICATION FairSpec
CONSTANTS
  r = r
  b = b
  c = c
  d = d
  s = s
  Nodes = {r, b, c, d, s}
  Requester = r
  Stewards = {c, s}
  Roster <- MCRoster
  HopsMax = 2
  StewardsTriedMax = 4
  RelayPeersMax = 4
  Networks <- MCNetworks
  FaultsMax = 2
  None = None
INVARIANT WalksDieOut FoundIfReachable
PROPERTY EveryBranchEnds
CHECK_DEADLOCK FALSE
