SPECIFICATION PathSpec
CONSTANTS
  MaxTopk = 2
  CountMaxTopk = 3
  MaxExperts = 8
  MaxLocalExperts = 4
  FlatChunk = 2
  MinChunk = 2
  MaxWarpGroups = 3
  MinQps = 2
  HandleNames = {h1, h2}
  Topks = {2}
  MaxUpdates = 2
  ForwardFirst = TRUE
  Fleets <- MCFleets
  NPipes = 2
  Stages = 2
  InFlight = 1
  NMap = 2
  WaveSize = 1
  Empty = Empty
  Loads <- MCLoads
  CPipes = 1
  CStages = 2
  OStages = 2
  RoundSetups <- MCRoundSetups
  ScanSetups <- MCScanSetups
  PullSetups <- MCPullSetups
INVARIANTS  GroupsAgree  KernelsDeliver RoundsApart MapsRight 
SYMMETRY Symmetry
CHECK_DEADLOCK FALSE
