SPECIFICATION PathSpec
CONSTANTS
  Threads <- MCThreads
  Settings <- MCSettings
  Scripts <- MCScripts
  LaneOf <- MCLaneOf
  DevCommSlots = 3
  ControlSlots = 2
  MaxFaults = 1
  Processes <- MCRanks
  Plans <- MCPlans
  Packs = {TRUE, FALSE}
  Lanes = 2
  Capacity = 2
  MaxEntries = 3
  LsaSize = 1
  Submissions <- MCSubmissions
  PlannedCalls <- MCCalls
  Programs <- MCPrograms
  Depth = 2
  Tiles = 2
  Transfers <- MCTransfers
INVARIANTS  HeldByCalls GroupsExact SplitsAgree BucketsRight   NobodyStuck
CHECK_DEADLOCK FALSE
