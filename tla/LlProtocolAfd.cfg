SPECIFICATION Spec
CONSTANTS
  Ranks <- MCRanks
  Modes <- BatchedModes
INVARIANT PublicationKept
