SPECIFICATION Spec
CONSTANTS
  Ranks <- MCRanks
  Modes <- MCModes
INVARIANTS BanksAgree FreshCount RightPayload PublicationKept
PROPERTY AllComplete
