SPECIFICATION FairSpec
CONSTANTS
  Configs <- Pairs
  MaxCrashes = 1
  MaxDrops = 1
INVARIANTS
  NothingOutlives
  PresenceIsTrue
  ShownIsDone
PROPERTIES
  PresenceReturns
