SPECIFICATION FairSpec
CONSTANTS
  MaxViews = 2
  MaxTx = 2
  FailLimit = 3
INVARIANTS
  ModesExclude
PROPERTIES
  KeepsLease
  StartsAreTaken
