SPECIFICATION FairSpec
CONSTANTS
  MaxStarts = 3
  MaxStops = 2
INVARIANTS
  ShownIsServed
PROPERTIES
  NeverServesStale
  StopTakesEffect
  KeepsPromise
