SPECIFICATION MCSpec
CONSTANTS
  Scanners = {s1, s2}
  MaxEntries = 2
  MaxFrames = 3
  MaxFaults = 2
  Keys = {k1}
  MaxScanners = 2
  MaxEvents = 3
  MaxListed = 2
  RecentTtl = 1
  LiveStale = 1
  MaxTime = 3
  MaxCrashes = 1
  Streams = {"a", "b"}
  MaxTries = 2
  MaxChanges = 4
  MaxDeaths = 2
INVARIANTS
  NewestFirst
CHECK_DEADLOCK FALSE
