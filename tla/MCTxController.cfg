SPECIFICATION FairSpec
CONSTANTS
  Clips = {c1, c2}
  NoClip = NoClip
  Garbled = Garbled
  MaxStarts = 2
  MaxStops = 1
  MaxRetunes = 2
  MaxBadRenders = 1
  RenderFaults = {"cutShort", "raises"}
INVARIANTS
  WindowsArePaid
  RadioReleased
  ClipIsRequested
  StopKept
PROPERTIES
  KeepsPromise
