SPECIFICATION Spec
CONSTANTS
  Clips = {c1, c2}
  NoClip = NoClip
  Garbled = Garbled
  MaxStarts = 3
  MaxStops = 1
  MaxRetunes = 0
  MaxBadRenders = 1
  RenderFaults = {"raises"}
INVARIANTS
  CacheIsIntact
