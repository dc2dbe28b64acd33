SPECIFICATION Spec
CONSTANTS
  Clips = {c1, c2}
  NoClip = NoClip
  Garbled = Garbled
  MaxStarts = 2
  MaxStops = 1
  MaxRetunes = 1
  MaxBadRenders = 0
  RenderFaults = {"cutShort", "raises"}
INVARIANTS
  StopHonored
