SPECIFICATION Spec
CONSTANTS
  MaxStarts = 3
  MaxStops = 2
INVARIANTS
  RetunePrompt
