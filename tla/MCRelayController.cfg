SPECIFICATION FairSpec
CONSTANTS
  Hits <- MCHits
  SrcBands <- MCSrcBands
  Dsts <- MCDsts
  MinSnr = 10
  Guard = 3
  Nothing = Nothing
INVARIANTS
  GuardHeld
  AtMostOneLateBlock
PROPERTIES
  SessionsEnd
