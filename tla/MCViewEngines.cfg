SPECIFICATION MCSpec
CONSTANTS
  RingBlocks = 3
  ChunkBlocks = 2
  SilentReads = 2
  StallLimit = 2
  MaxSessions = 3
  QueueMax = 2
  EncoderSessions = 2
  MaxFaults = 2
  MailboxDepth = 1
  FrameMax = 1
  MaxCalls = 2
INVARIANTS
  RadioOutlivesReader
  OneForeignBlock
  NeverRewinds
  LabelFollows
  NoStaleFlush
  CleanEndIsClean
PROPERTIES
  SilentCaptureEnds
  EncoderSettles
  ThreadsEnd
