SPECIFICATION MCSpec
CONSTANTS
  Spectra <- MCSpectra
  Bands = 2
  Snrs = {1, 2}
  MinBandwidth = 0
  CarrierSnr = 0
  Budget = 1
  MaxExtra = 2
  MaxCycles = 2
  Keys = {"snr", "bw"}
  Factory <- MCFactory
  Commands <- MCCommands
  Channels <- MCChannels
  Carriers <- MCCarriers
  Lo = 1
  Hi = 3
  MaxCommands = 3
  MaxFaults = 2
  Tolerance = 10
  NoChannel = NoChannel
INVARIANTS
  AbortPrompt
  HitsAreReported
  SettingsSurvive
PROPERTIES
  CarriersCovered
  TargetsVisited
