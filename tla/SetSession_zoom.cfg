SPECIFICATION FairSpec
CONSTANTS
  SeqModulus = 65536
  SupersededCap = 64
  SupersededKeep = 32
  RetransmitAfter = 2
  SettleAfter = 3
  Keys = {zoom}
  Pipelined = {zoom}
  CoalesceHold = 1
  ZoomHold = 1
  MaxFires = 3
  MaxReopens = 0
  FireWhileOpening = TRUE
  PromptPolls = FALSE
INVARIANTS NewestIsKept
PROPERTIES WireInOrder KeepsPromise NothingWaitsForEver
