SPECIFICATION Spec
CONSTANTS
  SeqModulus = 65536
  SupersededCap = 64
  SupersededKeep = 32
  RetransmitAfter = 2
  SettleAfter = 3
  Keys = {iso}
  Pipelined = {}
  CoalesceHold = 1
  ZoomHold = 1
  MaxFires = 2
  MaxReopens = 0
  FireWhileOpening = TRUE
  PromptPolls = TRUE
INVARIANTS AckedWasHeard
