SPECIFICATION Spec
CONSTANTS
  SeqModulus = 65536
  SupersededCap = 64
  SupersededKeep = 32
  RetransmitAfter = 2
  SettleAfter = 3
  Keys = {iso}
  Pipelined = {}
  CoalesceHold = 1
  ZoomHold = 1
  MaxFires = 3
  MaxReopens = 1
  FireWhileOpening = TRUE
  PromptPolls = FALSE
INVARIANTS TypeOK DriverInStep NewestIsKept OneRetransmit AckedWasHeardUnlessCrowded LeftIsFollowedUp
PROPERTIES HoldsItsPlace KeepsPromise
