CONSTANTS
  c1 = c1
  c2 = c2
  none = none
  Cameras = {c1, c2}
  NoCamera = none
  Video = {c2}
  NoGetter = {c1}
  Attempts = 2
  VerifyReads = 2
  MaxClicks = 5
  MaxAir = 2
  MaxEvents = 2
SPECIFICATION Spec
INVARIANTS TypeOK ReadsItsOwnCamera RemembersOneCamera OnlyHalfConnectsLeak
PROPERTIES PhonesLeftByChoice UnconfirmedAfterEveryAttempt EveryWaitEnds
CHECK_DEADLOCK FALSE
