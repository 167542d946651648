CONSTANTS
  Takes = {1, 2}
  VideoBase = 2
  PageSize = 1
  EnterAttempts = 1
  Rounds = 1
  MaxClicks = 5
  MaxAir = 1
SPECIFICATION Spec
INVARIANTS TypeOK OffScreenIsIdle
PROPERTIES OpensWhatWasAsked DeletesOnTheSecondTap ListingEnds
CHECK_DEADLOCK FALSE
