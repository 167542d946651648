CONSTANTS
  JoinTimeout = 2
  FirstPicture = 3
  SilenceTimeout = 2
  StableAfter = 2
  MaxGap = 1
  MaxRetries = 2
  ParkWindow = 2
  MaxWire = 1
  MaxAsks = 1
SPECIFICATION Spec
INVARIANTS TypeOK ControlSettles BoundedDials StallsAreSeen StaleAsksDie
PROPERTY JoinEnds
CHECK_DEADLOCK FALSE
