SPECIFICATION FairSpec
CONSTANTS
  StallThreshold = 1
  CameraSetGrace = 2
  EscalateAfter = 3
  GOPGrace = 4
  CooldownDuration = 4
  RebuildBackoff = 5
  HandshakeDeadline = 1
  PokeSettle = 1
  IsPocket3 = TRUE
  Operates = FALSE
  Leaves = FALSE
  Records = FALSE
  PromptPolls = TRUE
PROPERTIES FormatComesBack
