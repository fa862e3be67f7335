CONSTANTS
  Messages = {m1}
  NoMessage = NoMessage
  MaxAttempts = 1
  ReadyConfirmSamples = 1
  IdleConfirmSamples = 1
  MaxGeneration = 2
  MaxBoots = 2
  PageLimit = 1
  MaxPages = 1
SPECIFICATION RunnerFairSpec
PROPERTIES ParkedIsReconciled
CHECK_DEADLOCK FALSE
