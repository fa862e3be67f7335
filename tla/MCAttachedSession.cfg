CONSTANTS
  Messages = {m1, m2}
  NoMessage = NoMessage
  MaxAttempts = 2
  ReadyConfirmSamples = 2
  IdleConfirmSamples = 2
  MaxGeneration = 4
  MaxBoots = 3
SPECIFICATION Spec
SYMMETRY MessageSymmetry
INVARIANTS TypeOK UnfinishedIsWrittenOnce UnfinishedIsOnRecord CompletedIsReceipted
 ReadyIsFree LiveTaskIsDurable RestartsOnlyWhenFinished AttemptsAreBounded
 NoSilentLeak KillFailureIsReported CleanShutdownLeaksNothing SettledMeansQuiet
 ReadinessIsBacked
PROPERTIES ReleaseNeedsReceipt CancelHonoured ShutdownIsFinal ImplementsTaskSlot
CHECK_DEADLOCK FALSE
