CONSTANTS
  Messages = {m1, m2}
  NoMessage = NoMessage
  MaxAttempts = 1
  ReadyConfirmSamples = 1
  IdleConfirmSamples = 1
  MaxGeneration = 2
  MaxBoots = 2
  PageLimit = 1
  MaxPages = 2
SPECIFICATION CursorSpec
SYMMETRY MessageSymmetry
INVARIANTS CursorTypeOK CursorCoversMarker
PROPERTIES ImplementsSession
CHECK_DEADLOCK FALSE
