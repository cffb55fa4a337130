SPECIFICATION FairSpec
CONSTANTS
  Modes = {"streaming", "buffered", "mutable"}
  LastAsync = {"none"}
  OpenAsync <- PendingAsync
  MaxFrames = 2
  FramesAfterReply = {}
  EndsInCallback = FALSE
INVARIANTS AdmissionGate
