SPECIFICATION FairSpec
CONSTANTS
  Modes = {"none"}
  LastAsync = {"none"}
  OpenAsync <- GoAsync
  MaxFrames = 2
  FramesAfterReply = {}
  EndsInCallback = FALSE
INVARIANTS AdmissionGate
