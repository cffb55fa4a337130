SPECIFICATION MCSpec
CONSTANTS
  Modes = {"none", "streaming", "buffered", "mutable"}
  LastAsync = {"none", "refused", "early", "pending", "go"}
  OpenAsync <- MCOpenAsync
  MaxFrames = 3
  FramesAfterReply = {"none"}
  EndsInCallback = FALSE
  Bodies <- MCBodies
  HeadSize = 6
  TailSize = 5
INVARIANTS MutationsConserved MutationsApplied AdmissionGate LengthMatchesBody ResponseEndDelivered 
PROPERTIES LocalReplyIsFinal DeadStreamUntouched HeldIsSettled
