SPECIFICATION Spec
CONSTANTS
  Frames <- AllFrames
  MaxFrames = 3
INVARIANTS FramesRestored FragmentationExact AcceptedTextIsUtf8
CHECK_DEADLOCK FALSE
