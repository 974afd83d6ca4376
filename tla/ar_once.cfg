SPECIFICATION Spec
CONSTANTS
  None = None
  MAX_BUFFER_SIZE = 2
  MAX_SILENCE_FRAMES = 1
  WINDOW = 2
  SYNC = 1
  MaxFrames <- MCMaxFrames
  MaxTime = 7
  MaxBurst = 2
CHECK_DEADLOCK FALSE
INVARIANT WrittenOnceToUserOnly
