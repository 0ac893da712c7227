SPECIFICATION LoopSpec
CONSTANTS
  FRAME = 2
  MAX_CATCHUP = 3
  Refreshes <- MCSlow
  SUSPENSION = 0
  SUSPENSIONS = 0
  Loops = {1, 2}
  MAX_AHEAD = 6
  MAX_LAG = 30
INVARIANT CanceledStays
CHECK_DEADLOCK TRUE
