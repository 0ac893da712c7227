SPECIFICATION FairLoopSpec
CONSTANTS
  FRAME = 2
  MAX_CATCHUP = 3
  Refreshes <- MCSlow
  SUSPENSION = 13
  SUSPENSIONS = 1
  Loops = {1, 2}
  MAX_AHEAD = 6
  MAX_LAG = 30
INVARIANTS RunningIsScheduled
PROPERTIES StopsForGood CatchesUp
CHECK_DEADLOCK TRUE
