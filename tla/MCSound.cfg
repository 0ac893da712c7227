SPECIFICATION Spec
CONSTANTS
  PERIODS = 16
  LOW = 4
  LOWEST = 4
  STEPS = 2
  Lows = {0, 1, 3}
  Highs = {0, 1, 3}
  Shifts = {0, 1, 2}
  Reloads = {0, 1}
  WIDTH = 15
  LONG = 1
  SHORT = 6
  NoisePeriods = {0, 1}
  SAMPLE_THRESHOLD = 7
  SampleRates = {1, 2, 3, 5, 7}
  LAST_DOT = 30
INVARIANTS TypeOK NoDrift
PROPERTIES SweepEnds HissesOn
CHECK_DEADLOCK TRUE
