SPECIFICATION FairApuSpec
CONSTANTS
  STEP_1 = 1
  STEP_2 = 2
  STEP_3 = 3
  STEP_4 = 4
  STEP_5 = 5
  VOLUME = 1
  LENGTH_TABLE <- MCLengths
  EnvelopeReloads <- MCEnvelopeReloads
  LinearReloads <- MCLinearReloads
  Registers <- MCRegisters
INVARIANT ApuTypeOK
PROPERTIES FlagAtTheEnd FlagComesAgain NotesEnd EnvelopeRuns
CHECK_DEADLOCK TRUE
