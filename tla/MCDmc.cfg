SPECIFICATION FairSpec
CONSTANTS
  BITS = 2
  OUTPUT_MAX = 3
  RATE_TABLE <- MCRates
  FIRST_RATE = 0
  SAMPLE_BASE = 5
  ADDRESS_STEP = 2
  LENGTH_STEP = 2
  ADDRESS_LAST = 7
  ADDRESS_WRAP = 4
  CtrlData <- MCCtrlData
  AddressData <- MCAddressData
  SampleBytes <- MCSampleBytes
  LengthData <- MCLengthData
INVARIANTS NeverStarved FlagMeansFinished
PROPERTIES PlaysSamples Settles
CHECK_DEADLOCK TRUE
