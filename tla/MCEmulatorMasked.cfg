SPECIFICATION Spec
CONSTANTS
  BITS = 1
  OUTPUT_MAX = 0
  RATE_TABLE <- MCRates
  FIRST_RATE = 0
  SAMPLE_BASE = 1
  ADDRESS_STEP = 1
  LENGTH_STEP = 1
  ADDRESS_LAST = 1
  ADDRESS_WRAP = 1
  CtrlData <- MCCtrlData
  AddressData <- MCNothing
  SampleBytes <- MCSampleBytes
  LengthData <- MCLengthData
  LAST_DOT = 2
  VBLANK = 0
  PRERENDER = 1
  INTERRUPT_LATENCY = 2
  FETCH_STALL = 1
  WORD = 6
  PAGE = 1
  Pages <- MCNothing
  Effects <- MCIrqEffects
  InstructionCycles <- MCInstructionCycles

PROPERTY ReadyCpuGoesOn
