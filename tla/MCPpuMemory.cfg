SPECIFICATION Spec
CONSTANTS
  PATTERN = 8
  TABLE = 2
  PALETTE = 24
  SPACE = 32
  WORD = 128
  COLORS = 4
  GROUP = 2
  ROW = 4
  BANKS = 4
  Cartridges <- MCCartridges
  Addresses <- MCAddresses
  Banks <- MCBanks
  Bytes <- MCBytes
  Data <- MCData
  OPERATIONS = 6
  WRITES = 1
  Sizes <- MCSizes
  Screens <- MCScreens
INVARIANTS TypeOK
PROPERTIES MemoryRefines
CHECK_DEADLOCK TRUE
