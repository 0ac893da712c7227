SPECIFICATION PictureSpec
CONSTANTS
  LAST_DOT = 15
  VBLANK = 7
  PRERENDER = 8
  TILE = 3
  COLS = 2
  ROWS = 2
  COARSE_Y = 4
  LOW_BYTE = 4
  ATTRIBUTE = 2
  LOW = 2
  HIGH = 2
  PREFETCH = 10
  RELOAD <- MCReload
  Moments <- MCMoments
  UPLOADS <- MCUploads
  Tables <- MCTables
  Masks <- MCMasks
  ScrollXs <- MCScrollXs
  ScrollYs <- MCScrollYs
  AddressBytes <- MCAddressBytes
  CLEAR <- MCClear
  RESTART = 3
  EVALUATE <- MCEvaluate
  FETCH <- MCFetch
  Solid <- MCSolid
  Ground <- MCGround
  Scenes <- MCScenes
PROPERTIES ShowsThePicture UploadsInOrder SpritesShown FlagsTell
CHECK_DEADLOCK TRUE
