SPECIFICATION Spec
CONSTANTS
  MaxMessageLen = 14
  NameLens = {1, 2, 3}
  DataLens = {0, 4, 5}
  StrayLens <- MCStrayLens
  MaxFrames = 2
INVARIANTS
  TypeOK
  DispatchesAcceptable
  OpenIffClean
CHECK_DEADLOCK FALSE
