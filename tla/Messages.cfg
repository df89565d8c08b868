\* The messages of one call of exo_operate, the datagram full to the last
\* byte and one byte over in each of its parts.
CONSTANTS
  MINIMUM_DATAGRAM_SIZE = 576
  BufAddr = 1000
  Count = 2
  RandMids = {65535}
  OpMids = {258}
  RandBytes = {255}
  Fills = {0, 255}
  AliasLens = {4, 520, 521, 522, 523}
  ValueLens = {0, 1, 519, 520}
  NameLens = {3, 540, 541}
  TextByte = 255
  CikByte = 97
SPECIFICATION Spec
INVARIANTS
  BuilderTellsLoss
  NothingForeign
  RepeatSaysTheSame
  ResetEchoes
  MarkerHasPayload
CHECK_DEADLOCK FALSE
