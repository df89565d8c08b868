\* Messages of up to two options and a payload in a buffer that runs full.
CONSTANTS
  Max = 300
  BufAddr = 1000
  Fills = {0, 255}
  Types = {0}
  Codes = {69}
  MidValues = {258}
  Tkls = {0, 2, 9}
  OptNums = {6, 15, 300}
  OptLens = {0, 1, 12, 13, 268, 269}
  PayloadLens = {1, 20}
  DataBytes = {255}
  MaxOpts = 2
SPECIFICATION Spec
INVARIANTS
  WithinBuffer
  RoundTrip
  FindsOption
