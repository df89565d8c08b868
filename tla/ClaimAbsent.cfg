\* Looking up an option that is not there.
CONSTANTS
  Max = 40
  BufAddr = 1000
  Fills = {0}
  Types = {0}
  Codes = {69}
  MidValues = {258}
  Tkls = {0}
  OptNums = {6, 11, 15}
  OptLens = {1}
  PayloadLens = {1}
  DataBytes = {1}
  MaxOpts = 2
SPECIFICATION Spec
INVARIANTS
  AbsentOption
