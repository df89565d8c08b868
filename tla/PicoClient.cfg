\* The smallest space of message ids that Lifetime and Backlog allow.
CONSTANTS
  MidSpace = 4
  RandMids = {2}
  StrayMids = {0}
  Tokens = {1, 2}
  Lifetime = 1
  Backlog = 2
SPECIFICATION FairSpec
INVARIANTS
  AcceptedIsOwn
  WaitsForSomething
PROPERTIES
  AsksAgain
CHECK_DEADLOCK FALSE
