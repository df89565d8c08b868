\* The example program from power-up, through its activation and power losses.
CONSTANTS
  Count = 4
  AppSlots = {1, 2, 3}
  AppTypes = {"SUBSCRIBE", "WRITE"}
  MidSpace = 1
  RandMids = {0}
  Tokens = {1}
  ObsBits = {}
  COAP_MAX_RETRANSMIT = 0
  ValueMax = 2
  CIK_LENGTH = 1
  PayloadLens = {1, 2}
  Refusals = {"UNAUTHORIZED", "NOT_FOUND"}
  SrvMids = {0}
  ServerOptions = {"observe", "below"}
  BootFiles = {"full"}
  StoreResults = {"full"}
  InFlight = 1
  Reboots = TRUE
  Period = 2
SPECIFICATION ExampleSpec
INVARIANTS
  OpShape
  NoWriteOverwritten
  SubscribedOnce
PROPERTIES
  ApplicationOwns
  ErrorCountQueued
