\* Activation and power loss, no application operations.
CONSTANTS
  Count = 1
  AppSlots = {}
  AppTypes = {"READ", "WRITE"}
  MidSpace = 3
  RandMids = {0}
  Tokens = {1}
  ObsBits = {}
  COAP_MAX_RETRANSMIT = 1
  ValueMax = 2
  CIK_LENGTH = 1
  PayloadLens = {0, 1, 2}
  Refusals = {"EMPTY", "UNAUTHORIZED", "NOT_FOUND", "OTHER"}
  SrvMids = {0}
  ServerOptions = {"observe", "above", "none", "below"}
  BootFiles = {"short", "full"}
  StoreResults = {"short", "full"}
  InFlight = 2
  Reboots = TRUE
SPECIFICATION FairSpec
PROPERTIES
  ActivationPersists
  ComesUp
