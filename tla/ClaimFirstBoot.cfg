\* A device without a cik file.
CONSTANTS
  Count = 1
  AppSlots = {}
  AppTypes = {"READ", "WRITE"}
  MidSpace = 2
  RandMids = {0}
  Tokens = {1}
  ObsBits = {}
  COAP_MAX_RETRANSMIT = 1
  ValueMax = 2
  CIK_LENGTH = 1
  PayloadLens = {0, 1, 2}
  Refusals = {"EMPTY", "UNAUTHORIZED", "NOT_FOUND", "OTHER"}
  SrvMids = {0}
  ServerOptions = {"observe", "above", "none", "below"}
  BootFiles = {"nofile"}
  StoreResults = {"full"}
  InFlight = 2
  Reboots = FALSE
SPECIFICATION FairSpec
PROPERTIES
  ComesUp
