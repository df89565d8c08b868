\* Updates after a renewed subscription; the server numbers every message.
CONSTANTS
  Count = 2
  AppSlots = {1}
  AppTypes = {"SUBSCRIBE"}
  MidSpace = 8
  RandMids = {0}
  Tokens = {1}
  ObsBits = {0}
  COAP_MAX_RETRANSMIT = 1
  ValueMax = 2
  CIK_LENGTH = 1
  PayloadLens = {1}
  Refusals = {}
  SrvMids = {0}
  ServerOptions = {"observe"}
  BootFiles = {"full"}
  StoreResults = {"full"}
  InFlight = 2
  Reboots = FALSE
SPECIFICATION ReleasingSpec
PROPERTIES
  UpdateReported
