\* The token of a retransmission.
CONSTANTS
  Count = 2
  AppSlots = {1}
  AppTypes = {"READ"}
  MidSpace = 2
  RandMids = {0}
  Tokens = {1}
  ObsBits = {}
  COAP_MAX_RETRANSMIT = 1
  ValueMax = 2
  CIK_LENGTH = 1
  PayloadLens = {0, 1, 2}
  Refusals = {"EMPTY", "UNAUTHORIZED", "NOT_FOUND", "OTHER"}
  SrvMids = {0}
  ServerOptions = {"observe", "above", "none", "below"}
  BootFiles = {"full"}
  StoreResults = {"full"}
  InFlight = 2
  Reboots = FALSE
SPECIFICATION Spec
INVARIANTS
  RetransmitSameToken
