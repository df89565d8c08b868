CONSTANTS
  Count = 3
  AppSlots = {1, 2}
  AppTypes = {"READ", "SUBSCRIBE"}
  MidSpace = 1
  RandMids = {0}
  Tokens = {0, 1}
  ObsBits = {}
  COAP_MAX_RETRANSMIT = 0
  ValueMax = 2
  CIK_LENGTH = 1
  PayloadLens = {1}
  Refusals = {"OTHER"}
  SrvMids = {0}
  ServerOptions = {"observe"}
  BootFiles = {"full"}
  StoreResults = {"full"}
  InFlight = 1
  Reboots = FALSE
SPECIFICATION ActivatedSpec
INVARIANTS
  NotificationOwn
PROPERTIES
  ImplementsLifecycle
