\* Liveness of one application slot on an activated device.
CONSTANTS
  Count = 2
  AppSlots = {1}
  AppTypes = {"READ", "WRITE", "SUBSCRIBE"}
  MidSpace = 1
  RandMids = {0}
  Tokens = {1}
  ObsBits = {0}
  COAP_MAX_RETRANSMIT = 1
  ValueMax = 2
  CIK_LENGTH = 1
  PayloadLens = {0, 1}
  Refusals = {"OTHER"}
  SrvMids = {0}
  ServerOptions = {"observe", "above", "none"}
  BootFiles = {"full"}
  StoreResults = {"full"}
  InFlight = 2
  Reboots = FALSE
SPECIFICATION ActivatedFairSpec
PROPERTIES
  ImplementsLifecycle
  SingleShotFinishes
  SubscriptionRefreshed
  UpdateShown
