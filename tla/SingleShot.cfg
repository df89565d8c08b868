\* One slot of reads and writes beside the activation slot, from power-up on
\* and over power losses.  A token of zero merges a request with its repeats.
CONSTANTS
  Count = 2
  AppSlots = {1}
  AppTypes = {"READ", "WRITE"}
  MidSpace = 2
  RandMids = {0}
  Tokens = {0}
  ObsBits = {}
  COAP_MAX_RETRANSMIT = 1
  ValueMax = 2
  CIK_LENGTH = 1
  PayloadLens = {0, 1}
  Refusals = {"UNAUTHORIZED", "NOT_FOUND", "OTHER"}
  SrvMids = {0}
  ServerOptions = {"observe"}
  BootFiles = {"full"}
  StoreResults = {"full"}
  InFlight = 2
  Reboots = TRUE
SPECIFICATION Spec
INVARIANTS
  TypeOK
  OpShape
  RequestOwn
  OneMessageId
  IdleMeansFinished
PROPERTIES
  ApplicationOwns
