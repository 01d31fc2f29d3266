SPECIFICATION Spec
CONSTANTS
  TIME_MOD = 7
  S3 = 2
  P2 = 1
  P2STAR = 2
  RCRRP_LIMIT = 1
  RCRRP_MOD = 2
  MAX_ATTEMPTS = 1
  ATTEMPTS_MOD = 2
  SEC_DELAY = 1
  SEQ_MOD = 4
  REPLAY = FALSE
  LEN_MOD = 65536
  TX_SIZE = 64
  Callbacks = {"fn_periodic_read"}
  UserServices <- OneAsync
  Dids <- NoDids
  SLOTS = 2
  COUNT_MOD = 256
  Interval <- Intervals
  Requests <- PeriodicAndAsync
  Answers <- Pend
  ClientSids = {}
  MAX_LAG = 1
  WRAP = FALSE
  KEY_WRAP = TRUE
  BootTimes = {0}
INVARIANTS
  CountMatches
  NoDuplicateIds
  PeriodicOnTime
PROPERTIES
  AddDisplacesNothing
