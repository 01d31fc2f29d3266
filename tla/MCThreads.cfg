SPECIFICATION ThreadFairSpec
CONSTANTS
  TIME_MOD = 2
  S3 = 0
  P2 = 1
  P2STAR = 1
  RCRRP_LIMIT = 0
  RCRRP_MOD = 1
  MAX_ATTEMPTS = 1
  ATTEMPTS_MOD = 2
  SEC_DELAY = 1
  SEQ_MOD = 4
  REPLAY = FALSE
  LEN_MOD = 65536
  TX_SIZE = 64
  Callbacks = {}
  UserServices <- AsyncService
  Dids <- NoDids
  SLOTS = 1
  COUNT_MOD = 256
  Interval <- Intervals
  ClientSids = {34}
  Deliveries <- ThreadDeliveries
  APP_LOCKS = TRUE
  REENTRANT = TRUE
INVARIANTS
  ThreadTypeOK
  MutexReleased
  WaitHasWorker
PROPERTIES
  AtomicCalls
  CallsReturn
