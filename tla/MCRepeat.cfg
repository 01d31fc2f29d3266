SPECIFICATION Spec
CONSTANTS
  TIME_MOD = 6
  S3 = 2
  P2 = 1
  P2STAR = 2
  RCRRP_LIMIT = 0
  RCRRP_MOD = 2
  MAX_ATTEMPTS = 1
  ATTEMPTS_MOD = 2
  SEC_DELAY = 1
  SEQ_MOD = 4
  REPLAY = FALSE
  LEN_MOD = 65536
  TX_SIZE = 64
  Callbacks = {}
  UserServices <- AsyncServices
  Dids <- NoDids
  SLOTS = 1
  COUNT_MOD = 256
  Interval <- Intervals
  Requests <- AsyncRequests
  Answers <- AsyncAnswers
  ClientSids = {}
  MAX_LAG = 1
  WRAP = TRUE
  KEY_WRAP = TRUE
  BootTimes = {0}
INVARIANTS
  JobKeptPending
