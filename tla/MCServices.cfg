SPECIFICATION Spec
CONSTANTS
  TIME_MOD = 2
  S3 = 1
  P2 = 1
  P2STAR = 1
  RCRRP_LIMIT = 0
  RCRRP_MOD = 2
  MAX_ATTEMPTS = 1
  ATTEMPTS_MOD = 2
  SEC_DELAY = 1
  SEQ_MOD = 4
  REPLAY = FALSE
  LEN_MOD = 65536
  TX_SIZE = 64
  Callbacks <- AllCallbacks
  UserServices <- RestrictedService
  Dids <- DidTable
  SLOTS = 1
  COUNT_MOD = 256
  Interval <- Intervals
  Requests <- ServicesAndClient
  Answers <- ServiceAnswers
  ClientSids = {34}
  MAX_LAG = 1
  WRAP = FALSE
  KEY_WRAP = TRUE
  BootTimes = {0}
INVARIANTS
  AnsweredOnce
  Answered
PROPERTIES
  CallbackMatches
