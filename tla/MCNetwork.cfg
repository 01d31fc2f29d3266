SPECIFICATION NetFairSpec
CONSTANTS
  TIME_MOD = 6
  S3 = 2
  P2 = 1
  P2STAR = 0
  RCRRP_LIMIT = 1
  RCRRP_MOD = 2
  MAX_ATTEMPTS = 1
  ATTEMPTS_MOD = 2
  SEC_DELAY = 1
  SEQ_MOD = 3
  REPLAY = TRUE
  LEN_MOD = 65536
  TX_SIZE = 64
  Callbacks = {"fn_request_download", "fn_transfer_data", "fn_transfer_exit"}
  UserServices <- EraseService
  Dids <- NoDids
  SLOTS = 1
  COUNT_MOD = 256
  Interval <- Intervals
  BLOCKS = 4
  MAX_LOSSES = 2
  MAX_EARLY = 1
  MAX_REFUSALS = 1
  MAX_SLOW = 1
  CHECK_ECHO = TRUE
INVARIANTS
  InStep
  RefusedOnlyAtWrap
PROPERTIES
  EachBlockOnce
  Finishes
CHECK_DEADLOCK FALSE
