SPECIFICATION Spec
CONSTANTS
  TIME_MOD = 5
  S3 = 2
  P2 = 1
  P2STAR = 2
  RCRRP_LIMIT = 0
  RCRRP_MOD = 2
  MAX_ATTEMPTS = 2
  ATTEMPTS_MOD = 4
  SEC_DELAY = 2
  SEQ_MOD = 4
  REPLAY = FALSE
  LEN_MOD = 65536
  TX_SIZE = 64
  Callbacks = {"fn_nvm_save", "fn_nvm_load", "fn_security_key", "fn_security_seed"}
  UserServices <- NoUser
  Dids <- NoDids
  SLOTS = 1
  COUNT_MOD = 256
  Interval <- Intervals
  Requests <- SessionRequests
  Answers <- OkOrError
  ClientSids = {}
  MAX_LAG = 1
  WRAP = TRUE
  KEY_WRAP = FALSE
  BootTimes = {0, 3}
INVARIANTS
  StoredInForce
