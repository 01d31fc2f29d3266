SPECIFICATION TpFairSpec
CONSTANTS
  MAX_SF = 2
  MAX_FF = 1
  MAX_CF = 1
  MIN_FF = 3
  SN_MOD = 2
  TX_BUF = 6
  RX_BUF = 6
  TP_TIME_MOD = 2
  Msg <- AllMessages
  Node <- Ends
  Own <- OwnLong
  BLOCK_SIZE <- SameBlocks
  ST_MIN <- NoSeparation
  QUEUE = 2
  MAX_FAULTS = 0
  LOSE_FIRST = FALSE
PROPERTIES
  Delivery
