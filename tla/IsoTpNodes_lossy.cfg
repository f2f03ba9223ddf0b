SPECIFICATION NFairSpec
CONSTANTS
  Senders = {"client", "server"}
  Requests = {5}
  BlockSize = 2
  MaxSN = 3
  DLMod = 64
  SendBuf = 64
  RecvBuf = 45
  Sizes = {5, 20, 41, 60, 64}
  MaxMsgs = 4
  Faults = {"loss", "restart", "early_cr"}
INVARIANTS TypeOK Integrity WithinBlock BlockBound
PROPERTIES ServiceSpec SenderSettles ReceiverSettles
CHECK_DEADLOCK FALSE
