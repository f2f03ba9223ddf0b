SPECIFICATION NFairSpec
CONSTANTS
  Senders = {"server"}
  Requests = {5}
  BlockSize = 2
  MaxSN = 3
  DLMod = 64
  SendBuf = 64
  RecvBuf = 45
  Sizes = {5, 20, 41, 60}
  MaxMsgs = 2
  Faults = {}
PROPERTIES SentToTheEnd
CHECK_DEADLOCK FALSE
