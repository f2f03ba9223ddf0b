\* The constants of isotp_config.h and the buffers of the server-to-client
\* direction; a unit of time is 20 ms.
SPECIFICATION TSpec
CONSTANTS
  Senders = {"client", "server"}
  BlockSize = 8
  MaxSN = 15
  DLMod = 4096
  SendBuf = 4096
  RecvBuf = 1024
  Sizes = {8, 62, 132, 1025, 4096}
  MaxMsgs = 2
  Faults = {"loss", "early_bs", "early_cr"}
  Period = 5
  Timeout = 5
  Jitter = 1
  MaxDelay = 1
INVARIANTS FlowControlFresh
PROPERTIES KeepsThePremise CalmGivesUpNothing CalmDelivers
CHECK_DEADLOCK FALSE
