SPECIFICATION SSpec
CONSTANTS
  FromClient <- ClientPackets
  FromServer <- ServerPackets
  MaxPackets = 2
  MaxConnections = 2
  MaxClicks = 1
  MaxOutages = 1
  MaxSignals = 1
INVARIANTS ReadAfterReconnect
CHECK_DEADLOCK FALSE
