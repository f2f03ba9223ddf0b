SPECIFICATION SFairSpec
CONSTANTS
  FromClient <- ClientPackets
  FromServer <- ServerPackets
  MaxPackets = 2
  MaxConnections = 4
  MaxClicks = 3
  MaxOutages = 1
  MaxSignals = 1
INVARIANTS SessionTypeOK ExactlyRead LabelAgrees
PROPERTIES CutsAlike StaysDown DisconnectEnds ComesBack
CHECK_DEADLOCK FALSE
