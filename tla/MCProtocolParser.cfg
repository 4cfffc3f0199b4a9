SPECIFICATION ParserSpec
CONSTANTS
  Packets <- MCPackets
  NoiseWords <- MCNoise
  step_size = 2
  MaxPackets = 3
  MaxDamaged = 1
  SomeBytes <- MCBytes
  SomeCharacters <- MCCharacters
  MaxLen = 4
INVARIANTS StreamAccounted MemoryFollowsBacklog NothingLeftWaiting ConversionsInvert
PROPERTIES ParseReturns WedgedForGood
CHECK_DEADLOCK FALSE
