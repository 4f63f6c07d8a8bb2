SPECIFICATION Spec
CONSTANTS
  Payloads <- McPayloads
  Crc <- McCrc
  Noise <- McNoise
  Timeout = 3
  BurstTicks = 2
  RetransmitCount = 1
  QueueCap = 3
  MaxBursts = 2
  MaxFaults = 0
INVARIANT EveryCleanBurstDelivered
CHECK_DEADLOCK FALSE
