SPECIFICATION FairSpec
CONSTANTS
  Payloads <- McPayloads
  Crc <- McCrc
  Noise <- McNoise
  Timeout = 3
  BurstTicks = 2
  RetransmitCount = 1
  QueueCap = 3
  MaxBursts = 2
  MaxFaults = 1
INVARIANTS TypeOK Faithful CleanBurstDelivered
PROPERTIES Delivery WholeBurstHandled
CHECK_DEADLOCK FALSE
