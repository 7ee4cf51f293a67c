CONSTANTS
  w1 = w1  w2 = w2
  Workers = {w1, w2}
  Batch = 3
  MaxQueueLen = 8
  MaxFailures = 1
  Probes <- MCProbes
SPECIFICATION FairSpec
INVARIANTS ProbeRestored RoomWhenIdle
PROPERTY PacketIsHandled
