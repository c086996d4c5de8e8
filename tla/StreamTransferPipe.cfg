SPECIFICATION FairSpec
CONSTANTS
  s1 = s1
  s2 = s2
  Streams = {s1}
  Script <- Bursts
  Payload = 2
  PacketSize = 3
  InitialWindow = 4
  Window = 6
  WindowLimit = 12
  CacheLimit = 12
  MaxDups = 2
  MaxErrors = 1
INVARIANTS TypeOK WindowRespected GrantedFits IInv
PROPERTIES PipeSpec Completes
CHECK_DEADLOCK FALSE
