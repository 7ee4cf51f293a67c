CONSTANTS
  real1 = real1
  RealKeys = {real1}
  Failed = Failed
SPECIFICATION FairSpec
INVARIANT SyncInv
PROPERTIES ImplementsActivation PresentIsActivated StopEndsWait
