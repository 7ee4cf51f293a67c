CONSTANTS
  chk1 = chk1  chk2 = chk2  chk3 = chk3  real1 = real1  real2 = real2
  NoEvent = NoEvent  NoReal = NoReal  Reloader = Reloader
  CheckerKeys = {chk1, chk3}
  RealKeys = {real1, real2}
  RealOf <- MCRealOf
  CheckerConfig <- Mixed
  Reported = {2}
  Configs <- InhibitConfigs
  BalancerFails = TRUE
SPECIFICATION SpecRunning
INVARIANTS WeightConserved BalancerInSync
