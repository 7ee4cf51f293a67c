CONSTANTS
  chk1 = chk1  chk2 = chk2  chk3 = chk3  real1 = real1  real2 = real2
  NoEvent = NoEvent  NoReal = NoReal  Reloader = Reloader
  CheckerKeys = {chk1}
  RealKeys = {real1}
  RealOf <- MCRealOf
  CheckerConfig <- Static
  Reported = {}
  Configs <- WeightAndQuorum
  BalancerFails = FALSE
SPECIFICATION Spec
INVARIANTS BalancerInSync RealFollowsCheckers RealDiesWithCheckers
