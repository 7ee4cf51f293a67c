CONSTANTS
  svc1 = svc1  svc2 = svc2
  rpc1 = rpc1 srv1 = srv1 srv2 = srv2
  NoChild = NoChild  Free = Free  Stopper = Stopper  Main = Main
  Key = {svc1, svc2}
  Child = {srv1, srv2}
  Rpc = {rpc1}
  Version = {1, 2}
  Files <- MCFiles
SPECIFICATION FairSpec
INVARIANTS OneServicePerKey ServicesFollowConfig NoSendOnClosed
PROPERTIES StopEnds RequestEnds
CHECK_DEADLOCK FALSE
