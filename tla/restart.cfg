CONSTANTS
  svc1 = svc1  svc2 = svc2  pfx1 = pfx1  grp1 = grp1  grp2 = grp2
  NoGroup = NoGroup
  NoEvent = NoEvent
  Service = {svc1, svc2}
  Prefix = {pfx1}
  Group = {grp1}
  PrefixOf <- OnePrefix
  Configs <- StableConfigs
SPECIFICATION FairSpecRestart
INVARIANTS RestartHeals
PROPERTY RestartLeadsToSync
CHECK_DEADLOCK FALSE
