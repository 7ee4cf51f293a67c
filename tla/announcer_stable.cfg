CONSTANTS
  svc1 = svc1  svc2 = svc2  svc3 = svc3  pfx1 = pfx1  pfx2 = pfx2  grp1 = grp1  grp2 = grp2  grp3 = grp3
  NoGroup = NoGroup
  NoEvent = NoEvent
  Service = {svc1, svc2, svc3}
  Prefix = {pfx1, pfx2}
  Group = {grp1, grp2}
  PrefixOf <- MCPrefixOf
  Configs <- StableConfigs
SPECIFICATION FairSpec
INVARIANTS CountersExact NoLostAnnounce NoStaleAnnounce
PROPERTIES ImplementsAnnouncement ReadyIsAnnounced StaleIsWithdrawn
CHECK_DEADLOCK FALSE
