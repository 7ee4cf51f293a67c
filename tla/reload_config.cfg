CONSTANTS
  req1 = req1  req2 = req2  vip1 = vip1  vip2 = vip2  ip1 = ip1  ip2 = ip2  host1 = host1  host2 = host2
  grp1 = grp1  grp2 = grp2  grp3 = grp3
  Nil = Nil
  NoGroup = NoGroup
  Invalid = Invalid
  Files <- MCFiles
  Text <- MCText
  Meant <- MCMeant
  NoFile = NoFile
  Requests = {req1, req2}
  KnownGroups = {grp1, grp2}
  Replacement = Nil
SPECIFICATION Spec
INVARIANTS FileUnderstood RunsAsConfigured OneGroupPerPrefix NoOrphans DumpFollows
