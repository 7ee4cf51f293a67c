---------------------------- MODULE MCAnnouncer ----------------------------
(* Instances of Announcer: pfx1 hosts two services, pfx2 one; grp3 is unknown. *)
EXTENDS Announcer, TLC

CONSTANTS svc1, svc2, svc3, pfx1, pfx2, grp1, grp2, grp3

MCPrefixOf == (svc1 :> pfx1) @@ (svc2 :> pfx1) @@ (svc3 :> pfx2)

Config(ga, gb, gc) == (svc1 :> ga) @@ (svc2 :> gb) @@ (svc3 :> gc)

(* Services come and go, every prefix keeps its group: StableGroups holds.  *)
StableConfigs ==
    {Config(grp1, grp1, grp2), Config(grp1, NoGroup, grp2), Config(NoGroup, NoGroup, NoGroup),
     Config(NoGroup, grp1, NoGroup),
     Config(grp1, grp1, grp3)}                                     \* refused

(* pfx1 moves between the groups, with one or two services.                 *)
MovingConfigs ==
    {Config(grp1, grp1, NoGroup), Config(grp2, grp2, NoGroup), Config(grp2, NoGroup, NoGroup),
     Config(NoGroup, NoGroup, NoGroup),
     Config(grp1, grp2, NoGroup)}                                     \* refused
=============================================================================
