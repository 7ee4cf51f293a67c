------------------------- MODULE MCAnnouncerRestart -------------------------
(* Instances of AnnouncerRestart: one announce group, or a second to move to. *)
EXTENDS AnnouncerRestart, TLC

CONSTANTS svc1, svc2, pfx1, grp1, grp2

(* Two services of one prefix.                                              *)
OnePrefix == (svc1 :> pfx1) @@ (svc2 :> pfx1)

(* Services come and go.                                                    *)
StableConfigs == [{svc1, svc2} -> {grp1, NoGroup}]

(* They meet the hypothesis of RestartHealsTheorem.                         *)
ASSUME MCStableGroups == Configs = StableConfigs => StableGroups

(* They move to the other group: with both in Group, RestartHeals fails.    *)
MovingConfigs == [{svc1, svc2} -> {grp1, grp2, NoGroup}]
=============================================================================
