------------------------------ MODULE MCHealth ------------------------------
(* Instances of Health: real1 with chk1 and chk2, real2 with chk3.          *)
EXTENDS Health, TLC

CONSTANTS chk1, chk2, chk3, real1, real2

MCRealOf == [k \in CheckerKeys |-> IF k = chk3 THEN real2 ELSE real1]

(* No retries, or one for chk1; chk3 reports a weight.                      *)
Static == [k \in CheckerKeys |-> [retries |-> 0, dynamic |-> FALSE, coeff |-> 0]]
Mixed == [k \in CheckerKeys |-> [retries |-> IF k = chk1 THEN 1 ELSE 0,
                                 dynamic |-> k = chk3, coeff |-> 0]]

Config(reals, used, wr, inhibits, quorum, hysteresis) ==
    [reals |-> reals, checkers |-> used,
     weight |-> [k \in RealKeys |-> IF k = real1 THEN wr ELSE 1],
     inhibit |-> [k \in RealKeys |-> k \in inhibits],
     quorum |-> quorum, hysteresis |-> hysteresis, announce |-> TRUE]

(* A service without an announce group, its quorum out of reach: only the   *)
(* reals and the load balancer are of interest.                             *)
Unannounced(cfg) == [cfg EXCEPT !.announce = FALSE, !.quorum = 9]

(* One checker for each real; a real comes and goes, its weight changes.    *)
ComeAndGo ==
    {Unannounced(Config({real1, real2}, {chk1, chk3}, 1, {}, 1, 0)),
     Unannounced(Config({real2}, {chk3}, 1, {}, 1, 0))}

(* One real: its weight, and with it what the quorum and the hysteresis     *)
(* decide, change.                                                          *)
WeightAndQuorum ==
    {Config({real1}, {chk1}, 1, {}, 1, 0), Config({real1}, {chk1}, 2, {}, 2, 1)}

(* One real whose weight changes.                                           *)
OneReal == {Unannounced(Config({real1}, {chk1}, w, {}, 1, 0)) : w \in {1, 2}}

(* Two reals, one of them inhibited on failure.                             *)
InhibitConfigs == {Unannounced(Config({real1, real2}, {chk1, chk3}, 2, {real1}, 1, 0))}

(* The checkers of a real change: both, one or the other.                   *)
CheckerConfigs ==
    {Config({real1}, {chk1, chk2}, 1, {}, 1, 0), Config({real1}, {chk1}, 1, {}, 1, 0)}

(* The service gets or loses an announce group.                             *)
GroupConfigs ==
    {[Config({real1}, {chk1}, 1, {}, 1, 0) EXCEPT !.announce = announced] : announced \in BOOLEAN}

(* Bound of health_two: nothing is explored behind a Run that is stuck.     *)
(* Such a Run disables StopDone and nothing else.                           *)
NoneStuck == ~runStuck

TwoCheckers == {Config({real1}, {chk1, chk2}, 1, {}, 1, 0)}
TwoReals == {Config({real1, real2}, {chk1, chk3}, 1, {}, 1, 0)}
InhibitTwo == {Config({real1, real2}, {chk1, chk2, chk3}, 2, {real1}, 1, 0), Config({real2}, {chk3}, 2, {real1}, 1, 0)}
InhibitOff ==
    {Unannounced(Config({real1}, {chk1}, 1, {real1}, 1, 0)), Unannounced(Config({real1}, {chk1}, 1, {}, 1, 0))}
WeightConfigs == {Config({real1}, {chk1, chk2}, 1, {}, 1, 0), Config({real1}, {chk1}, 2, {}, 1, 0)}
=============================================================================
