--------------------------- MODULE VirtualService ---------------------------
(***************************************************************************)
(* internal/core/service: the weight and the number of alive reals that a  *)
(* service keeps from the events of its reals, and the quorum that decides *)
(* whether it is announced.                                                *)
(***************************************************************************)
EXTENDS RealServer

(* Faulty variants: an Enable always adds the full weight; a Shutdown takes *)
(* nothing back.                                                            *)
WeightDeltaFull(event) ==
    IF event.type = "Enable" THEN event.new.weight ELSE -event.init.weight

WeightDeltaRunning(event) ==
    CASE event.type = "Enable" /\ event.init.enable -> event.new.weight - event.init.weight
      [] event.type = "Enable" /\ ~event.init.enable -> event.new.weight
      [] event.type = "Disable" -> -event.init.weight
      [] OTHER -> 0

(* processEvent: one section under the service's stateMu.                   *)
WeightDelta(event) ==
    CASE event.type = "Enable" /\ event.init.enable -> event.new.weight - event.init.weight
      [] event.type = "Enable" /\ ~event.init.enable -> event.new.weight
      [] OTHER -> -event.init.weight

AliveDelta(event) ==
    CASE event.type = "Enable" /\ event.init.enable -> 0
      [] event.type = "Enable" /\ ~event.init.enable -> 1
      [] OTHER -> -1

(* quorumState *)
QuorumUp == "quorumUp"
QuorumDown == "quorumDown"
QuorumHold == "quorumHold"

QuorumState(weight, quorum, hysteresis) ==
    CASE weight >= quorum + hysteresis -> QuorumUp
      [] weight < quorum + hysteresis /\ (weight < quorum - hysteresis \/ weight = 0) -> QuorumDown
      [] OTHER -> QuorumHold

(* Faulty variant: only Enable is compared, not the weight.                 *)
XEventMergeByEnable(event, newEvent) ==
    IF newEvent.new.enable = event.init.enable THEN NoEvent
    ELSE [event EXCEPT !.new = newEvent.new]

(* xevent.Event.Merge: an event that restores what the load balancer has is *)
(* dropped together with the pending one.                                   *)
XEventMerge(event, newEvent) ==
    IF newEvent.new = event.init THEN NoEvent
    ELSE [event EXCEPT !.new = newEvent.new]
=============================================================================
