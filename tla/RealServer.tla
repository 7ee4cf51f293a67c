----------------------------- MODULE RealServer -----------------------------
(***************************************************************************)
(* internal/core/real: what an event of one of its checkers does to the    *)
(* state of a real, and the event it hands on to the service.  One call of *)
(* HandleEvent's processSucceed or processFail is one section under the    *)
(* real's stateMu.                                                         *)
(***************************************************************************)
EXTENDS Checker

(* The zero State of a new Real. *)
NewReal == [alive |-> FALSE, weight |-> 0, dynWeight |-> FALSE, inhibited |-> FALSE]

(* State.Status *)
StatusOfReal(real) ==
    IF real.inhibited THEN Status(TRUE, 0) ELSE Status(real.alive, real.weight)

(* What the real adds to the weight of its service.                         *)
Contribution(real) ==
    IF StatusOfReal(real).enable THEN StatusOfReal(real).weight ELSE 0

Counted(real) == IF StatusOfReal(real).enable THEN 1 ELSE 0

-----------------------------------------------------------------------------
(* handleDynamicWeight *)
HandleDynamicWeight(real, config, weightFromChecker) ==
    CASE ~real.dynWeight -> config.weight
      [] real.dynWeight /\ weightFromChecker # Omitted -> weightFromChecker
      [] OTHER -> real.weight

(* A handled event: the new state of the real and the event for the         *)
(* service, NoEvent when it is dropped.                                     *)
Handled(real, event) == [real |-> real, event |-> event]

(* Faulty variant: only a new weight counts as a change.                    *)
RealSucceedByWeight(real, config, event) ==
    LET weight == HandleDynamicWeight(real, config, event.new.weight)
        enabled == [real EXCEPT !.weight = weight, !.alive = TRUE, !.inhibited = FALSE]
    IN  IF weight = real.weight
        THEN Handled(real, NoEvent)
        ELSE Handled(enabled, [event EXCEPT !.new = StatusOfReal(enabled),
                                            !.init = StatusOfReal(real)])

(* processSucceed: updateWeight, then enableReal.                           *)
RealSucceed(real, config, event) ==
    LET weight == HandleDynamicWeight(real, config, event.new.weight)
        enabled == [real EXCEPT !.weight = weight,
                                !.alive = TRUE,
                                !.inhibited = IF real.alive THEN @ ELSE FALSE]
    IN  IF real.alive /\ weight = real.weight
        THEN Handled(real, NoEvent)
        ELSE Handled(enabled, [event EXCEPT !.new = StatusOfReal(enabled),
                                            !.init = StatusOfReal(real)])

(* Faulty variant: "or" for "and" in the first early return.                *)
DisableIsNoChangeOr(real, config, type) == ~real.alive \/ ~config.inhibit

(* The early returns of disableReal. *)
DisableIsNoChange(real, config, type) ==
    /\ ~real.alive
    /\ ~config.inhibit \/ (real.inhibited /\ type # "Shutdown")

(* Faulty variant: the event of an inhibited real stays a Disable.          *)
RealFailPlain(real, config, event) ==
    LET disabled == [real EXCEPT
                       !.alive = FALSE,
                       !.inhibited = CASE event.type = "Shutdown" -> FALSE
                                       [] event.type # "Shutdown" /\ config.inhibit -> TRUE
                                       [] OTHER -> @]
    IN  IF DisableIsNoChange(real, config, event.type)
        THEN Handled(real, NoEvent)
        ELSE Handled(disabled, [event EXCEPT !.init = StatusOfReal(real)])

(* processFail with disableReal: an inhibited real stays enabled with       *)
(* weight 0, so the event becomes an Enable.                                *)
RealFail(real, config, event) ==
    LET disabled == [real EXCEPT
                       !.alive = FALSE,
                       !.inhibited = CASE event.type = "Shutdown" -> FALSE
                                       [] event.type # "Shutdown" /\ config.inhibit -> TRUE
                                       [] OTHER -> @]
    IN  IF DisableIsNoChange(real, config, event.type)
        THEN Handled(real, NoEvent)
        ELSE Handled(disabled,
                IF disabled.inhibited
                THEN [event EXCEPT !.type = "Enable", !.new = Status(TRUE, 0),
                                   !.init = StatusOfReal(real)]
                ELSE [event EXCEPT !.init = StatusOfReal(real)])

(* Faulty variant: the switch has no case for Shutdown.                     *)
HandleEventRunning(real, config, event) ==
    CASE event.type = "Enable" -> RealSucceed(real, config, event)
      [] event.type = "Disable" -> RealFail(real, config, event)
      [] OTHER -> Handled(real, NoEvent)

HandleEvent(real, config, event) ==
    IF event.type = "Enable" THEN RealSucceed(real, config, event)
    ELSE RealFail(real, config, event)
=============================================================================
