------------------------------ MODULE Checker ------------------------------
(***************************************************************************)
(* internal/core/checker: what one result of a health check does to the    *)
(* state of its checker, and the event it sends to the real, if any.       *)
(* Everything here happens under the checker's stateMu.                    *)
(***************************************************************************)
EXTENDS Weight, EventRegistry

(* xevent.Event.  At this stage only the type and the weight are set.       *)
Status(enable, weight) == [enable |-> enable, weight |-> weight]

Event(type, weight) ==
    [type |-> type, new |-> Status(FALSE, weight), init |-> Status(FALSE, 0)]

Statuses == [enable : BOOLEAN, weight : Weights]

HandlerEvent ==
    [type : {"Enable", "Disable", "Shutdown"}, new : Statuses, init : Statuses]

(* checker.New: the weight of the real is handed over once, here.           *)
NewChecker(weight) ==
    [alive |-> FALSE, weight |-> weight, failedAttempts |-> 0,
     manualChanged |-> FALSE]

(* Checker.UpdateWeight, called by a reload that found the weight changed.  *)
UpdateWeight(checker, weight) ==
    [checker EXCEPT !.weight = weight, !.manualChanged = TRUE]

-----------------------------------------------------------------------------
(* A result is the new state and the event that is sent, NoEvent if none.   *)
Result(checker, event) == [checker |-> checker, event |-> event]

(* Faulty variant: the mark of a changed weight is removed by any success.  *)
ProcessSucceedUnmarks(checker, config, reported, force) ==
    LET weight == Recalculate(reported, checker.weight, config.coeff)
        statusChanged == ~checker.alive
        weightChanged == config.dynamic /\ weight # checker.weight
        enabled == [checker EXCEPT
                      !.alive = TRUE, !.manualChanged = FALSE,
                      !.failedAttempts = IF statusChanged THEN 0 ELSE @,
                      !.weight = IF config.dynamic THEN weight ELSE @]
    IN  IF statusChanged \/ weightChanged \/ force
        THEN Result(enabled, Event("Enable", enabled.weight))
        ELSE Result(enabled, NoEvent)

(* processSucceed.  reported is md.Weight: what the check found in the      *)
(* answer, or the weight in the snapshot it started from; force is the      *)
(* manualChanged of that snapshot.  config.dynamic is DynamicWeight.        *)
ProcessSucceed(checker, config, reported, force) ==
    LET weight == Recalculate(reported, checker.weight, config.coeff)
        statusChanged == ~checker.alive
        weightChanged == config.dynamic /\ weight # checker.weight
        enabled == [checker EXCEPT
                      !.alive = TRUE,
                      !.failedAttempts = IF statusChanged THEN 0 ELSE @,
                      !.weight = IF config.dynamic THEN weight ELSE @]
    IN  IF statusChanged \/ weightChanged \/ force
        THEN Result([enabled EXCEPT !.manualChanged = FALSE],
                    Event("Enable", enabled.weight))
        ELSE Result(enabled, NoEvent)

(* failedAttempt.  The counter is only ever compared with the number of     *)
(* retries, so it is not counted further than one above it.                 *)
FailedAttempt(checker, config) ==
    [checker EXCEPT !.failedAttempts = SmallerOf(@ + 1, config.retries + 1)]

(* processFail for the error of a check: an event for every failure beyond  *)
(* the retries, even if the checker is disabled already.                    *)
ProcessFail(checker, config) ==
    LET failed == FailedAttempt(checker, config)
    IN  IF failed.failedAttempts > config.retries
        THEN Result([failed EXCEPT !.alive = FALSE], Event("Disable", Omitted))
        ELSE Result(failed, NoEvent)

(* Faulty variant: the checker leaves silently.                             *)
ProcessShutdownSilent(checker) == Result(checker, NoEvent)

(* processFail for ErrShutdown, when Run returns: the state stays, the      *)
(* event is always sent.                                                    *)
ProcessShutdown(checker) == Result(checker, Event("Shutdown", Omitted))
=============================================================================
