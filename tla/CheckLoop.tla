----------------------------- MODULE CheckLoop -----------------------------
(***************************************************************************)
(* One checker with its loop: Checker.Run with its goroutine that turns a  *)
(* shutdown into a cancelled context, Scheduler.Run with its delays and    *)
(* retries, the check itself (Checks), and the processing of its result    *)
(* (Checker).  Reloads change the weight next to it, and Stop waits for it. *)
(*                                                                         *)
(* Timers fire at any time; a select between a timer and a cancelled       *)
(* context takes either.                                                   *)
(***************************************************************************)
EXTENDS Checker, Checks

CONSTANTS
    CheckConfigs,  \* settings of checkers
    Answers,       \* what the real may answer
    NewWeights     \* weights a reload may set

ASSUME CheckLoopAssumption ==
    /\ \A c \in CheckConfigs :
          /\ c.retries \in Nat /\ c.coeff \in Nat /\ c.dynamic \in BOOLEAN
          /\ c.kind \in {"tcp", "http", "grpc"}
    /\ \A a \in Answers : a.header \in Int /\ a.body \in Int
    /\ NewWeights \subseteq Nat
    /\ NoEvent \notin HandlerEvent

VARIABLES
    config,        \* the checker's settings
    checker,       \* its state, under stateMu
    pc,            \* Run: start, delay, job, retry, loop, exit, ended
    attempt,       \* the counter i of the retry loop
    md,            \* the metadata of the running check, with the force flag
    shutdown, cancelled, parent,  \* the signal, the context, the parent context
    watcher,       \* the goroutine of Run: none, select, stop, ended
    stop,          \* a caller of Stop: none, wait, returned
    told,          \* the last event sent to the real
    round,         \* history: how the last round of attempts ended
    early, late    \* history: Stop came before Run counted itself; an event
                   \* was sent after Stop had returned

vars == <<config, checker, pc, attempt, md, shutdown, cancelled, parent, watcher,
          stop, told, round, early, late>>

Init ==
    /\ config \in CheckConfigs
    /\ \E w \in NewWeights : checker = NewChecker(w)
    /\ pc = "start" /\ attempt = 0
    /\ md = [alive |-> FALSE, weight |-> Omitted, force |-> FALSE]
    /\ shutdown = FALSE /\ cancelled = FALSE /\ parent = FALSE
    /\ watcher = "none" /\ stop = "none"
    /\ told = NoEvent /\ round = "none"
    /\ early = FALSE /\ late = FALSE

-----------------------------------------------------------------------------
(* The counter eventsWG is one from the start of Run to the end of its      *)
(* shutdown event; results are processed by Run itself, so they never make  *)
(* it zero in between.                                                      *)
Events == IF pc \in {"start", "ended"} THEN 0 ELSE 1

Send(event) ==
    IF event = NoEvent THEN UNCHANGED <<told, late>>
    ELSE told' = event /\ late' = (late \/ stop = "returned")

(* Run counts itself, starts its goroutine and asks the scheduler to wait   *)
(* for the initial delay, unless the context is cancelled already.          *)
Start ==
    /\ pc = "start"
    /\ pc' = IF cancelled THEN "exit" ELSE "delay"
    /\ watcher' = "select"
    /\ UNCHANGED <<config, checker, attempt, md, shutdown, cancelled, parent, stop,
                   told, round, early, late>>

(* Faulty variant: the check does not know of the changed weight.           *)
TakeJobForgets(i) ==
    /\ attempt' = i /\ pc' = "job"
    /\ md' = [alive |-> checker.alive, weight |-> checker.weight, force |-> FALSE]
    /\ UNCHANGED <<config, checker, shutdown, cancelled, parent, watcher, stop,
                   told, round, early, late>>

(* A delay ends: a check starts from a copy of the state.                   *)
TakeJob(i) ==
    /\ attempt' = i /\ pc' = "job"
    /\ md' = [alive |-> checker.alive, weight |-> checker.weight,
              force |-> checker.manualChanged]
    /\ UNCHANGED <<config, checker, shutdown, cancelled, parent, watcher, stop,
                   told, round, early, late>>

TimerFires ==
    \/ pc \in {"delay", "loop"} /\ TakeJob(0)
    \/ pc = "retry" /\ TakeJob(attempt + 1)

ContextDone ==
    /\ pc \in {"delay", "retry", "loop"} /\ cancelled
    /\ pc' = "exit"
    /\ UNCHANGED <<config, checker, attempt, md, shutdown, cancelled, parent,
                   watcher, stop, told, round, early, late>>

(* ProcessCheck goes by the metadata, not by the error.                     *)
ProcessCheck(result) ==
    IF result.md.alive
    THEN ProcessSucceed(checker, config, result.md.weight, md.force)
    ELSE ProcessFail(checker, config)

(* The retry loop is left after a success or the last attempt.              *)
AfterJob(ok) ==
    CASE ok -> "loop"
      [] ~ok /\ attempt = config.retries -> "loop"
      [] OTHER -> "retry"

(* The check ends with this answer, and its result is processed.            *)
Finish(answer) ==
    LET result == Do(config, Metadata(md.alive, md.weight), answer)
        processed == ProcessCheck(result)
    IN  /\ pc = "job"
        /\ checker' = processed.checker
        /\ Send(processed.event)
        /\ pc' = AfterJob(result.ok)
        /\ round' = IF AfterJob(result.ok) # "loop" THEN round
                    ELSE IF result.ok THEN "passed" ELSE "failed"
        /\ md' = [alive |-> FALSE, weight |-> Omitted, force |-> FALSE]
        /\ UNCHANGED <<config, attempt, shutdown, cancelled, parent, watcher, stop,
                       early>>

(* The real answers, unless the context of the check is cancelled.          *)
Answered == ~cancelled /\ \E answer \in Answers : Finish(answer)

(* Nothing comes: the check runs into its timeout, if it has one.           *)
TimedOut == TimesOut(config) /\ Finish(NoAnswer)

(* A cancelled context ends the check with an error like any other.         *)
Aborted == cancelled /\ Finish(NoAnswer)

(* The deferred functions of Run: cancel the context, process the shutdown  *)
(* event, and count down.                                                   *)
Exit ==
    /\ pc = "exit"
    /\ cancelled' = TRUE
    /\ checker' = ProcessShutdown(checker).checker
    /\ Send(ProcessShutdown(checker).event)
    /\ pc' = "ended"
    /\ UNCHANGED <<config, attempt, md, shutdown, parent, watcher, stop, round, early>>

-----------------------------------------------------------------------------
(* Faulty variant: the signal ends the goroutine but not the check.         *)
WatchShutdownIgnored ==
    /\ watcher = "select" /\ shutdown
    /\ watcher' = "ended"
    /\ UNCHANGED <<config, checker, pc, attempt, md, shutdown, cancelled, parent, stop,
                   told, round, early, late>>

(* The goroutine of Run: a shutdown cancels the context.                    *)
WatchShutdown ==
    /\ watcher = "select" /\ shutdown
    /\ cancelled' = TRUE /\ watcher' = "ended"
    /\ UNCHANGED <<config, checker, pc, attempt, md, shutdown, parent, stop, told,
                   round, early, late>>

(* Or the context is done, and it calls Stop itself.                        *)
WatchContext ==
    /\ watcher = "select" /\ cancelled
    /\ shutdown' = TRUE /\ watcher' = "stop"
    /\ UNCHANGED <<config, checker, pc, attempt, md, cancelled, parent, stop, told,
                   round, early, late>>

WatchStopped ==
    /\ watcher = "stop" /\ Events = 0
    /\ watcher' = "ended"
    /\ UNCHANGED <<config, checker, pc, attempt, md, shutdown, cancelled, parent,
                   stop, told, round, early, late>>

(* The application's context, from which Run derives its own, is cancelled. *)
ParentCancelled ==
    /\ ~parent
    /\ parent' = TRUE /\ cancelled' = TRUE
    /\ UNCHANGED <<config, checker, pc, attempt, md, shutdown, watcher, stop, told,
                   round, early, late>>

(* The real stops the checker: Stop sends the signal and waits.             *)
Stop ==
    /\ stop = "none"
    /\ shutdown' = TRUE /\ stop' = "wait"
    /\ early' = (pc = "start")
    /\ UNCHANGED <<config, checker, pc, attempt, md, cancelled, parent, watcher, told,
                   round, late>>

(* Faulty variant: Stop does not wait.                                      *)
StopReturnsAtOnce ==
    /\ stop = "wait"
    /\ stop' = "returned"
    /\ UNCHANGED <<config, checker, pc, attempt, md, shutdown, cancelled, parent,
                   watcher, told, round, early, late>>

StopReturns ==
    /\ stop = "wait" /\ Events = 0
    /\ stop' = "returned"
    /\ UNCHANGED <<config, checker, pc, attempt, md, shutdown, cancelled, parent,
                   watcher, told, round, early, late>>

(* A reload found the weight of the real changed.                           *)
SetWeight ==
    /\ stop = "none"
    /\ \E w \in NewWeights : checker' = UpdateWeight(checker, w)
    /\ UNCHANGED <<config, pc, attempt, md, shutdown, cancelled, parent, watcher, stop,
                   told, round, early, late>>

-----------------------------------------------------------------------------
RunNext ==
    Start \/ TimerFires \/ ContextDone \/ TimedOut \/ Aborted \/ Exit

WatcherNext == WatchShutdown \/ WatchContext \/ WatchStopped

Next ==
    \/ RunNext \/ WatcherNext \/ Answered
    \/ ParentCancelled \/ Stop \/ StopReturns \/ SetWeight

Spec == Init /\ [][Next]_vars

(* Goroutines run and timers fire; among the ready cases of a select Go     *)
(* chooses at random, so a cancelled context is not passed over for ever.   *)
(* Nothing is assumed of the real's answers.                                *)
FairSpec ==
    /\ Spec
    /\ WF_vars(RunNext) /\ WF_vars(WatcherNext) /\ WF_vars(StopReturns)
    /\ SF_vars(ContextDone)

-----------------------------------------------------------------------------
(* The variables have their types; the attempts stay within the retries.    *)
TypeOK ==
    /\ config \in CheckConfigs
    /\ checker \in [alive : BOOLEAN, weight : Weights, failedAttempts : Nat,
                    manualChanged : BOOLEAN]
    /\ pc \in {"start", "delay", "job", "retry", "loop", "exit", "ended"}
    /\ attempt \in 0..config.retries
    /\ md \in [alive : BOOLEAN, weight : Weights, force : BOOLEAN]
    /\ shutdown \in BOOLEAN /\ cancelled \in BOOLEAN /\ parent \in BOOLEAN
    /\ early \in BOOLEAN /\ late \in BOOLEAN
    /\ watcher \in {"none", "select", "stop", "ended"}
    /\ stop \in {"none", "wait", "returned"}
    /\ round \in {"none", "passed", "failed"}

(* Between two rounds the checker is alive if and only if the last round    *)
(* ended with a success: retries plus one failures in a row always disable  *)
(* it, whatever was counted before, and no result is taken for the other.   *)
AliveIsLastRound == pc = "loop" => checker.alive = (round = "passed")

(* As long as Run has not ended, the real was told what the checker's state *)
(* is: enabled with its weight, or with a change of the weight still marked *)
(* to be reported; or not enabled.                                          *)
RealKnows ==
    pc # "ended" =>
      IF checker.alive
      THEN /\ told # NoEvent /\ told.type = "Enable"
           /\ ~checker.manualChanged => told.new.weight = checker.weight
      ELSE told = NoEvent \/ told.type = "Disable"

(* No event is sent once Stop has returned, except if Stop was called       *)
(* before Run had counted itself.                                           *)
QuietAfterStop == late => early

(* Why the three hold.  In a round every failed attempt was counted, so the *)
(* last one finds the counter at the retries at least.                      *)
AttemptsCounted ==
    /\ pc = "job" => checker.failedAttempts >= attempt
    /\ pc = "retry" => /\ attempt < config.retries
                       /\ checker.failedAttempts >= attempt + 1

(* Stop returns before the end of Run only if Run had not counted itself.   *)
StopWaits ==
    /\ stop = "none" => ~late
    /\ stop # "none" /\ pc = "start" => early
    /\ stop = "returned" => early \/ pc = "ended"

(* The inductive invariant of the loop.                                     *)
LoopInv ==
    /\ TypeOK /\ told \in HandlerEvent \cup {NoEvent}
    /\ AttemptsCounted /\ AliveIsLastRound /\ RealKnows
    /\ StopWaits /\ QuietAfterStop

(* Run ends once it is asked to, after the attempt under way, even if the   *)
(* real never answers and the check has no timeout; so does Stop.           *)
StopEnds ==
    /\ stop = "wait" ~> stop = "returned"
    /\ shutdown \/ cancelled ~> pc = "ended" /\ watcher = "ended"

(* A changed weight reaches the real if checks keep succeeding.             *)
ManualWeightArrives ==
    []<>(pc = "loop" /\ round = "passed") =>
        (checker.manualChanged /\ pc # "ended" ~>
             told # NoEvent /\ told.new.weight = checker.weight)

(* A checker that is alive is disabled only by the last attempt of a round. *)
(* This one fails: successes of a checker that is alive do not reset the    *)
(* counter of failed attempts.                                              *)
DownAfterFailedRound ==
    [][checker.alive /\ ~checker'.alive => attempt = config.retries]_vars
=============================================================================
