-------------------------- MODULE CheckLoopProofs --------------------------
(* Theorems about CheckLoop: a checker and its loop, for every setting,     *)
(* answer and weight.                                                       *)
EXTENDS CheckLoop, HandlerProofs

-----------------------------------------------------------------------------
(* What is known of the constants.                                          *)
LEMMA Settings ==
    NoEvent \notin HandlerEvent /\ \A c \in CheckConfigs : CheckerSettings(c)
BY CheckLoopAssumption DEF CheckerSettings

(* Check.Do leaves metadata that are alive exactly if it returned no error. *)
LEMMA DoResult ==
    ASSUME NEW c \in CheckConfigs, NEW before, NEW answer \in Answers \cup {NoAnswer}
    PROVE  /\ Do(c, before, answer).md.alive = Do(c, before, answer).ok
           /\ Do(c, before, answer).ok \in BOOLEAN
           /\ Do(c, before, answer).md.weight \in Weights
<1>1. answer.header \in Int /\ answer.body \in Int
    BY CheckLoopAssumption DEF NoAnswer, Absent
<1>2. \A text \in Int : Unmarshal(text) \in Weights
    BY DEF Unmarshal, Weights, Omitted
<1>3. Omitted \in Weights
    BY DEF Weights
<1>4. c.kind \in {"tcp", "http", "grpc"}
    BY CheckLoopAssumption
<1>5. WeightFrom(c, answer) \in Weights
    BY <1>1, <1>2, <1>3, <1>4 DEF WeightFrom, HTTPWeightFrom, GRPCWeightFrom
<1>6. Accepted(c, answer) \in BOOLEAN
    BY <1>4 DEF Accepted, TCPAccepted, HTTPAccepted, GRPCAccepted
<1> QED
    BY <1>3, <1>5, <1>6 DEF Do, Metadata, SetInactive

-----------------------------------------------------------------------------
(* A checker begins with nothing counted and nothing told.                  *)
LEMMA InitLoop == Init => LoopInv
<1> SUFFICES ASSUME Init PROVE LoopInv
    OBVIOUS
<1>1. PICK w \in NewWeights : checker = NewChecker(w)
    BY DEF Init
<1>2. w \in Nat /\ config.retries \in Nat
    BY CheckLoopAssumption DEF Init
<1>3. checker \in CheckerState /\ ~checker.alive
    BY <1>1, <1>2 DEF NewChecker, CheckerState, Weights
<1>4. TypeOK
  <2>1. md \in [alive : BOOLEAN, weight : Weights, force : BOOLEAN]
    BY DEF Init, Weights
  <2>2. attempt \in 0..config.retries
    BY <1>2 DEF Init
  <2> QED
    BY <1>3, <2>1, <2>2 DEF Init, TypeOK, CheckerState
<1> QED
    BY <1>3, <1>4 DEF Init, LoopInv, AttemptsCounted, AliveIsLastRound, RealKnows,
                      StopWaits, QuietAfterStop

(* The end of a check, with its result processed, keeps the invariant.      *)
LEMMA FinishKeeps ==
    ASSUME LoopInv, NEW answer \in Answers \cup {NoAnswer}, Finish(answer)
    PROVE  LoopInv'
<1> DEFINE result == Do(config, Metadata(md.alive, md.weight), answer)
           processed == ProcessCheck(result)
<1>1. /\ config \in CheckConfigs /\ config.retries \in Nat /\ attempt \in 0..config.retries
      /\ checker \in CheckerState /\ md.force \in BOOLEAN
    BY CheckLoopAssumption DEF LoopInv, TypeOK, CheckerState
<1>2. /\ result.md.alive = result.ok /\ result.ok \in BOOLEAN
      /\ result.md.weight \in Weights
    BY <1>1, DoResult
<1>3. /\ pc = "job" /\ checker' = processed.checker
      /\ Send(processed.event)
      /\ pc' = AfterJob(result.ok)
      /\ round' = IF AfterJob(result.ok) # "loop" THEN round
                  ELSE IF result.ok THEN "passed" ELSE "failed"
      /\ md' = [alive |-> FALSE, weight |-> Omitted, force |-> FALSE]
      /\ UNCHANGED <<config, attempt, shutdown, cancelled, parent, watcher, stop, early>>
    BY DEF Finish
<1>4. processed = IF result.ok
                  THEN ProcessSucceed(checker, config, result.md.weight, md.force)
                  ELSE ProcessFail(checker, config)
    BY <1>2 DEF ProcessCheck
<1> HIDE DEF processed, result
<1>5. Event("Disable", Omitted) \in HandlerEvent /\ Event("Disable", Omitted).type = "Disable"
    BY EventIsTyped DEF Weights
<1>6. /\ processed.checker \in CheckerState
      /\ processed.event \in HandlerEvent \cup {NoEvent}
  <2>1. CASE result.ok
    BY <1>1, <1>2, <1>4, <2>1, Settings, SucceedResult
  <2>2. CASE ~result.ok
    BY <1>1, <1>4, <1>5, <2>2, Settings, FailResult
  <2> QED
    BY <2>1, <2>2
<1>7. /\ told' = IF processed.event = NoEvent THEN told ELSE processed.event
      /\ late' = (late \/ (processed.event # NoEvent /\ stop = "returned"))
    BY <1>3 DEF Send, LoopInv, TypeOK
<1>8. /\ result.ok => AfterJob(result.ok) = "loop"
      /\ ~result.ok /\ attempt = config.retries => AfterJob(result.ok) = "loop"
      /\ ~result.ok /\ attempt # config.retries => AfterJob(result.ok) = "retry"
    BY DEF AfterJob
<1>9. TypeOK'
  <2>1. checker' \in CheckerState
    BY <1>3, <1>6
  <2>2. pc' \in {"loop", "retry"} /\ round' \in {"none", "passed", "failed"}
    BY <1>2, <1>3, <1>8 DEF LoopInv, TypeOK
  <2>3. late' \in BOOLEAN
    BY <1>7
  <2>4. md' \in [alive : BOOLEAN, weight : Weights, force : BOOLEAN]
    BY <1>3 DEF Weights
  <2> QED
    BY <1>3, <2>1, <2>2, <2>3, <2>4 DEF LoopInv, TypeOK, CheckerState
<1>10. (told \in HandlerEvent \cup {NoEvent})'
    BY <1>6, <1>7 DEF LoopInv
<1>11. StopWaits' /\ QuietAfterStop'
  <2>1. pc' \in {"loop", "retry"}
    BY <1>2, <1>3, <1>8
  <2>2. stop = "returned" => early
    BY <1>3 DEF LoopInv, StopWaits
  <2> QED
    BY <1>3, <1>7, <2>1, <2>2 DEF LoopInv, StopWaits, QuietAfterStop
<1>12. CASE result.ok
  <2>1. pc' = "loop" /\ round' = "passed"
    BY <1>3, <1>8, <1>12
  <2>2. /\ checker'.alive = TRUE
        /\ processed.event = NoEvent =>
              /\ checker.alive /\ checker'.weight = checker.weight
              /\ checker'.manualChanged = checker.manualChanged
        /\ processed.event # NoEvent =>
              /\ processed.event.type = "Enable"
              /\ processed.event.new.weight = checker'.weight
    BY <1>1, <1>2, <1>3, <1>4, <1>6, <1>12, Settings, SucceedResult DEF CheckerState
  <2>3. RealKnows'
    BY <1>3, <1>7, <2>1, <2>2 DEF LoopInv, RealKnows
  <2>4. AliveIsLastRound' /\ AttemptsCounted'
    BY <2>1, <2>2 DEF AliveIsLastRound, AttemptsCounted
  <2> QED
    BY <1>9, <1>10, <1>11, <2>3, <2>4 DEF LoopInv
<1>13. CASE ~result.ok
  <2>1. /\ checker'.failedAttempts
                = SmallerOf(checker.failedAttempts + 1, config.retries + 1)
        /\ checker'.weight = checker.weight
        /\ checker'.manualChanged = checker.manualChanged
        /\ IF checker'.failedAttempts > config.retries
           THEN ~checker'.alive /\ processed.event = Event("Disable", Omitted)
           ELSE checker'.alive = checker.alive /\ processed.event = NoEvent
    BY <1>1, <1>3, <1>4, <1>13, Settings, FailResult
  <2>2. checker.failedAttempts >= attempt /\ checker.failedAttempts \in Nat
    BY <1>1, <1>3 DEF LoopInv, AttemptsCounted, CheckerState
  <2>3. checker'.failedAttempts >= attempt + 1
    BY <1>1, <2>1, <2>2 DEF SmallerOf
  <2>4. Event("Disable", Omitted) # NoEvent
    BY <1>5, CheckLoopAssumption
  <2>5. RealKnows'
    BY <1>3, <1>5, <1>7, <2>1, <2>4 DEF LoopInv, RealKnows
  <2>6. CASE attempt = config.retries
    <3>1. pc' = "loop" /\ round' = "failed"
      BY <1>3, <1>8, <1>13, <2>6
    <3>2. checker'.alive = FALSE
      BY <1>1, <1>3, <1>6, <2>1, <2>3, <2>6 DEF CheckerState
    <3> QED
      BY <1>9, <1>10, <1>11, <2>5, <3>1, <3>2 DEF LoopInv, AliveIsLastRound, AttemptsCounted
  <2>7. CASE attempt # config.retries
    <3>1. pc' = "retry" /\ attempt' = attempt /\ config' = config
      BY <1>3, <1>8, <1>13, <2>7
    <3>2. attempt < config.retries
      BY <1>1, <2>7
    <3> QED
      BY <1>9, <1>10, <1>11, <2>3, <2>5, <3>1, <3>2
         DEF LoopInv, AliveIsLastRound, AttemptsCounted
  <2> QED
    BY <2>6, <2>7
<1> QED
    BY <1>2, <1>12, <1>13

(* Every step of the checker, its watcher and its owner keeps the           *)
(* invariant.                                                               *)
LEMMA StepLoop == LoopInv /\ [Next]_vars => LoopInv'
<1> SUFFICES ASSUME LoopInv, [Next]_vars PROVE LoopInv'
    OBVIOUS
<1> USE DEF LoopInv
<1>0. config.retries \in Nat
    BY CheckLoopAssumption DEF TypeOK
<1>1. CASE Start
    BY <1>1 DEF Start, TypeOK, AttemptsCounted, AliveIsLastRound, RealKnows, StopWaits,
                QuietAfterStop
<1>2. CASE TimerFires
  <2>1. /\ pc' = "job" /\ attempt' \in 0..config.retries
        /\ checker.failedAttempts >= attempt'
        /\ UNCHANGED <<config, checker, shutdown, cancelled, parent, watcher, stop, told,
                       round, early, late>>
    BY <1>0, <1>2 DEF TimerFires, TakeJob, TypeOK, AttemptsCounted
  <2>2. md' \in [alive : BOOLEAN, weight : Weights, force : BOOLEAN]
    BY <1>2 DEF TimerFires, TakeJob, TypeOK
  <2>3. pc \notin {"start", "ended"}
    BY <1>2 DEF TimerFires
  <2>4. TypeOK'
    BY <2>1, <2>2 DEF TypeOK
  <2> QED
    BY <2>1, <2>3, <2>4 DEF AttemptsCounted, AliveIsLastRound, RealKnows, StopWaits,
                            QuietAfterStop
<1>3. CASE ContextDone
    BY <1>3 DEF ContextDone, TypeOK, AttemptsCounted, AliveIsLastRound, RealKnows, StopWaits,
                QuietAfterStop
<1>4. CASE Answered \/ TimedOut \/ Aborted
  <2>1. PICK answer \in Answers \cup {NoAnswer} : Finish(answer)
    BY <1>4 DEF Answered, TimedOut, Aborted
  <2> QED
    BY <2>1, FinishKeeps
<1>5. CASE Exit
  <2>1. /\ checker' = checker /\ pc' = "ended" /\ cancelled' = TRUE
        /\ Send(Event("Shutdown", Omitted)) /\ pc = "exit"
        /\ UNCHANGED <<config, attempt, md, shutdown, parent, watcher, stop, round, early>>
    BY <1>5 DEF Exit, ProcessShutdown, Result
  <2>2. Event("Shutdown", Omitted) \in HandlerEvent
    BY EventIsTyped DEF Weights
  <2>3. told' = Event("Shutdown", Omitted) /\ late' = (late \/ stop = "returned")
    BY <2>1, <2>2, CheckLoopAssumption DEF Send
  <2>4. TypeOK'
    BY <2>1, <2>3 DEF TypeOK
  <2> QED
    BY <2>1, <2>2, <2>3, <2>4 DEF AttemptsCounted, AliveIsLastRound, RealKnows, StopWaits,
                                  QuietAfterStop
<1>6. CASE WatcherNext \/ ParentCancelled
  <2>1. UNCHANGED <<config, checker, pc, attempt, md, stop, told, round, early, late>>
    BY <1>6 DEF WatcherNext, WatchShutdown, WatchContext, WatchStopped, ParentCancelled
  <2>2. /\ shutdown' \in BOOLEAN /\ cancelled' \in BOOLEAN /\ parent' \in BOOLEAN
        /\ watcher' \in {"none", "select", "stop", "ended"}
    BY <1>6 DEF WatcherNext, WatchShutdown, WatchContext, WatchStopped, ParentCancelled,
                TypeOK
  <2>3. TypeOK'
    BY <2>1, <2>2 DEF TypeOK
  <2> QED
    BY <2>1, <2>3 DEF AttemptsCounted, AliveIsLastRound, RealKnows, StopWaits,
                      QuietAfterStop
<1>7. CASE Stop
  <2>1. /\ stop = "none" /\ stop' = "wait" /\ shutdown' = TRUE /\ early' = (pc = "start")
        /\ UNCHANGED <<config, checker, pc, attempt, md, cancelled, parent, watcher, told,
                       round, late>>
    BY <1>7 DEF Stop
  <2>2. TypeOK'
    BY <2>1 DEF TypeOK
  <2> QED
    BY <2>1, <2>2 DEF AttemptsCounted, AliveIsLastRound, RealKnows, StopWaits,
                      QuietAfterStop
<1>8. CASE StopReturns
    BY <1>8 DEF StopReturns, Events, TypeOK, AttemptsCounted, AliveIsLastRound, RealKnows,
                StopWaits, QuietAfterStop
<1>9. CASE SetWeight
  <2>1. PICK w \in NewWeights : checker' = UpdateWeight(checker, w)
    BY <1>9 DEF SetWeight
  <2>2. /\ checker' \in CheckerState /\ checker'.alive = checker.alive
        /\ checker'.failedAttempts = checker.failedAttempts
        /\ checker'.manualChanged = TRUE
    BY <2>1, CheckLoopAssumption DEF UpdateWeight, TypeOK, CheckerState, Weights
  <2>3. UNCHANGED <<config, pc, attempt, md, shutdown, cancelled, parent, watcher, stop,
                    told, round, early, late>>
    BY <1>9 DEF SetWeight
  <2>4. TypeOK'
    BY <2>2, <2>3 DEF TypeOK, CheckerState
  <2> QED
    BY <2>2, <2>3, <2>4 DEF AttemptsCounted, AliveIsLastRound, RealKnows, StopWaits,
                            QuietAfterStop
<1>10. CASE UNCHANGED vars
    BY <1>10 DEF vars, TypeOK, AttemptsCounted, AliveIsLastRound, RealKnows, StopWaits,
                 QuietAfterStop
<1> QED
    BY <1>1, <1>2, <1>3, <1>4, <1>5, <1>6, <1>7, <1>8, <1>9, <1>10 DEF Next, RunNext

(* LoopInv holds in every state of the loop.                                *)
LEMMA LoopInvHolds == Spec => []LoopInv
BY InitLoop, StepLoop, PTL DEF Spec

(* Between two rounds of Scheduler.Run the checker is alive exactly if the  *)
(* last round ended with a success, for any number of retries.              *)
THEOREM AliveIsLastRoundTheorem == Spec => []AliveIsLastRound
<1>1. LoopInv => AliveIsLastRound
    BY DEF LoopInv
<1> QED
    BY <1>1, LoopInvHolds, PTL

(* Until Run ends, the real was told the state and the weight of the        *)
(* checker, or a manual change of the weight is still marked for it.        *)
THEOREM RealKnowsTheorem == Spec => []RealKnows
<1>1. LoopInv => RealKnows
    BY DEF LoopInv
<1> QED
    BY <1>1, LoopInvHolds, PTL

(* Checker.Stop is a barrier: no event is sent after it has returned,       *)
(* unless it was called before Run had counted itself.                      *)
THEOREM QuietAfterStopTheorem == Spec => []QuietAfterStop
<1>1. LoopInv => QuietAfterStop
    BY DEF LoopInv
<1> QED
    BY <1>1, LoopInvHolds, PTL
=============================================================================
