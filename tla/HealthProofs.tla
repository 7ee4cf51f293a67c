---------------------------- MODULE HealthProofs ----------------------------
(* Theorems about Health: the reals of a service, its checkers and the load *)
(* balancer, for any number of reals and checkers and any configurations.   *)
EXTENDS Health, HandlerProofs

(* Names and types of the constants.                                        *)
LEMMA Constants ==
    /\ RealOf \in [CheckerKeys -> RealKeys] /\ NoReal \notin RealKeys
    /\ Reloader \notin CheckerKeys /\ Reloader \in Threads /\ CheckerKeys \subseteq Threads
    /\ \A t \in Threads : t # Reloader => t \in CheckerKeys
    /\ NoEvent \notin HandlerEvent
    /\ \A c \in CheckerKeys : CheckerSettings(CheckerConfig[c])
BY HealthAssumption DEF Threads, CheckerSettings

RealConfigType == [weight : Weights, inhibit : BOOLEAN, checkers : SUBSET CheckerKeys]

(* The part of a configuration that a real gets.                            *)
LEMMA RealConfigOfType ==
    ASSUME NEW cfg \in Configs, NEW r \in RealKeys
    PROVE  /\ RealConfigOf(cfg, r) \in RealConfigType
           /\ RealConfigOf(cfg, r).checkers \subseteq Own(r)
           /\ RealConfigOf(cfg, r).inhibit = cfg.inhibit[r]
BY HealthAssumption DEF RealConfigOf, RealConfigType, Own

-----------------------------------------------------------------------------
(* The section of the real (real/handler.go).                               *)
LEMMA HandleTells ==
    ASSUME NEW r \in RealState, NEW cfg, HandlerConfig(cfg), NEW e \in HandlerEvent,
           e.type # "Enable" => ~e.new.enable,
           NEW after, after = HandleEvent(r, cfg, e)
    PROVE  /\ after.real \in RealState
           /\ after.event \in HandlerEvent \cup {NoEvent}
           /\ after.event = NoEvent => after.real = r
           /\ after.event # NoEvent =>
                 /\ after.event.init = StatusOfReal(r)
                 /\ Agree(after.event.new, StatusOfReal(after.real))
                 /\ after.event.type = "Shutdown" <=> e.type = "Shutdown"
           /\ after.real.alive <=> e.type = "Enable"
           /\ after.real.inhibited => cfg.inhibit \/ r.inhibited
           /\ e.type = "Shutdown" /\ (r.inhibited => cfg.inhibit) => ~after.real.inhibited
<1> USE DEF Handled
<1>0. NoEvent \notin HandlerEvent
    BY Constants
<1>1. StatusOfReal(r) \in Statuses
    BY DEF StatusOfReal, RealState, Status, Statuses, Weights
<1>2. CASE e.type = "Enable"
  <2> DEFINE weight == HandleDynamicWeight(r, cfg, e.new.weight)
             enabled == [r EXCEPT !.weight = weight, !.alive = TRUE,
                                  !.inhibited = IF r.alive THEN @ ELSE FALSE]
             sent == [e EXCEPT !.new = StatusOfReal(enabled), !.init = StatusOfReal(r)]
  <2>1. weight \in Weights
    BY DEF HandleDynamicWeight, RealState, HandlerConfig, HandlerEvent, Statuses
  <2>2. after = IF r.alive /\ weight = r.weight THEN Handled(r, NoEvent)
                ELSE Handled(enabled, sent)
    BY <1>2 DEF HandleEvent, RealSucceed
  <2> HIDE DEF weight
  <2>3. /\ enabled \in RealState /\ enabled.alive
        /\ enabled.inhibited => r.inhibited
    BY <2>1 DEF RealState
  <2> HIDE DEF enabled
  <2>4. StatusOfReal(enabled) \in Statuses
    BY <2>3 DEF StatusOfReal, RealState, Status, Statuses, Weights
  <2>5. /\ sent \in HandlerEvent /\ sent.init = StatusOfReal(r)
        /\ sent.new = StatusOfReal(enabled) /\ sent.type = "Enable"
    BY <1>1, <1>2, <2>4 DEF HandlerEvent
  <2>6. Agree(sent.new, StatusOfReal(enabled))
    BY <2>5 DEF Agree
  <2> HIDE DEF sent
  <2> QED
    BY <1>0, <1>2, <2>2, <2>3, <2>5, <2>6 DEF RealState
<1>3. CASE e.type # "Enable"
  <2> DEFINE disabled == [r EXCEPT
                 !.alive = FALSE,
                 !.inhibited = CASE e.type = "Shutdown" -> FALSE
                                 [] e.type # "Shutdown" /\ cfg.inhibit -> TRUE
                                 [] OTHER -> @]
             zero == Status(TRUE, 0)
             sent == IF disabled.inhibited
                     THEN [e EXCEPT !.type = "Enable", !.new = zero, !.init = StatusOfReal(r)]
                     ELSE [e EXCEPT !.init = StatusOfReal(r)]
             same == DisableIsNoChange(r, cfg, e.type)
  <2>1. after = IF same THEN Handled(r, NoEvent) ELSE Handled(disabled, sent)
    BY <1>3 DEF HandleEvent, RealFail
  <2>2. same => ~r.alive /\ (~cfg.inhibit \/ (r.inhibited /\ e.type # "Shutdown"))
    BY DEF DisableIsNoChange
  <2> HIDE DEF same
  <2>3. /\ disabled \in RealState /\ ~disabled.alive
        /\ e.type = "Shutdown" => ~disabled.inhibited
        /\ disabled.inhibited => cfg.inhibit \/ r.inhibited
    BY DEF RealState, HandlerConfig
  <2> HIDE DEF disabled
  <2>4. zero \in Statuses /\ zero.enable = TRUE /\ zero.weight = 0
    BY DEF Status, Statuses, Weights
  <2>5. /\ disabled.inhibited => StatusOfReal(disabled) = zero
        /\ ~disabled.inhibited => StatusOfReal(disabled).enable = FALSE
    BY <2>3 DEF StatusOfReal, Status, RealState
  <2> HIDE DEF zero
  <2>6. /\ sent \in HandlerEvent /\ sent.init = StatusOfReal(r)
        /\ disabled.inhibited => sent.new = zero /\ sent.type = "Enable"
        /\ ~disabled.inhibited => sent.new = e.new /\ sent.type = e.type
    BY <1>1, <2>4 DEF HandlerEvent
  <2>7. Agree(sent.new, StatusOfReal(disabled))
    BY <1>3, <2>4, <2>5, <2>6 DEF Agree, HandlerEvent, Statuses
  <2> HIDE DEF sent
  <2> QED
    BY <1>0, <1>3, <2>1, <2>2, <2>3, <2>6, <2>7 DEF RealState
<1> QED
    BY <1>2, <1>3

(* The results of a checker (checker/handler.go).                           *)
LEMMA EventOf ==
    ASSUME NEW type \in {"Enable", "Disable", "Shutdown"}, NEW w \in Weights
    PROVE  /\ Event(type, w) \in HandlerEvent /\ Event(type, w).type = type
           /\ ~Event(type, w).new.enable
BY EventIsTyped DEF Event, Status

ResultFits(result) ==
    /\ result.checker \in CheckerState
    /\ result.event \in HandlerEvent \cup {NoEvent}
    /\ result.event # NoEvent /\ result.event.type # "Enable" => ~result.event.new.enable

(* What ProcessCheck does up to the end of the real's section.              *)
LEMMA DeliverEffect ==
    ASSUME TypeOK, NEW c \in CheckerKeys, NEW result, NEW idle \in {"wait", "off"},
           ResultFits(result), Deliver(c, result, idle), event[c] = NoEvent
    PROVE  /\ checker' = [checker EXCEPT ![c] = result.checker]
           /\ checker' \in [CheckerKeys -> CheckerState]
           /\ real' \in [RealKeys -> RealState]
           /\ event' \in [CheckerKeys -> HandlerEvent \cup {NoEvent}]
           /\ \A t \in Threads : t # c => pc'[t] = pc[t]
           /\ \A d \in CheckerKeys : d # c => event'[d] = event[d] /\ checker'[d] = checker[d]
           /\ checker'[c] = result.checker
           /\ \A r \in RealKeys : r # RealOf[c] => real'[r] = real[r]
           /\ \/ pc'[c] = idle /\ event'[c] = NoEvent /\ real'[RealOf[c]] = real[RealOf[c]]
              \/ /\ pc'[c] = "service" /\ event'[c] # NoEvent /\ result.event # NoEvent
                 /\ event'[c].init = StatusOfReal(real[RealOf[c]])
                 /\ Agree(event'[c].new, StatusOfReal(real'[RealOf[c]]))
                 /\ event'[c].type = "Shutdown" <=> result.event.type = "Shutdown"
           /\ result.event # NoEvent =>
                 /\ real'[RealOf[c]].alive <=> result.event.type = "Enable"
                 /\ real'[RealOf[c]].inhibited =>
                       realConfig[RealOf[c]].inhibit \/ real[RealOf[c]].inhibited
                 /\ result.event.type = "Shutdown"
                    /\ (real[RealOf[c]].inhibited => realConfig[RealOf[c]].inhibit)
                       => ~real'[RealOf[c]].inhibited
<1> DEFINE r == RealOf[c]
           after == HandleEvent(real[r], realConfig[r], result.event)
<1>1. r \in RealKeys /\ c \in Threads
    BY Constants
<1>2. real[r] \in RealState /\ HandlerConfig(realConfig[r])
    BY <1>1 DEF TypeOK, RealState, HandlerConfig
<1>3. checker' = [checker EXCEPT ![c] = result.checker] /\ checker \in [CheckerKeys -> CheckerState]
    BY DEF Deliver, TypeOK, CheckerState
<1>4. CASE result.event = NoEvent
  <2>1. pc' = [pc EXCEPT ![c] = idle] /\ real' = real /\ event' = event
    BY <1>4 DEF Deliver
  <2>2. real' \in [RealKeys -> RealState]
    BY <2>1 DEF TypeOK, RealState
  <2>3. checker' \in [CheckerKeys -> CheckerState]
    BY <1>3 DEF ResultFits
  <2> HIDE DEF after
  <2> QED
    BY <1>1, <1>3, <1>4, <2>1, <2>2, <2>3 DEF TypeOK
<1>5. CASE result.event # NoEvent
  <2>1. /\ real' = [real EXCEPT ![r] = after.real]
        /\ event' = [event EXCEPT ![c] = after.event]
        /\ pc' = [pc EXCEPT ![c] = IF after.event = NoEvent THEN idle ELSE "service"]
    BY <1>5 DEF Deliver
  <2>2. /\ result.event \in HandlerEvent
        /\ result.event.type # "Enable" => ~result.event.new.enable
    BY <1>5 DEF ResultFits
  <2>3. /\ after.real \in RealState
        /\ after.event \in HandlerEvent \cup {NoEvent}
        /\ after.event = NoEvent => after.real = real[r]
        /\ after.event # NoEvent =>
              /\ after.event.init = StatusOfReal(real[r])
              /\ Agree(after.event.new, StatusOfReal(after.real))
              /\ after.event.type = "Shutdown" <=> result.event.type = "Shutdown"
        /\ after.real.alive <=> result.event.type = "Enable"
        /\ after.real.inhibited => realConfig[r].inhibit \/ real[r].inhibited
        /\ result.event.type = "Shutdown" /\ (real[r].inhibited => realConfig[r].inhibit)
              => ~after.real.inhibited
    BY <1>2, <2>2, HandleTells
  <2> HIDE DEF after
  <2>4. real \in [RealKeys -> RealState]
    BY DEF TypeOK, RealState
  <2>5. /\ real'[r] = after.real /\ real' \in [RealKeys -> RealState]
        /\ \A q \in RealKeys : q # r => real'[q] = real[q]
    BY <1>1, <2>1, <2>3, <2>4
  <2>6. /\ event'[c] = after.event /\ event' \in [CheckerKeys -> HandlerEvent \cup {NoEvent}]
        /\ \A d \in CheckerKeys : d # c => event'[d] = event[d]
    BY <2>1, <2>3 DEF TypeOK
  <2>7. /\ pc'[c] = IF after.event = NoEvent THEN idle ELSE "service"
        /\ \A t \in Threads : t # c => pc'[t] = pc[t]
    BY <1>1, <2>1 DEF TypeOK
  <2>8. /\ checker' \in [CheckerKeys -> CheckerState] /\ checker'[c] = result.checker
        /\ \A d \in CheckerKeys : d # c => checker'[d] = checker[d]
    BY <1>3 DEF ResultFits
  <2>9. \/ pc'[c] = idle /\ event'[c] = NoEvent /\ real'[r] = real[r]
        \/ /\ pc'[c] = "service" /\ event'[c] # NoEvent
           /\ event'[c].init = StatusOfReal(real[r])
           /\ Agree(event'[c].new, StatusOfReal(real'[r]))
           /\ event'[c].type = "Shutdown" <=> result.event.type = "Shutdown"
    BY <2>3, <2>5, <2>6, <2>7
  <2> QED
    BY <1>3, <1>5, <2>3, <2>5, <2>6, <2>7, <2>8, <2>9
<1> QED
    BY <1>4, <1>5

(* The three results, and what they say of the checker.                     *)
LEMMA SucceedFits ==
    ASSUME TypeOK, NEW c \in CheckerKeys, NEW w \in Weights,
           NEW result,
           result = ProcessSucceed(checker[c], CheckerConfig[c], w, snapshot[c].force)
    PROVE  /\ ResultFits(result)
           /\ result.checker.alive
           /\ result.event = NoEvent => checker[c].alive
           /\ result.event # NoEvent => result.event.type = "Enable"
<1>1. checker[c] \in CheckerState /\ snapshot[c].force \in BOOLEAN
    BY DEF TypeOK, CheckerState
<1>2. /\ result.checker \in CheckerState /\ result.checker.alive
      /\ result.event \in HandlerEvent \cup {NoEvent}
      /\ result.event = NoEvent => checker[c].alive
      /\ result.event # NoEvent => result.event.type = "Enable"
    BY <1>1, Constants, SucceedResult
<1> QED
    BY <1>2 DEF ResultFits

(* A failed check: nothing is sent, or the checker is disabled.             *)
LEMMA FailFits ==
    ASSUME TypeOK, NEW c \in CheckerKeys,
           NEW result, result = ProcessFail(checker[c], CheckerConfig[c])
    PROVE  /\ ResultFits(result)
           /\ \/ result.event = NoEvent /\ result.checker.alive = checker[c].alive
              \/ result.event # NoEvent /\ result.event.type = "Disable" /\ ~result.checker.alive
<1>1. checker[c] \in CheckerState
    BY DEF TypeOK, CheckerState
<1>2. /\ Event("Disable", Omitted) \in HandlerEvent
      /\ Event("Disable", Omitted).type = "Disable" /\ ~Event("Disable", Omitted).new.enable
    BY EventOf DEF Weights
<1>3. /\ result.checker \in CheckerState
      /\ \/ ~result.checker.alive /\ result.event = Event("Disable", Omitted)
         \/ result.checker.alive = checker[c].alive /\ result.event = NoEvent
    BY <1>1, Constants, FailResult
<1> QED
    BY <1>2, <1>3, Constants DEF ResultFits

(* A shutdown is always sent and leaves the checker as it is.               *)
LEMMA ShutdownFits ==
    ASSUME TypeOK, NEW c \in CheckerKeys, NEW result, result = ProcessShutdown(checker[c])
    PROVE  /\ ResultFits(result)
           /\ result.checker = checker[c]
           /\ result.event # NoEvent /\ result.event.type = "Shutdown"
<1>1. checker[c] \in CheckerState
    BY DEF TypeOK, CheckerState
<1>2. /\ Event("Shutdown", Omitted) \in HandlerEvent
      /\ Event("Shutdown", Omitted).type = "Shutdown" /\ ~Event("Shutdown", Omitted).new.enable
    BY EventOf DEF Weights
<1>3. result.checker = checker[c] /\ result.event = Event("Shutdown", Omitted)
    BY DEF ProcessShutdown, Result
<1> QED
    BY <1>1, <1>2, <1>3, Constants DEF ResultFits
-----------------------------------------------------------------------------
(* The steps by which a goroutine goes on, or the updater works; a checker  *)
(* with a result; and the rest, which belongs to reloads.                   *)
GoesOn ==
    \/ \E c \in CheckerKeys : StartCheck(c) \/ ProcessEvent(c) \/ StoreEvent(c)
    \/ \E t \in Threads : AnnounceNext(t)
    \/ UpdaterNext

HasResult(c) ==
    \/ \E w \in Reported \cup {snapshot[c].weight} : CheckSucceeds(c, w)
    \/ CheckFails(c)
    \/ Shutdown(c)

(* A result and its way through the checker and the real.                   *)
LEMMA ResultEffect ==
    ASSUME TypeOK, ThreadInv, NEW c \in CheckerKeys, HasResult(c)
    PROVE  /\ UNCHANGED <<stopping, seen, life, realConfig, checkers, reload, runStuck,
                          serviceVars, pending, serviceEvent, updaterVars>>
           /\ snapshot' = [snapshot EXCEPT ![c] = NoSnapshot]
           /\ checker' \in [CheckerKeys -> CheckerState]
           /\ real' \in [RealKeys -> RealState]
           /\ event' \in [CheckerKeys -> HandlerEvent \cup {NoEvent}]
           /\ pc' = [pc EXCEPT ![c] = pc'[c]]
           /\ pc[c] \in {"wait", "check"} /\ event[c] = NoEvent
           /\ \A d \in CheckerKeys : d # c => event'[d] = event[d] /\ checker'[d] = checker[d]
           /\ \A r \in RealKeys : r # RealOf[c] => real'[r] = real[r]
           /\ \/ /\ pc'[c] \in {"wait", "off"} /\ event'[c] = NoEvent
                 /\ real'[RealOf[c]] = real[RealOf[c]]
              \/ /\ pc'[c] = "service" /\ event'[c] # NoEvent
                 /\ event'[c].init = StatusOfReal(real[RealOf[c]])
                 /\ Agree(event'[c].new, StatusOfReal(real'[RealOf[c]]))
           /\ real'[RealOf[c]].inhibited =>
                 realConfig[RealOf[c]].inhibit \/ real[RealOf[c]].inhibited
           /\ \/ /\ Up(c)' /\ checker'[c].alive = checker[c].alive
                 /\ real'[RealOf[c]] = real[RealOf[c]]
              \/ Up(c)' /\ checker'[c].alive /\ real'[RealOf[c]].alive
              \/ Up(c)' /\ ~checker'[c].alive /\ ~real'[RealOf[c]].alive
              \/ /\ ~Up(c)' /\ stopping[c] /\ ~real'[RealOf[c]].alive
                 /\ (real[RealOf[c]].inhibited => realConfig[RealOf[c]].inhibit)
                       => ~real'[RealOf[c]].inhibited
           /\ pc'[c] = "off" \/ (event'[c] # NoEvent /\ event'[c].type = "Shutdown")
                 => stopping[c]
<1> DEFINE r == RealOf[c]
<1>1. r \in RealKeys /\ c \in Threads /\ c # Reloader
    BY Constants
<1>2. pc[c] \in {"wait", "check"} /\ event[c] = NoEvent
    BY DEF HasResult, CheckSucceeds, CheckFails, Shutdown, ThreadInv
<1> DEFINE Known(result, idle) ==
         /\ Deliver(c, result, idle) /\ ResultFits(result) /\ UNCHANGED stopping
         /\ \/ /\ idle = "wait" /\ result.event = NoEvent
               /\ result.checker.alive = checker[c].alive
            \/ /\ idle = "wait" /\ result.event # NoEvent /\ result.event.type = "Enable"
               /\ result.checker.alive
            \/ /\ idle = "wait" /\ result.event # NoEvent /\ result.event.type = "Disable"
               /\ ~result.checker.alive
            \/ /\ idle = "off" /\ result.event # NoEvent /\ result.event.type = "Shutdown"
               /\ stopping[c]
<1>0. \E result : \E idle \in {"wait", "off"} : Known(result, idle)
  <2>1. ASSUME NEW w \in Reported \cup {snapshot[c].weight}, CheckSucceeds(c, w)
        PROVE  \E result : \E idle \in {"wait", "off"} : Known(result, idle)
    <3>1. w \in Weights
      BY HealthAssumption DEF TypeOK
    <3> DEFINE result == ProcessSucceed(checker[c], CheckerConfig[c], w, snapshot[c].force)
    <3>2. /\ ResultFits(result) /\ result.checker.alive
          /\ result.event = NoEvent => checker[c].alive
          /\ result.event # NoEvent => result.event.type = "Enable"
      BY <3>1, SucceedFits
    <3>3. Deliver(c, result, "wait") /\ UNCHANGED stopping
      BY <2>1 DEF CheckSucceeds
    <3> HIDE DEF result
    <3>4. checker[c].alive \in BOOLEAN /\ result.checker.alive \in BOOLEAN
      BY <3>2 DEF TypeOK, ResultFits, CheckerState
    <3> QED
      BY <3>2, <3>3, <3>4
  <2>2. ASSUME CheckFails(c)
        PROVE  \E result : \E idle \in {"wait", "off"} : Known(result, idle)
    <3> DEFINE result == ProcessFail(checker[c], CheckerConfig[c])
    <3>2. /\ ResultFits(result)
          /\ \/ result.event = NoEvent /\ result.checker.alive = checker[c].alive
             \/ result.event # NoEvent /\ result.event.type = "Disable" /\ ~result.checker.alive
      BY FailFits
    <3>3. Deliver(c, result, "wait") /\ UNCHANGED stopping
      BY <2>2 DEF CheckFails
    <3> HIDE DEF result
    <3> QED
      BY <3>2, <3>3
  <2>3. ASSUME Shutdown(c)
        PROVE  \E result : \E idle \in {"wait", "off"} : Known(result, idle)
    <3> DEFINE result == ProcessShutdown(checker[c])
    <3>2. ResultFits(result) /\ result.event # NoEvent /\ result.event.type = "Shutdown"
      BY ShutdownFits
    <3>3. Deliver(c, result, "off") /\ UNCHANGED stopping /\ stopping[c]
      BY <2>3 DEF Shutdown
    <3> HIDE DEF result
    <3> QED
      BY <3>2, <3>3
  <2> QED
    BY <2>1, <2>2, <2>3 DEF HasResult
<1>a. PICK result : \E idle \in {"wait", "off"} : Known(result, idle)
    BY <1>0
<1>3. PICK idle \in {"wait", "off"} : Known(result, idle)
    BY <1>a
<1>4. /\ UNCHANGED <<stopping, seen, life, realConfig, checkers, reload, runStuck,
                    serviceVars, pending, serviceEvent, updaterVars>>
      /\ snapshot' = [snapshot EXCEPT ![c] = NoSnapshot]
      /\ pc' = [pc EXCEPT ![c] = pc'[c]]
    BY <1>1, <1>3 DEF Deliver, TypeOK
<1>5. /\ checker' \in [CheckerKeys -> CheckerState]
      /\ real' \in [RealKeys -> RealState]
      /\ event' \in [CheckerKeys -> HandlerEvent \cup {NoEvent}]
      /\ \A d \in CheckerKeys : d # c => event'[d] = event[d] /\ checker'[d] = checker[d]
      /\ checker'[c] = result.checker
      /\ \A q \in RealKeys : q # r => real'[q] = real[q]
      /\ \/ pc'[c] = idle /\ event'[c] = NoEvent /\ real'[r] = real[r]
         \/ /\ pc'[c] = "service" /\ event'[c] # NoEvent /\ result.event # NoEvent
            /\ event'[c].init = StatusOfReal(real[r])
            /\ Agree(event'[c].new, StatusOfReal(real'[r]))
            /\ event'[c].type = "Shutdown" <=> result.event.type = "Shutdown"
      /\ result.event # NoEvent =>
            /\ real'[r].alive <=> result.event.type = "Enable"
            /\ real'[r].inhibited => realConfig[r].inhibit \/ real[r].inhibited
            /\ result.event.type = "Shutdown" /\ (real[r].inhibited => realConfig[r].inhibit)
                  => ~real'[r].inhibited
    BY <1>2, <1>3, DeliverEffect
<1>6. result.event = NoEvent => real'[r] = real[r]
    BY <1>5
<1> HIDE DEF r
<1>7. pc'[c] = "off" \/ (event'[c] # NoEvent /\ event'[c].type = "Shutdown") => stopping[c]
    BY <1>3, <1>5
<1>8. Up(c)' <=> (idle = "wait")
    BY <1>3, <1>5 DEF Up
<1>9. /\ \/ Up(c)' /\ checker'[c].alive = checker[c].alive /\ real'[r] = real[r]
         \/ Up(c)' /\ checker'[c].alive /\ real'[r].alive
         \/ Up(c)' /\ ~checker'[c].alive /\ ~real'[r].alive
         \/ /\ ~Up(c)' /\ stopping[c] /\ ~real'[r].alive
            /\ (real[r].inhibited => realConfig[r].inhibit) => ~real'[r].inhibited
      /\ real'[r].inhibited => realConfig[r].inhibit \/ real[r].inhibited
    BY <1>3, <1>5, <1>6, <1>8
<1>10. \/ pc'[c] \in {"wait", "off"} /\ event'[c] = NoEvent /\ real'[r] = real[r]
       \/ /\ pc'[c] = "service" /\ event'[c] # NoEvent
          /\ event'[c].init = StatusOfReal(real[r])
          /\ Agree(event'[c].new, StatusOfReal(real'[r]))
    BY <1>5
<1> QED
    BY <1>2, <1>4, <1>5, <1>7, <1>9, <1>10 DEF r

-----------------------------------------------------------------------------
(* The configuration Real.reload is given is one of this real.              *)
LEMMA NewConfigFits ==
    ASSUME TypeOK, NEW r \in RealKeys
    PROVE  /\ NewConfig(r) \in RealConfigType
           /\ realConfig[r].checkers \subseteq Own(r) => NewConfig(r).checkers \subseteq Own(r)
           /\ target.current # r => NewConfig(r) = realConfig[r]
           /\ target.current = r => NewConfig(r) = RealConfigOf(target.config, r)
<1>1. realConfig[r] \in RealConfigType /\ target.config \in Configs
    BY DEF TypeOK, RealConfigType
<1> QED
    BY <1>1, RealConfigOfType DEF NewConfig

(* processAnnounce returns: the goroutine is where it was before the event. *)
LEMMA ReturnEffect ==
    ASSUME TypeOK, NEW t \in Threads, Return(t)
    PROVE  /\ pc'[t] = IF t = Reloader THEN "idle"
                       ELSE IF event[t].type = "Shutdown" THEN "off" ELSE "wait"
           /\ pc' = [pc EXCEPT ![t] = pc'[t]]
           /\ event' \in [CheckerKeys -> HandlerEvent \cup {NoEvent}]
           /\ \A c \in CheckerKeys : event'[c] = IF c = t THEN NoEvent ELSE event[c]
BY DEF Return, TypeOK

PcType == {"off", "wait", "check", "service", "balancer", "announce", "apply", "register",
           "idle", "reals", "stopping", "stopped", "hung"}

(* Store: the pending event starts where it started.                        *)
LEMMA MergeType ==
    ASSUME NEW old \in HandlerEvent \cup {NoEvent}, NEW e \in HandlerEvent,
           NEW stored, stored = Stored(old, e, XEventMerge(old, e))
    PROVE  /\ stored \in HandlerEvent \cup {NoEvent}
           /\ old = NoEvent => stored = e
           /\ old # NoEvent /\ stored = NoEvent => e.new = old.init
           /\ old # NoEvent /\ stored # NoEvent => stored.init = old.init /\ stored.new = e.new
<1>1. CASE old = NoEvent
    BY <1>1 DEF Stored
<1>2. CASE old # NoEvent
  <2>1. old \in HandlerEvent /\ [old EXCEPT !.new = e.new] \in HandlerEvent
    BY <1>2 DEF HandlerEvent
  <2>2. stored = IF e.new = old.init THEN NoEvent ELSE [old EXCEPT !.new = e.new]
    BY <1>2 DEF Stored, XEventMerge
  <2> QED
    BY <1>2, <2>1, <2>2, Constants DEF HandlerEvent
<1> QED
    BY <1>1, <1>2

ReloadType == [pc : {"idle", "checkers", "saving", "halting", "hung"},
               todo : SUBSET CheckerKeys, old : SUBSET CheckerKeys]

(* How a step changes the progress of a reload.                             *)
EditedTo(f, g, r, p, t, o) ==
    /\ g \in [RealKeys -> ReloadType]
    /\ g[r].pc = p /\ g[r].todo = t /\ g[r].old = o
    /\ \A q \in RealKeys : q # r => g[q] = f[q]

(* How the steps of Real.reload edit its progress.                          *)
LEMMA ReloadEdits ==
    ASSUME NEW f \in [RealKeys -> ReloadType], NEW r \in RealKeys, NEW S
    PROVE  /\ EditedTo(f, [f EXCEPT ![r].todo = @ \ S, ![r].old = @ \ S], r,
                       f[r].pc, f[r].todo \ S, f[r].old \ S)
           /\ EditedTo(f, [f EXCEPT ![r].todo = @ \ S], r, f[r].pc, f[r].todo \ S, f[r].old)
           /\ EditedTo(f, [f EXCEPT ![r].old = @ \ S], r, f[r].pc, f[r].todo, f[r].old \ S)
           /\ EditedTo(f, [f EXCEPT ![r].pc = "saving"], r, "saving", f[r].todo, f[r].old)
<1> USE DEF EditedTo, ReloadType
<1>1. EditedTo(f, [f EXCEPT ![r].todo = @ \ S, ![r].old = @ \ S], r,
               f[r].pc, f[r].todo \ S, f[r].old \ S)
    OBVIOUS
<1>2. EditedTo(f, [f EXCEPT ![r].todo = @ \ S], r, f[r].pc, f[r].todo \ S, f[r].old)
    OBVIOUS
<1>3. EditedTo(f, [f EXCEPT ![r].old = @ \ S], r, f[r].pc, f[r].todo, f[r].old \ S)
    OBVIOUS
<1>4. EditedTo(f, [f EXCEPT ![r].pc = "saving"], r, "saving", f[r].todo, f[r].old)
    OBVIOUS
<1> HIDE DEF EditedTo, ReloadType
<1> QED
    BY <1>1, <1>2, <1>3, <1>4

(* A goroutine on its way has an event.                                     *)
LEMMA CarriedEvent ==
    ASSUME TypeOK, ThreadInv, NEW c \in CheckerKeys, pc[c] \notin {"off", "wait", "check"}
    PROVE  event[c] \in HandlerEvent /\ event[c] # NoEvent
<1>1. event[c] # NoEvent
    BY DEF ThreadInv
<1>2. event[c] \in HandlerEvent \cup {NoEvent}
    BY DEF TypeOK
<1> QED
    BY <1>1, <1>2

(* Every step keeps the types.                                              *)
LEMMA TypeStep ==
    ASSUME TypeOK, ThreadInv, [Next]_vars
    PROVE  TypeOK'
<1> USE DEF TypeOK
<1>0. CASE UNCHANGED vars
    BY <1>0 DEF vars
<1>1. ASSUME NEW c \in CheckerKeys, StartCheck(c)
      PROVE  TypeOK'
    BY <1>1, Constants DEF StartCheck, realVars, serviceVars, updaterVars
<1>2. ASSUME NEW c \in CheckerKeys, HasResult(c)
      PROVE  TypeOK'
  <2>1. /\ UNCHANGED <<stopping, seen, life, realConfig, checkers, reload, runStuck,
                    serviceVars, pending, serviceEvent, updaterVars>>
        /\ snapshot' = [snapshot EXCEPT ![c] = NoSnapshot]
        /\ checker' \in [CheckerKeys -> CheckerState]
        /\ real' \in [RealKeys -> RealState]
        /\ event' \in [CheckerKeys -> HandlerEvent \cup {NoEvent}]
        /\ pc' = [pc EXCEPT ![c] = pc'[c]]
        /\ pc'[c] \in {"wait", "off", "service"}
    BY <1>2, ResultEffect
  <2>2. NoSnapshot \in [weight : Weights, force : BOOLEAN]
    BY DEF NoSnapshot, Weights
  <2>3. snapshot' \in [CheckerKeys -> [weight : Weights, force : BOOLEAN]]
    BY <2>1, <2>2
  <2>4. pc' \in [Threads -> PcType]
    BY <2>1, Constants DEF PcType
  <2> QED
    BY <2>1, <2>3, <2>4 DEF serviceVars, updaterVars, CheckerState, RealState, PcType
<1>3. ASSUME NEW c \in CheckerKeys, ProcessEvent(c)
      PROVE  TypeOK'
  <2>1. event[c] \in HandlerEvent
    BY <1>3, CarriedEvent DEF ProcessEvent
  <2>2. WeightDelta(event[c]) \in Int /\ AliveDelta(event[c]) \in Int
    BY <2>1 DEF WeightDelta, AliveDelta, HandlerEvent, Statuses, Weights, Omitted
  <2>3. service' \in [alive : BOOLEAN, weight : Int, realsAlive : Int]
    <3>1. service \in [alive : BOOLEAN, weight : Int, realsAlive : Int]
      OBVIOUS
    <3> HIDE DEF TypeOK
    <3>2. PICK w \in Int, n \in Int : service' = [service EXCEPT !.weight = w, !.realsAlive = n]
      <4>1. /\ service.weight + WeightDelta(event[c]) \in Int
            /\ service.realsAlive + AliveDelta(event[c]) \in Int
        BY <2>2, <3>1
      <4> QED
        BY <1>3, <4>1 DEF ProcessEvent
    <3> QED
      BY <3>1, <3>2
  <2> QED
    BY <1>3, <2>3, Constants
    DEF ProcessEvent, checkerVars, realVars, updaterVars
<1>4. ASSUME NEW c \in CheckerKeys, StoreEvent(c)
      PROVE  TypeOK'
  <2> DEFINE r == RealOf[c]
  <2>0. r \in RealKeys
    BY Constants
  <2>1. event[c] \in HandlerEvent
    BY <1>4, CarriedEvent DEF StoreEvent
  <2>2. Stored(pending[r], event[c], XEventMerge(pending[r], event[c]))
             \in HandlerEvent \cup {NoEvent}
    <3>1. pending[r] \in HandlerEvent \cup {NoEvent}
      BY <2>0
    <3> HIDE DEF TypeOK, r
    <3> QED
      BY <2>1, <3>1, MergeType
  <2> QED
    BY <1>4, <2>0, <2>2, Constants
    DEF StoreEvent, checkerVars, realVars, serviceVars, updaterVars
<1>5. ASSUME NEW t \in Threads, ReadQuorum(t)
      PROVE  TypeOK'
  <2>1. QuorumState(service.weight, config.quorum, config.hysteresis)
              \in {QuorumUp, QuorumDown, QuorumHold}
    BY DEF QuorumState
  <2> QED
    BY <1>5, <2>1 DEF ReadQuorum, checkerVars, realVars, serviceVars, updaterVars
<1>6. ASSUME NEW t \in Threads, ApplyQuorum(t)
      PROVE  TypeOK'
  <2>1. service' \in [alive : BOOLEAN, weight : Int, realsAlive : Int]
    BY <1>6 DEF ApplyQuorum
  <2>2. /\ pc' \in [Threads -> PcType]
        /\ event' \in [CheckerKeys -> HandlerEvent \cup {NoEvent}]
    <3>0. pc \in [Threads -> PcType]
      BY DEF PcType
    <3>1. CASE Return(t)
      <4>1. /\ pc' = [pc EXCEPT ![t] = pc'[t]] /\ pc'[t] \in {"idle", "off", "wait"}
            /\ event' \in [CheckerKeys -> HandlerEvent \cup {NoEvent}]
        BY <3>1, ReturnEffect
      <4> HIDE DEF TypeOK
      <4> QED
        BY <3>0, <4>1 DEF PcType
    <3>2. CASE pc' = [pc EXCEPT ![t] = "register"] /\ UNCHANGED event
      BY <3>2 DEF PcType
    <3> QED
      BY <1>6, <3>1, <3>2 DEF ApplyQuorum
  <2> QED
    BY <1>6, <2>1, <2>2 DEF ApplyQuorum, realVars, updaterVars, PcType
<1>7. ASSUME NEW t \in Threads, Register(t)
      PROVE  TypeOK'
  <2>1. /\ pc' \in [Threads -> PcType]
        /\ event' \in [CheckerKeys -> HandlerEvent \cup {NoEvent}]
    <3>0. pc \in [Threads -> PcType] /\ Return(t)
      BY <1>7 DEF PcType, Register
    <3>1. /\ pc' = [pc EXCEPT ![t] = pc'[t]] /\ pc'[t] \in {"idle", "off", "wait"}
          /\ event' \in [CheckerKeys -> HandlerEvent \cup {NoEvent}]
      BY <3>0, <1>7, ReturnEffect DEF Register
    <3> HIDE DEF TypeOK
    <3> QED
      BY <3>0, <3>1 DEF PcType
  <2>2. serviceEvent' \in ServiceStatus \cup {NoEvent}
    BY <1>7 DEF Register, StoredService, Stored, ServiceStatusMerge, ServiceStatus
  <2> QED
    BY <1>7, <2>1, <2>2 DEF Register, realVars, serviceVars, updaterVars, PcType
<1>8. ASSUME NEW r \in RealKeys, Activate(r)
      PROVE  TypeOK'
    BY <1>8 DEF Activate, BeginReload, checkerVars, serviceVars, updaterVars
<1>9. ASSUME NEW r \in RealKeys, NEW c \in CheckerKeys, KeepChecker(r, c)
      PROVE  TypeOK'
  <2>0. reload \in [RealKeys -> ReloadType]
    BY DEF ReloadType
  <2>1. NewConfig(r).weight \in Weights
    BY NewConfigFits DEF RealConfigType
  <2>2. checker[c] \in CheckerState /\ checker \in [CheckerKeys -> CheckerState]
    BY DEF CheckerState
  <2>3. UpdateWeight(checker[c], NewConfig(r).weight) \in CheckerState
    BY <2>1, <2>2 DEF UpdateWeight, CheckerState
  <2>4. checker' \in [CheckerKeys -> CheckerState]
    <3> HIDE DEF TypeOK
    <3> QED
      BY <1>9, <2>2, <2>3 DEF KeepChecker
  <2>5. reload' \in [RealKeys -> ReloadType]
    BY <1>9, <2>0, ReloadEdits, ZenonT(30) DEF KeepChecker, EditedTo
  <2> QED
    BY <1>9, <2>4, <2>5 DEF KeepChecker, serviceVars, updaterVars, CheckerState, ReloadType
<1>10. ASSUME NEW r \in RealKeys, NEW c \in CheckerKeys, AddChecker(r, c)
       PROVE  TypeOK'
  <2>1. NewChecker(NewConfig(r).weight) \in CheckerState
    BY NewConfigFits DEF RealConfigType, NewChecker, CheckerState
  <2>2. checker' \in [CheckerKeys -> CheckerState]
    BY <1>10, <2>1 DEF AddChecker, CheckerState
  <2>3. pc' \in [Threads -> PcType]
    BY <1>10, Constants DEF AddChecker, PcType
  <2>0. reload \in [RealKeys -> ReloadType]
    BY DEF ReloadType
  <2>4. reload' \in [RealKeys -> ReloadType]
    BY <1>10, <2>0, ReloadEdits, ZenonT(30) DEF AddChecker, EditedTo
  <2> QED
    BY <1>10, <2>2, <2>3, <2>4
    DEF AddChecker, serviceVars, updaterVars, CheckerState, PcType, ReloadType
<1>11. ASSUME NEW r \in RealKeys, NEW c \in CheckerKeys, StopChecker(r, c)
       PROVE  TypeOK'
    BY <1>11 DEF StopChecker, realVars, serviceVars, updaterVars
<1>12. ASSUME NEW r \in RealKeys, NEW c \in CheckerKeys, CheckerStopped(r, c)
       PROVE  TypeOK'
  <2>0. checker \in [CheckerKeys -> CheckerState] /\ reload \in [RealKeys -> ReloadType]
    BY DEF CheckerState, ReloadType
  <2>1. NewChecker(0) \in CheckerState
    BY DEF NewChecker, CheckerState, Weights
  <2>2. checker' \in [CheckerKeys -> CheckerState]
    <3> HIDE DEF TypeOK
    <3> QED
      BY <1>12, <2>0, <2>1 DEF CheckerStopped
  <2>3. reload' \in [RealKeys -> ReloadType]
    <3> HIDE DEF TypeOK
    <3> QED
      BY <1>12, <2>0 DEF CheckerStopped, ReloadType
  <2> QED
    BY <1>12, <2>2, <2>3
    DEF CheckerStopped, serviceVars, updaterVars, CheckerState, ReloadType
<1>13. ASSUME NEW r \in RealKeys, SetDynWeight(r)
       PROVE  TypeOK'
  <2>0. reload \in [RealKeys -> ReloadType] /\ real \in [RealKeys -> RealState]
    BY DEF ReloadType, RealState
  <2>1. real' \in [RealKeys -> RealState]
    <3> HIDE DEF TypeOK
    <3>1. PICK dynamic \in BOOLEAN : real' = [real EXCEPT ![r].dynWeight = dynamic]
      BY <1>13 DEF SetDynWeight
    <3> QED
      BY <2>0, <3>1 DEF RealState
  <2>2. reload' \in [RealKeys -> ReloadType]
    BY <1>13, <2>0, ReloadEdits DEF SetDynWeight, EditedTo
  <2> QED
    BY <1>13, <2>1, <2>2
    DEF SetDynWeight, checkerVars, serviceVars, updaterVars, RealState, ReloadType
<1>14. ASSUME NEW r \in RealKeys, SaveConfig(r)
       PROVE  TypeOK'
    BY <1>14, NewConfigFits
    DEF SaveConfig, Proceed, IdleReload, RealConfigType, checkerVars, updaterVars
<1>15. ASSUME NEW r \in RealKeys, RealHalted(r)
       PROVE  TypeOK'
    BY <1>15 DEF RealHalted, Proceed, IdleReload, checkerVars, updaterVars
<1>16. ASSUME NEW r \in RealKeys, ReloadActive(r)
       PROVE  TypeOK'
    BY <1>16, RealConfigOfType
    DEF ReloadActive, BeginReload, RealConfigType, checkerVars, updaterVars
<1>17. ASSUME NEW r \in RealKeys, ReloadInactive(r)
       PROVE  TypeOK'
    BY <1>17, RealConfigOfType
    DEF ReloadInactive, NewReal, Weights, RealConfigType, checkerVars, updaterVars
<1>18. ASSUME NEW r \in RealKeys, HaltReal(r)
       PROVE  TypeOK'
    BY <1>18 DEF HaltReal, checkerVars, updaterVars
<1>19. CASE ReloadDone
    BY <1>19, Constants DEF ReloadDone, NoTarget, checkerVars, realVars, updaterVars
<1>20. CASE StopDone
    BY <1>20, Constants DEF StopDone, checkerVars, realVars, serviceVars, updaterVars
<1>21. CASE FlushServiceEvents
    BY <1>21 DEF FlushServiceEvents, checkerVars, realVars, serviceVars
<1>22. ASSUME NEW failed \in SUBSET RealKeys, ProcessEvents(failed)
       PROVE  TypeOK'
  <2>1. balancer' \in [RealKeys -> Statuses]
    BY <1>22 DEF ProcessEvents, Pending, Status, Statuses, Uint32, Weights, Omitted,
                 HandlerEvent
  <2>2. pending' \in [RealKeys -> HandlerEvent \cup {NoEvent}]
    BY <1>22 DEF ProcessEvents, Processed
  <2> QED
    BY <1>22, <2>1, <2>2 DEF ProcessEvents, checkerVars, realVars, serviceVars
<1>23. CASE UpdateAnnouncer
    BY <1>23 DEF UpdateAnnouncer, checkerVars, realVars, serviceVars
<1>24. ASSUME NEW cfg \in Configs, ServiceReload(cfg)
       PROVE  TypeOK'
  <2>1. cfg.reals \subseteq RealKeys /\ Present \subseteq RealKeys
    BY HealthAssumption DEF Present
  <2> QED
    BY <1>24, <2>1, Constants
    DEF ServiceReload, NoTarget, checkerVars, realVars, updaterVars
<1>25. CASE ServiceStop
  <2>1. Present \subseteq RealKeys
    BY DEF Present
  <2> QED
    BY <1>25, <2>1, Constants DEF ServiceStop, NoTarget, checkerVars, realVars, updaterVars
<1>26. ASSUME NEW r \in RealKeys, HaltHangs(r)
       PROVE  TypeOK'
  <2>1. Added(r) \subseteq CheckerKeys
    BY NewConfigFits DEF Added, RealConfigType
  <2> QED
    BY <1>26, <2>1, Constants DEF HaltHangs, checkerVars, serviceVars, updaterVars
<1> HIDE DEF TypeOK
<1> QED
    BY <1>0, <1>1, <1>2, <1>3, <1>4, <1>5, <1>6, <1>7, <1>8, <1>9, <1>10, <1>11, <1>12,
       <1>13, <1>14, <1>15, <1>16, <1>17, <1>18, <1>19, <1>20, <1>21, <1>22, <1>23,
       <1>24, <1>25, <1>26
    DEF Next, CheckerNext, HasResult, AnnounceNext, RealNext, ReloadNext, UpdaterNext

-----------------------------------------------------------------------------
(* What a goroutine that goes on leaves as it is: whether checkers are up,  *)
(* and where a reload stands.                                               *)
ThreadsGoOn ==
    /\ ThreadInv'
    /\ \A c \in CheckerKeys :
          /\ Up(c)' <=> Up(c)
          /\ pc[c] = "off" => pc'[c] = "off"
          /\ pc'[c] = "off" => pc[c] = "off" \/ stopping[c]
    /\ \/ pc'[Reloader] = pc[Reloader]
       \/ /\ pc[Reloader] \in {"idle", "announce", "apply", "register"}
          /\ pc'[Reloader] \in {"idle", "announce", "apply", "register"}

(* A goroutine takes its event further, or starts a check.                  *)
LEMMA MoveEffect ==
    ASSUME TypeOK, ThreadInv, NEW t \in Threads, NEW x,
           pc' = [pc EXCEPT ![t] = x], event' = event, stopping' = stopping,
           \/ t # Reloader /\ pc[t] = "wait" /\ x = "check"
           \/ /\ t # Reloader /\ pc[t] \in {"service", "balancer", "announce", "apply"}
              /\ x \in {"balancer", "announce", "apply", "register"}
           \/ pc[t] \in {"announce", "apply"} /\ x \in {"apply", "register"}
    PROVE  ThreadsGoOn
<1>1. /\ pc'[t] = x
      /\ \A u \in Threads : u # t => pc'[u] = pc[u]
    BY DEF TypeOK
<1>2. ASSUME NEW c \in CheckerKeys
      PROVE  /\ pc[c] # "off" => pc'[c] # "off"
             /\ pc[c] = "off" => pc'[c] = "off"
             /\ \/ pc'[c] \in {"off", "wait", "check"} /\ event'[c] = NoEvent
                \/ /\ pc'[c] \in {"service", "balancer", "announce", "apply", "register"}
                   /\ event'[c] # NoEvent
                   /\ event'[c].type = "Shutdown" => stopping'[c]
    BY <1>1, Constants DEF ThreadInv
<1>3. /\ pc'[Reloader] \in {"idle", "reals", "announce", "apply", "register", "stopping",
                            "stopped", "hung"}
      /\ \/ pc'[Reloader] = pc[Reloader]
         \/ /\ pc[Reloader] \in {"idle", "announce", "apply", "register"}
            /\ pc'[Reloader] \in {"idle", "announce", "apply", "register"}
    BY <1>1, Constants DEF ThreadInv
<1> QED
    BY <1>2, <1>3 DEF ThreadsGoOn, ThreadInv, Up

(* The end of processAnnounce.                                              *)
LEMMA ReturnGoesOn ==
    ASSUME TypeOK, ThreadInv, NEW t \in Threads, Return(t), stopping' = stopping,
           pc[t] \in {"apply", "register"}
    PROVE  ThreadsGoOn
<1>1. /\ pc'[t] = IF t = Reloader THEN "idle"
                  ELSE IF event[t].type = "Shutdown" THEN "off" ELSE "wait"
      /\ \A u \in Threads : u # t => pc'[u] = pc[u]
      /\ \A c \in CheckerKeys : event'[c] = IF c = t THEN NoEvent ELSE event[c]
    BY ReturnEffect DEF TypeOK
<1>2. ASSUME NEW c \in CheckerKeys
      PROVE  /\ pc[c] = "off" => pc'[c] = "off"
             /\ pc'[c] = "off" => pc[c] = "off" \/ stopping[c]
             /\ Up(c)' <=> Up(c)
             /\ \/ pc'[c] \in {"off", "wait", "check"} /\ event'[c] = NoEvent
                \/ /\ pc'[c] \in {"service", "balancer", "announce", "apply", "register"}
                   /\ event'[c] # NoEvent
                   /\ event'[c].type = "Shutdown" => stopping'[c]
  <2>1. CASE c = t
    BY <1>1, <2>1, Constants DEF ThreadInv, Up
  <2>2. CASE c # t
    BY <1>1, <2>2, Constants DEF ThreadInv, Up
  <2> QED
    BY <2>1, <2>2
<1>3. /\ pc'[Reloader] \in {"idle", "reals", "announce", "apply", "register", "stopping",
                            "stopped", "hung"}
      /\ \/ pc'[Reloader] = pc[Reloader]
         \/ /\ pc[Reloader] \in {"idle", "announce", "apply", "register"}
            /\ pc'[Reloader] \in {"idle", "announce", "apply", "register"}
    BY <1>1, Constants DEF ThreadInv
<1> QED
    BY <1>2, <1>3 DEF ThreadsGoOn, ThreadInv

(* Every step of a goroutine that goes on, and every step of the updater.   *)
LEMMA GoesOnEffect ==
    ASSUME TypeOK, ThreadInv, GoesOn
    PROVE  /\ UNCHANGED <<checker, stopping, realVars, config, target>>
           /\ ThreadsGoOn
<1>1. ASSUME NEW c \in CheckerKeys, StartCheck(c)
      PROVE  UNCHANGED <<checker, stopping, realVars, config, target>> /\ ThreadsGoOn
  <2>1. /\ UNCHANGED <<checker, stopping, event, realVars, config, target>>
        /\ pc[c] = "wait" /\ pc' = [pc EXCEPT ![c] = "check"]
    BY <1>1 DEF StartCheck, serviceVars
  <2> QED
    BY <2>1, MoveEffect, Constants
<1>2. ASSUME NEW c \in CheckerKeys, ProcessEvent(c)
      PROVE  UNCHANGED <<checker, stopping, realVars, config, target>> /\ ThreadsGoOn
  <2>1. /\ UNCHANGED <<checker, stopping, event, realVars, config, target>>
        /\ pc[c] = "service" /\ pc' = [pc EXCEPT ![c] = "balancer"]
    BY <1>2 DEF ProcessEvent, checkerVars
  <2> QED
    BY <2>1, MoveEffect, Constants
<1>3. ASSUME NEW c \in CheckerKeys, StoreEvent(c)
      PROVE  UNCHANGED <<checker, stopping, realVars, config, target>> /\ ThreadsGoOn
  <2>1. /\ UNCHANGED <<checker, stopping, event, realVars, config, target>>
        /\ pc[c] = "balancer" /\ pc' = [pc EXCEPT ![c] = "announce"]
    BY <1>3 DEF StoreEvent, checkerVars, serviceVars
  <2> QED
    BY <2>1, MoveEffect, Constants
<1>4. ASSUME NEW t \in Threads, ReadQuorum(t)
      PROVE  UNCHANGED <<checker, stopping, realVars, config, target>> /\ ThreadsGoOn
  <2>1. /\ UNCHANGED <<checker, stopping, event, realVars, config, target>>
        /\ pc[t] = "announce" /\ pc' = [pc EXCEPT ![t] = "apply"]
    BY <1>4 DEF ReadQuorum, checkerVars, serviceVars
  <2> QED
    BY <2>1, MoveEffect
<1>5. ASSUME NEW t \in Threads, ApplyQuorum(t)
      PROVE  UNCHANGED <<checker, stopping, realVars, config, target>> /\ ThreadsGoOn
  <2>1. /\ UNCHANGED <<checker, stopping, realVars, config, target>>
        /\ pc[t] = "apply"
        /\ \/ pc' = [pc EXCEPT ![t] = "register"] /\ UNCHANGED event
           \/ Return(t)
    BY <1>5 DEF ApplyQuorum
  <2> QED
    BY <2>1, MoveEffect, ReturnGoesOn
<1>6. ASSUME NEW t \in Threads, Register(t)
      PROVE  UNCHANGED <<checker, stopping, realVars, config, target>> /\ ThreadsGoOn
  <2>1. /\ UNCHANGED <<checker, stopping, realVars, config, target>>
        /\ pc[t] = "register" /\ Return(t)
    BY <1>6 DEF Register, serviceVars
  <2> QED
    BY <2>1, ReturnGoesOn
<1>7. CASE UpdaterNext
  <2>1. UNCHANGED <<checker, stopping, realVars, config, target, pc, event>>
    BY <1>7 DEF UpdaterNext, FlushServiceEvents, ProcessEvents, UpdateAnnouncer,
                checkerVars, serviceVars
  <2> QED
    BY <2>1 DEF ThreadsGoOn, ThreadInv, Up
<1> QED
    BY <1>1, <1>2, <1>3, <1>4, <1>5, <1>6, <1>7 DEF GoesOn, AnnounceNext

-----------------------------------------------------------------------------
(* Steps that touch no reload.                                              *)
LEMMA StructureFrame ==
    ASSUME StructureInv, UNCHANGED <<stopping, life, realConfig, checkers, reload>>,
           target'.current = target.current,
           target'.config = target.config \/ target.current = NoReal,
           pc[Reloader] = "hung" => pc'[Reloader] = "hung",
           \A c \in CheckerKeys : pc[c] = "off" => pc'[c] = "off"
    PROVE  CheckersInv' /\ RealInv'
<1>1. ASSUME NEW r \in RealKeys
      PROVE  NewConfig(r)' = NewConfig(r)
    BY Constants DEF NewConfig
<1>2. ASSUME NEW r \in RealKeys
      PROVE  RealFits(r)'
    BY <1>1 DEF StructureInv, RealInv, RealFits
<1>3. ASSUME NEW c \in CheckerKeys
      PROVE  CheckerFits(c)'
  <2>1. NewConfig(RealOf[c])' = NewConfig(RealOf[c])
    BY <1>1, Constants
  <2>2. Kept(RealOf[c])' = Kept(RealOf[c])
    BY <2>1 DEF Kept
  <2> QED
    BY <2>2 DEF StructureInv, CheckersInv, CheckerFits
<1> QED
    BY <1>2, <1>3 DEF RealInv, CheckersInv

(* Steps of the reload of one real.                                         *)
LEMMA LocalStep ==
    ASSUME StructureInv, NEW r \in RealKeys,
           \A q \in RealKeys : q # r =>
              /\ reload'[q] = reload[q] /\ life'[q] = life[q]
              /\ realConfig'[q] = realConfig[q] /\ checkers'[q] = checkers[q]
              /\ target'.current = q <=> target.current = q,
           target'.config = target.config,
           pc[Reloader] = "hung" => pc'[Reloader] = "hung",
           \A c \in CheckerKeys : RealOf[c] # r => pc'[c] = pc[c] /\ stopping'[c] = stopping[c],
           \A c \in Own(r) : CheckerFits(c)',
           RealFits(r)'
    PROVE  CheckersInv' /\ RealInv'
<1>1. ASSUME NEW q \in RealKeys, q # r
      PROVE  NewConfig(q)' = NewConfig(q)
    BY <1>1 DEF NewConfig
<1>2. ASSUME NEW q \in RealKeys, q # r
      PROVE  RealFits(q)'
    BY <1>1, <1>2 DEF StructureInv, RealInv, RealFits
<1>3. ASSUME NEW c \in CheckerKeys, RealOf[c] # r
      PROVE  CheckerFits(c)'
  <2>1. RealOf[c] \in RealKeys
    BY Constants
  <2>2. NewConfig(RealOf[c])' = NewConfig(RealOf[c])
    BY <1>1, <1>3, <2>1
  <2>3. Kept(RealOf[c])' = Kept(RealOf[c])
    BY <1>3, <2>1, <2>2 DEF Kept
  <2> QED
    BY <1>3, <2>1, <2>3 DEF StructureInv, CheckersInv, CheckerFits
<1> QED
    BY <1>2, <1>3 DEF RealInv, CheckersInv, Own

(* What StructureInv says of one real, with the types.                      *)
LEMMA RealFacts ==
    ASSUME StructureInv, NEW r \in RealKeys
    PROVE  /\ RealFits(r) /\ NewConfig(r) \in RealConfigType
           /\ NewConfig(r).checkers \subseteq Own(r)
           /\ reload \in [RealKeys -> ReloadType]
           /\ \A c \in Own(r) : c \in CheckerKeys /\ RealOf[c] = r /\ CheckerFits(c)
<1>1. RealFits(r)
    BY DEF StructureInv, RealInv
<1>2. NewConfig(r) \in RealConfigType /\ NewConfig(r).checkers \subseteq Own(r)
    BY <1>1, NewConfigFits DEF StructureInv, RealFits
<1> QED
    BY <1>1, <1>2 DEF StructureInv, TypeOK, ReloadType, Own, CheckersInv

(* A checker that a reload creates was not there.                           *)
LEMMA AddedIsOff ==
    ASSUME StructureInv, NEW r \in RealKeys, NEW c \in CheckerKeys, AddChecker(r, c)
    PROVE  c \in Own(r) /\ pc[c] = "off" /\ event[c] = NoEvent /\ ~stopping[c]
<1>1. /\ reload[r].pc = "checkers" /\ c \in reload[r].todo /\ c \notin reload[r].old
    BY DEF AddChecker
<1>2. c \in Own(r)
    BY <1>1, RealFacts DEF RealFits
<1>3. CheckerFits(c) /\ RealOf[c] = r
    BY <1>2, RealFacts
<1>4. c \notin Kept(r)
    BY <1>1 DEF Kept
<1>5. pc[c] = "off" /\ ~stopping[c]
    BY <1>1, <1>3, <1>4 DEF CheckerFits
<1> QED
    BY <1>2, <1>5 DEF StructureInv, ThreadInv

(* No checker of a real that is not reloaded is being stopped.              *)
LEMMA IdleReal ==
    ASSUME StructureInv, NEW r \in RealKeys, reload[r].pc \in {"idle", "saving"}
    PROVE  /\ Kept(r) = IF reload[r].pc = "idle" THEN checkers[r] ELSE NewConfig(r).checkers
           /\ \A c \in Own(r) : ~stopping[c] /\ (pc[c] # "off" => c \in Kept(r))
           /\ reload[r].pc = "idle" => target.current # r
<1>1. reload[r].todo = {} /\ reload[r].old = {}
    BY RealFacts DEF RealFits
<1>2. Kept(r) = IF reload[r].pc = "idle" THEN checkers[r] ELSE NewConfig(r).checkers
    BY <1>1 DEF Kept
<1>3. \A c \in Own(r) : ~stopping[c] /\ (pc[c] # "off" => c \in Kept(r))
    BY RealFacts DEF CheckerFits
<1> QED
    BY <1>2, <1>3, Constants DEF StructureInv, TargetInv

Structured == ThreadInv' /\ CheckersInv' /\ RealInv' /\ TargetInv'

(* The activation begins a reload with no former checkers.                  *)
LEMMA ActivateStep ==
    ASSUME StructureInv, NEW r \in RealKeys, Activate(r)
    PROVE  Structured
<1>1. /\ life[r] = "waiting" /\ life' = [life EXCEPT ![r] = "active"]
      /\ reload' = [reload EXCEPT ![r] = [pc |-> "checkers", todo |-> realConfig[r].checkers,
                                          old |-> checkers[r]]]
      /\ UNCHANGED <<checkers, realConfig, target, pc, event, stopping>>
    BY DEF Activate, BeginReload, checkerVars, serviceVars
<1>2. /\ reload[r].pc = "idle" /\ checkers[r] = {} /\ target.current # r
      /\ \A c \in Own(r) : ~stopping[c] /\ pc[c] = "off"
  <2>1. checkers[r] = {} /\ reload[r].pc = "idle"
    BY <1>1, RealFacts DEF RealFits, ReloadType
  <2> QED
    BY <2>1, IdleReal
<1>3. NewConfig(r)' = realConfig[r] /\ NewConfig(r) = realConfig[r]
    BY <1>1, <1>2 DEF NewConfig
<1>4. /\ life'[r] = "active" /\ \A q \in RealKeys : q # r => life'[q] = life[q]
      /\ reload'[r] = [pc |-> "checkers", todo |-> realConfig[r].checkers, old |-> {}]
      /\ \A q \in RealKeys : q # r => reload'[q] = reload[q]
    BY <1>1, <1>2 DEF StructureInv, TypeOK
<1>5. RealFits(r)'
    BY <1>1, <1>2, <1>3, <1>4, RealFacts DEF RealFits
<1>6. \A c \in Own(r) : CheckerFits(c)'
    BY <1>1, <1>2, RealFacts DEF CheckerFits
<1>7. CheckersInv' /\ RealInv'
    BY <1>1, <1>4, <1>5, <1>6, LocalStep
<1>8. TargetInv'
  <2>1. Present' = Present
    BY <1>1, <1>4 DEF Present
  <2> QED
    BY <1>1, <1>2, <1>4, <2>1 DEF StructureInv, TargetInv, TypeOK
<1> QED
    BY <1>1, <1>7, <1>8 DEF Structured, StructureInv, ThreadInv

(* A checker that stays is done with.                                       *)
LEMMA KeepStep ==
    ASSUME StructureInv, NEW r \in RealKeys, NEW c \in CheckerKeys, KeepChecker(r, c)
    PROVE  Structured
<1>1. /\ reload[r].pc = "checkers" /\ c \in reload[r].todo /\ c \in reload[r].old
      /\ reload' = [reload EXCEPT ![r].todo = @ \ {c}, ![r].old = @ \ {c}]
      /\ UNCHANGED <<life, checkers, realConfig, target, pc, event, stopping>>
    BY DEF KeepChecker, serviceVars
<1>2. /\ reload'[r].pc = "checkers" /\ reload'[r].todo = reload[r].todo \ {c}
      /\ reload'[r].old = reload[r].old \ {c}
      /\ \A q \in RealKeys : q # r => reload'[q] = reload[q]
    BY <1>1, RealFacts, ReloadEdits DEF EditedTo
<1>3. NewConfig(r)' = NewConfig(r)
    BY <1>1 DEF NewConfig
<1>4. Kept(r)' = Kept(r)
  <2>1. c \in NewConfig(r).checkers
    BY <1>1, RealFacts DEF RealFits
  <2> QED
    BY <1>1, <1>2, <1>3, <2>1 DEF Kept
<1>5. RealFits(r)'
    BY <1>1, <1>2, <1>3, RealFacts DEF RealFits
<1>6. \A d \in Own(r) : CheckerFits(d)'
    BY <1>1, <1>2, <1>4, RealFacts DEF CheckerFits
<1>7. CheckersInv' /\ RealInv'
    BY <1>1, <1>2, <1>5, <1>6, LocalStep
<1>8. TargetInv'
  <2>1. Present' = Present
    BY <1>1 DEF Present
  <2> QED
    BY <1>1, <1>2, <2>1 DEF StructureInv, TargetInv, TypeOK
<1> QED
    BY <1>1, <1>7, <1>8 DEF Structured, StructureInv, ThreadInv

(* A new checker runs and is done with.                                     *)
LEMMA AddStep ==
    ASSUME StructureInv, NEW r \in RealKeys, NEW c \in CheckerKeys, AddChecker(r, c)
    PROVE  Structured
<1>1. /\ reload[r].pc = "checkers" /\ c \in reload[r].todo /\ c \notin reload[r].old
      /\ reload' = [reload EXCEPT ![r].todo = @ \ {c}]
      /\ pc' = [pc EXCEPT ![c] = "wait"]
      /\ UNCHANGED <<life, checkers, realConfig, target, event, stopping>>
    BY DEF AddChecker, serviceVars
<1>2. /\ reload'[r].pc = "checkers" /\ reload'[r].todo = reload[r].todo \ {c}
      /\ reload'[r].old = reload[r].old
      /\ \A q \in RealKeys : q # r => reload'[q] = reload[q]
    BY <1>1, RealFacts, ReloadEdits DEF EditedTo
<1>3. NewConfig(r)' = NewConfig(r)
    BY <1>1 DEF NewConfig
<1>4. /\ c \in Own(r) /\ event[c] = NoEvent /\ pc'[c] = "wait"
      /\ \A t \in Threads : t # c => pc'[t] = pc[t]
      /\ RealOf[c] = r
    BY <1>1, AddedIsOff, Constants DEF StructureInv, TypeOK, Own
<1>5. Kept(r)' = Kept(r) \cup {c}
  <2>1. c \in NewConfig(r).checkers
    BY <1>1, RealFacts DEF RealFits
  <2> QED
    BY <1>1, <1>2, <1>3, <2>1 DEF Kept
<1>6. RealFits(r)'
    BY <1>1, <1>2, <1>3, RealFacts DEF RealFits
<1>7. \A d \in Own(r) : CheckerFits(d)'
    BY <1>1, <1>2, <1>4, <1>5, RealFacts, Constants DEF CheckerFits
<1>8. CheckersInv' /\ RealInv'
    BY <1>1, <1>2, <1>4, <1>6, <1>7, LocalStep, Constants
<1>9. TargetInv'
  <2>1. Present' = Present /\ pc'[Reloader] = pc[Reloader]
    BY <1>1, <1>4, Constants DEF Present
  <2> QED
    BY <1>1, <1>2, <2>1 DEF StructureInv, TargetInv, TypeOK
<1>10. ThreadInv'
    BY <1>1, <1>4, Constants DEF StructureInv, ThreadInv
<1> QED
    BY <1>8, <1>9, <1>10 DEF Structured

(* A checker left over is signalled.                                        *)
LEMMA StopStep ==
    ASSUME StructureInv, NEW r \in RealKeys, NEW c \in CheckerKeys, StopChecker(r, c)
    PROVE  Structured
<1>1. /\ reload[r].pc \in {"checkers", "halting"} /\ reload[r].todo = {} /\ c \in reload[r].old
      /\ stopping' = [stopping EXCEPT ![c] = TRUE]
      /\ UNCHANGED <<life, checkers, realConfig, reload, target, event, pc>>
    BY DEF StopChecker, checkerVars, realVars, serviceVars
<1>2. /\ c \in Own(r) /\ RealOf[c] = r /\ stopping'[c]
      /\ \A d \in CheckerKeys : d # c => stopping'[d] = stopping[d]
    BY <1>1, RealFacts DEF StructureInv, TypeOK, RealFits, Own
<1>3. NewConfig(r)' = NewConfig(r) /\ Kept(r)' = Kept(r)
    BY <1>1 DEF NewConfig, Kept
<1>4. RealFits(r)'
    BY <1>1, <1>3, RealFacts DEF RealFits
<1>5. \A d \in Own(r) : CheckerFits(d)'
    BY <1>1, <1>2, <1>3, RealFacts DEF CheckerFits
<1>6. CheckersInv' /\ RealInv'
    BY <1>1, <1>2, <1>4, <1>5, LocalStep
<1>7. TargetInv'
  <2>1. Present' = Present
    BY <1>1 DEF Present
  <2> QED
    BY <1>1, <2>1 DEF StructureInv, TargetInv
<1>8. ThreadInv'
    BY <1>1, <1>2 DEF StructureInv, ThreadInv
<1> QED
    BY <1>6, <1>7, <1>8 DEF Structured

(* A checker that has stopped is dropped.                                   *)
LEMMA StoppedStep ==
    ASSUME StructureInv, NEW r \in RealKeys, NEW c \in CheckerKeys, CheckerStopped(r, c)
    PROVE  Structured
<1>1. /\ reload[r].pc \in {"checkers", "halting"} /\ c \in reload[r].old
      /\ stopping[c] /\ pc[c] = "off"
      /\ stopping' = [stopping EXCEPT ![c] = FALSE]
      /\ reload' = [reload EXCEPT ![r].old = @ \ {c}]
      /\ UNCHANGED <<life, checkers, realConfig, target, event, pc>>
    BY DEF CheckerStopped, serviceVars
<1>2. /\ c \in Own(r) /\ RealOf[c] = r /\ ~stopping'[c]
      /\ \A d \in CheckerKeys : d # c => stopping'[d] = stopping[d]
    BY <1>1, RealFacts DEF StructureInv, TypeOK, RealFits, Own
<1>3. /\ reload'[r].pc = reload[r].pc /\ reload'[r].todo = reload[r].todo
      /\ reload'[r].old = reload[r].old \ {c}
      /\ \A q \in RealKeys : q # r => reload'[q] = reload[q]
    BY <1>1, RealFacts, ReloadEdits DEF EditedTo
<1>4. NewConfig(r)' = NewConfig(r)
    BY <1>1 DEF NewConfig
<1>5. \A d \in Kept(r) : d # c => d \in Kept(r)'
    BY <1>1, <1>3, <1>4 DEF Kept
<1>6. RealFits(r)'
    BY <1>1, <1>3, <1>4, RealFacts DEF RealFits
<1>7. \A d \in Own(r) : CheckerFits(d)'
    BY <1>1, <1>2, <1>3, <1>5, RealFacts DEF CheckerFits
<1>8. CheckersInv' /\ RealInv'
    BY <1>1, <1>2, <1>3, <1>6, <1>7, LocalStep
<1>9. TargetInv'
  <2>1. Present' = Present
    BY <1>1 DEF Present
  <2> QED
    BY <1>1, <1>3, <2>1 DEF StructureInv, TargetInv, TypeOK
<1>10. ThreadInv'
    BY <1>1, <1>2 DEF StructureInv, ThreadInv
<1> QED
    BY <1>8, <1>9, <1>10 DEF Structured

(* Between the checkers and the configuration no checker changes.           *)
LEMMA SetDynStep ==
    ASSUME StructureInv, NEW r \in RealKeys, SetDynWeight(r)
    PROVE  Structured
<1>1. /\ reload[r].pc = "checkers" /\ reload[r].todo = {} /\ reload[r].old = {}
      /\ reload' = [reload EXCEPT ![r].pc = "saving"]
      /\ UNCHANGED <<life, checkers, realConfig, target, event, pc, stopping>>
    BY DEF SetDynWeight, checkerVars, serviceVars
<1>2. /\ reload'[r].pc = "saving" /\ reload'[r].todo = {} /\ reload'[r].old = {}
      /\ \A q \in RealKeys : q # r => reload'[q] = reload[q]
    BY <1>1, RealFacts, ReloadEdits DEF EditedTo
<1>3. NewConfig(r)' = NewConfig(r)
    BY <1>1 DEF NewConfig
<1>4. Kept(r)' = Kept(r)
    BY <1>1, <1>2, <1>3 DEF Kept
<1>5. RealFits(r)'
    BY <1>1, <1>2, <1>3, RealFacts DEF RealFits
<1>6. \A d \in Own(r) : CheckerFits(d)'
    BY <1>1, <1>4, RealFacts DEF CheckerFits
<1>7. CheckersInv' /\ RealInv'
    BY <1>1, <1>2, <1>5, <1>6, LocalStep
<1>8. TargetInv'
  <2>1. Present' = Present
    BY <1>1 DEF Present
  <2> QED
    BY <1>1, <1>2, <2>1 DEF StructureInv, TargetInv, TypeOK
<1> QED
    BY <1>1, <1>7, <1>8 DEF Structured, StructureInv, ThreadInv

(* The saved configuration names the checkers that run.                     *)
LEMMA SaveStep ==
    ASSUME StructureInv, NEW r \in RealKeys, SaveConfig(r)
    PROVE  Structured
<1>1. /\ reload[r].pc = "saving"
      /\ realConfig' = [realConfig EXCEPT ![r] = NewConfig(r)]
      /\ checkers' = [checkers EXCEPT ![r] = NewConfig(r).checkers]
      /\ reload' = [reload EXCEPT ![r] = IdleReload]
      /\ target' = IF target.current = r
                   THEN [target EXCEPT !.current = NoReal, !.todo = @ \ {r}, !.old = @ \ {r}]
                   ELSE target
      /\ UNCHANGED <<life, event, pc, stopping>>
    BY DEF SaveConfig, Proceed, checkerVars
<1>2. /\ realConfig'[r] = NewConfig(r) /\ checkers'[r] = NewConfig(r).checkers
      /\ reload'[r] = IdleReload
      /\ \A q \in RealKeys : q # r => /\ realConfig'[q] = realConfig[q]
                                     /\ checkers'[q] = checkers[q] /\ reload'[q] = reload[q]
    BY <1>1 DEF StructureInv, TypeOK
<1>3. /\ target'.current = IF target.current = r THEN NoReal ELSE target.current
      /\ target'.config = target.config
    BY <1>1 DEF StructureInv, TypeOK
<1>4. /\ IdleReload.pc = "idle" /\ IdleReload.todo = {} /\ IdleReload.old = {}
    BY DEF IdleReload
<1>5. NewConfig(r)' = NewConfig(r)
    BY <1>2, <1>3, Constants DEF NewConfig
<1>6. Kept(r)' = Kept(r)
    BY <1>1, <1>2, <1>4, IdleReal DEF Kept
<1>7. RealFits(r) /\ life[r] = "active" /\ NewConfig(r).checkers \subseteq Own(r)
    BY <1>1, RealFacts DEF RealFits
<1>8. RealFits(r)'
    BY <1>1, <1>2, <1>4, <1>7 DEF RealFits
<1>9. \A d \in Own(r) : CheckerFits(d)'
    BY <1>1, <1>6, IdleReal, RealFacts DEF CheckerFits
<1>10. CheckersInv' /\ RealInv'
    BY <1>1, <1>2, <1>3, <1>8, <1>9, LocalStep, Constants
<1>11. TargetInv'
  <2>1. Present' = Present
    BY <1>1 DEF Present
  <2>2. target.current = r => pc[Reloader] = "reals" /\ target'.current = NoReal
    BY <1>3, <1>7, Constants DEF StructureInv, TargetInv
  <2>3. CASE target.current = r
    BY <1>1, <2>2, <2>3 DEF TargetInv
  <2>4. CASE target.current # r
    <3>1. target' = target
      BY <1>1, <2>4
    <3> QED
      BY <1>1, <1>2, <2>1, <2>4, <3>1 DEF StructureInv, TargetInv, TypeOK
  <2> QED
    BY <2>3, <2>4
<1> QED
    BY <1>1, <1>10, <1>11 DEF Structured, StructureInv, ThreadInv

(* A halted real has no checkers.                                           *)
LEMMA HaltedStep ==
    ASSUME StructureInv, NEW r \in RealKeys, RealHalted(r)
    PROVE  Structured
<1>1. /\ reload[r].pc = "halting" /\ reload[r].old = {}
      /\ life' = [life EXCEPT ![r] = "absent"]
      /\ checkers' = [checkers EXCEPT ![r] = {}]
      /\ reload' = [reload EXCEPT ![r] = IdleReload]
      /\ target' = IF target.current = r
                   THEN [target EXCEPT !.current = NoReal, !.todo = @ \ {r}, !.old = @ \ {r}]
                   ELSE target
      /\ UNCHANGED <<realConfig, event, pc, stopping>>
    BY DEF RealHalted, Proceed, checkerVars
<1>2. /\ life'[r] = "absent" /\ checkers'[r] = {} /\ reload'[r] = IdleReload
      /\ \A q \in RealKeys : q # r => /\ life'[q] = life[q]
                                     /\ checkers'[q] = checkers[q] /\ reload'[q] = reload[q]
    BY <1>1 DEF StructureInv, TypeOK
<1>3. RealFits(r) /\ life[r] = "stopping" /\ target.current = r
    BY <1>1, RealFacts DEF RealFits
<1>4. /\ target'.current = NoReal /\ target'.config = target.config
      /\ target'.todo = target.todo \ {r} /\ target'.old = target.old \ {r}
    BY <1>1, <1>3 DEF StructureInv, TypeOK
<1>5. IdleReload.pc = "idle" /\ IdleReload.todo = {} /\ IdleReload.old = {}
    BY DEF IdleReload
<1>6. Kept(r) = {}
    BY <1>1 DEF Kept
<1>7. RealFits(r)'
    BY <1>1, <1>2, <1>3, <1>5 DEF RealFits
<1>8. \A d \in Own(r) : CheckerFits(d)'
    BY <1>1, <1>6, RealFacts DEF CheckerFits
<1>9. CheckersInv' /\ RealInv'
    BY <1>1, <1>2, <1>3, <1>4, <1>7, <1>8, LocalStep, Constants
<1>10. TargetInv'
  <2>1. Present' \subseteq Present \ {r}
    BY <1>2 DEF Present
  <2>2. pc[Reloader] \in {"reals", "stopping"}
    BY <1>3, Constants DEF StructureInv, TargetInv
  <2> QED
    BY <1>1, <1>4, <2>1, <2>2 DEF StructureInv, TargetInv
<1> QED
    BY <1>1, <1>9, <1>10 DEF Structured, StructureInv, ThreadInv

(* Service.Reload hands a configuration to an active real.                  *)
LEMMA ReloadActiveStep ==
    ASSUME StructureInv, NEW r \in RealKeys, ReloadActive(r)
    PROVE  Structured
<1>1. /\ pc[Reloader] = "reals" /\ target.current = NoReal /\ r \in target.todo
      /\ life[r] = "active" /\ reload[r] = IdleReload
      /\ target' = [target EXCEPT !.current = r]
      /\ reload' = [reload EXCEPT ![r] = [pc |-> "checkers",
                                          todo |-> RealConfigOf(target.config, r).checkers,
                                          old |-> checkers[r]]]
      /\ UNCHANGED <<life, checkers, realConfig, event, pc, stopping>>
    BY DEF ReloadActive, BeginReload, checkerVars
<1>2. /\ reload'[r].pc = "checkers" /\ reload'[r].old = checkers[r]
      /\ reload'[r].todo = RealConfigOf(target.config, r).checkers
      /\ \A q \in RealKeys : q # r => reload'[q] = reload[q]
    BY <1>1 DEF StructureInv, TypeOK
<1>3. /\ target'.current = r /\ target'.config = target.config
      /\ target'.todo = target.todo /\ target'.old = target.old
    BY <1>1 DEF StructureInv, TypeOK
<1>4. reload[r].pc = "idle" /\ r # NoReal
    BY <1>1, Constants DEF IdleReload
<1>5. NewConfig(r)' = RealConfigOf(target.config, r)
    BY <1>3 DEF NewConfig
<1>6. Kept(r)' = Kept(r)
    BY <1>2, <1>4, <1>5 DEF Kept
<1>7. RealFits(r)'
    BY <1>1, <1>2, <1>3, <1>5, RealFacts DEF RealFits
<1>8. \A d \in Own(r) : CheckerFits(d)'
    BY <1>1, <1>4, <1>6, IdleReal, RealFacts DEF CheckerFits
<1>9. CheckersInv' /\ RealInv'
    BY <1>1, <1>2, <1>3, <1>7, <1>8, LocalStep, Constants
<1>10. TargetInv'
    BY <1>1, <1>2, <1>3 DEF TargetInv
<1> QED
    BY <1>1, <1>9, <1>10 DEF Structured, StructureInv, ThreadInv

(* A real that Service.Reload finds inactive has no checkers and no reload. *)
LEMMA InactiveReal ==
    ASSUME StructureInv, NEW r \in RealKeys, ReloadInactive(r)
    PROVE  /\ life[r] \in {"absent", "waiting"} /\ checkers[r] = {}
           /\ reload[r].pc = "idle" /\ Kept(r) = {}
           /\ \A c \in Own(r) : pc[c] = "off" /\ ~stopping[c]
<1>1. life[r] # "active" /\ target.current = NoReal
    BY DEF ReloadInactive
<1>2. life[r] \in {"absent", "waiting"} /\ checkers[r] = {} /\ reload[r].pc = "idle"
    BY <1>1, RealFacts, Constants DEF RealFits, ReloadType, StructureInv, TypeOK
<1> QED
    BY <1>2, IdleReal

(* A real that is not active has no checkers to reload.                     *)
LEMMA ReloadInactiveStep ==
    ASSUME StructureInv, NEW r \in RealKeys, ReloadInactive(r)
    PROVE  Structured
<1>1. /\ pc[Reloader] = "reals" /\ target.current = NoReal
      /\ life' = [life EXCEPT ![r] = "waiting"]
      /\ realConfig' = [realConfig EXCEPT ![r] = RealConfigOf(target.config, r)]
      /\ target' = [target EXCEPT !.todo = @ \ {r}, !.old = @ \ {r}]
      /\ UNCHANGED <<checkers, reload, event, pc, stopping>>
    BY DEF ReloadInactive, checkerVars
<1>2. /\ life'[r] = "waiting" /\ realConfig'[r] = RealConfigOf(target.config, r)
      /\ \A q \in RealKeys : q # r => life'[q] = life[q] /\ realConfig'[q] = realConfig[q]
      /\ target'.current = NoReal /\ target'.config = target.config /\ target.config \in Configs
    BY <1>1 DEF StructureInv, TypeOK
<1>3. RealFits(r)'
    BY <1>1, <1>2, RealFacts, RealConfigOfType, InactiveReal DEF RealFits
<1>4. \A d \in Own(r) : CheckerFits(d)'
    BY <1>1, InactiveReal DEF CheckerFits
<1>5. CheckersInv' /\ RealInv'
    BY <1>1, <1>2, <1>3, <1>4, LocalStep, Constants
<1>6. TargetInv'
    BY <1>1, <1>2 DEF TargetInv
<1> QED
    BY <1>1, <1>5, <1>6 DEF Structured, StructureInv, ThreadInv

(* When Real.Stop begins, the real is not being reloaded, or only for the   *)
(* first time.                                                              *)
LEMMA HaltFacts ==
    ASSUME StructureInv, NEW r \in RealKeys, Halt(r)
    PROVE  /\ r # NoReal /\ pc[Reloader] \in {"reals", "stopping"}
           /\ target.current = NoReal /\ target.todo = {} /\ r \in target.old
           /\ reload[r].pc \in {"idle", "checkers", "saving"}
           /\ reload[r].old = {}
           /\ reload[r].pc # "idle" =>
                 checkers[r] = {} /\ life[r] = "active" /\ Kept(r) = Added(r)
           /\ reload[r].pc = "idle" => Kept(r) = checkers[r] /\ Added(r) = {}
           /\ \A d \in Own(r) : ~stopping[d]
<1>1. /\ r # NoReal /\ pc[Reloader] \in {"reals", "stopping"}
      /\ target.current = NoReal /\ target.todo = {} /\ r \in target.old
    BY Constants DEF Halt
<1>2. RealFits(r) /\ reload[r] \in ReloadType /\ \A d \in Own(r) : CheckerFits(d) /\ RealOf[d] = r
    BY RealFacts
<1>3. reload[r].pc \in {"idle", "checkers", "saving"}
    BY <1>1, <1>2 DEF RealFits, ReloadType
<1>4. reload[r].old = {}
    BY <1>1, <1>2, <1>3 DEF RealFits
<1>5. \A d \in Own(r) : ~stopping[d]
    BY <1>2, <1>4 DEF CheckerFits
<1>6. /\ reload[r].pc # "idle" =>
            checkers[r] = {} /\ life[r] = "active" /\ Kept(r) = Added(r)
      /\ reload[r].pc = "idle" => Kept(r) = checkers[r] /\ Added(r) = {}
    BY <1>1, <1>2, <1>3, <1>4 DEF RealFits, Kept, Added
<1> QED
    BY <1>1, <1>3, <1>4, <1>5, <1>6

(* Real.Stop has all checkers of the real before it.                        *)
LEMMA HaltStep ==
    ASSUME StructureInv, NEW r \in RealKeys, HaltReal(r)
    PROVE  Structured
<1>0. Halt(r) /\ Added(r) = {}
    BY DEF HaltReal
<1>1. /\ pc[Reloader] \in {"reals", "stopping"} /\ target.current = NoReal
      /\ target.todo = {} /\ r \in target.old
      /\ target' = [target EXCEPT !.current = r]
      /\ reload' = [reload EXCEPT ![r] = [pc |-> "halting", todo |-> {}, old |-> checkers[r]]]
      /\ life' = [life EXCEPT ![r] = "stopping"]
      /\ UNCHANGED <<checkers, realConfig, event, pc, stopping>>
    BY <1>0, HaltFacts DEF HaltReal, checkerVars
<1>2. /\ reload'[r].pc = "halting" /\ reload'[r].old = checkers[r] /\ reload'[r].todo = {}
      /\ life'[r] = "stopping"
      /\ \A q \in RealKeys : q # r => reload'[q] = reload[q] /\ life'[q] = life[q]
    BY <1>1 DEF StructureInv, TypeOK
<1>3. /\ target'.current = r /\ target'.config = target.config
      /\ target'.todo = target.todo /\ target'.old = target.old
    BY <1>1 DEF StructureInv, TypeOK
<1>4. /\ r # NoReal /\ Kept(r) = checkers[r]
      /\ \A d \in Own(r) : ~stopping[d]
    BY <1>0, HaltFacts
<1>5. Kept(r)' = Kept(r)
    BY <1>2, <1>4 DEF Kept
<1>6. RealFits(r)'
    BY <1>1, <1>2, <1>3, RealFacts DEF RealFits
<1>7. \A d \in Own(r) : CheckerFits(d)'
    BY <1>1, <1>4, <1>5, RealFacts DEF CheckerFits
<1>8. CheckersInv' /\ RealInv'
    BY <1>1, <1>2, <1>3, <1>6, <1>7, LocalStep, Constants
<1>9. TargetInv'
  <2>1. Present' \subseteq Present \cup {r}
    BY <1>2 DEF Present
  <2> QED
    BY <1>1, <1>2, <1>3, <2>1 DEF StructureInv, TargetInv
<1> QED
    BY <1>1, <1>8, <1>9 DEF Structured, StructureInv, ThreadInv

(* Real.Stop that hangs leaves the checkers that were added running.        *)
LEMMA HangStep ==
    ASSUME StructureInv, NEW r \in RealKeys, HaltHangs(r)
    PROVE  Structured
<1>0. Halt(r) /\ Added(r) # {}
    BY DEF HaltHangs
<1>1. /\ pc' = [pc EXCEPT ![Reloader] = "hung"]
      /\ reload' = [reload EXCEPT ![r] = [pc |-> "hung", todo |-> {}, old |-> Added(r)]]
      /\ UNCHANGED <<life, target, checkers, realConfig, event, stopping>>
    BY DEF HaltHangs, checkerVars, serviceVars
<1>2. /\ reload'[r].pc = "hung" /\ reload'[r].old = Added(r) /\ reload'[r].todo = {}
      /\ \A q \in RealKeys : q # r => reload'[q] = reload[q]
      /\ pc'[Reloader] = "hung" /\ \A c \in CheckerKeys : pc'[c] = pc[c]
    BY <1>1, Constants DEF StructureInv, TypeOK
<1>3. /\ target.current = NoReal /\ r # NoReal /\ life[r] = "active"
      /\ Kept(r) = Added(r) /\ \A d \in Own(r) : ~stopping[d]
    BY <1>0, HaltFacts
<1>4. Kept(r)' = Kept(r)
    BY <1>2, <1>3 DEF Kept
<1>5. Added(r) \subseteq Own(r)
    BY RealFacts DEF Added
<1>6. RealFits(r)'
    BY <1>1, <1>2, <1>3, <1>5, RealFacts DEF RealFits
<1>7. \A d \in Own(r) : CheckerFits(d)'
    BY <1>1, <1>2, <1>3, <1>4, RealFacts DEF CheckerFits
<1>8. CheckersInv' /\ RealInv'
    BY <1>1, <1>2, <1>6, <1>7, LocalStep, Constants
<1>9. TargetInv'
    BY <1>1, <1>2, <1>3 DEF TargetInv
<1>10. ThreadInv'
    BY <1>1, <1>2 DEF StructureInv, ThreadInv
<1> QED
    BY <1>8, <1>9, <1>10 DEF Structured

(* The reloader begins and ends.                                            *)
LEMMA ReloaderStep ==
    ASSUME StructureInv,
           \/ \E cfg \in Configs : ServiceReload(cfg)
           \/ ServiceStop \/ ReloadDone \/ StopDone
    PROVE  Structured
<1>1. /\ UNCHANGED <<stopping, event, life, realConfig, checkers, reload>>
      /\ pc[Reloader] # "hung" /\ pc' = [pc EXCEPT ![Reloader] = pc'[Reloader]]
      /\ pc'[Reloader] \in {"reals", "announce", "stopping", "stopped"}
  <2> DEFINE Goes ==
        /\ UNCHANGED <<stopping, event, life, realConfig, checkers, reload>>
        /\ pc[Reloader] # "hung"
        /\ \E place \in {"reals", "announce", "stopping", "stopped"} :
               pc' = [pc EXCEPT ![Reloader] = place]
  <2>1. ASSUME NEW cfg \in Configs, ServiceReload(cfg) PROVE Goes
    BY <2>1 DEF ServiceReload, checkerVars, realVars
  <2>2. ASSUME ServiceStop PROVE Goes
    BY <2>2 DEF ServiceStop, checkerVars, realVars
  <2>3. ASSUME ReloadDone PROVE Goes
    BY <2>3 DEF ReloadDone, checkerVars, realVars
  <2>4. ASSUME StopDone PROVE Goes
    BY <2>4 DEF StopDone, checkerVars, realVars
  <2>5. Goes
    <3> HIDE DEF Goes
    <3> QED
      BY <2>1, <2>2, <2>3, <2>4
  <2>6. PICK place \in {"reals", "announce", "stopping", "stopped"} :
           pc' = [pc EXCEPT ![Reloader] = place]
    BY <2>5
  <2>7. pc' = [pc EXCEPT ![Reloader] = pc'[Reloader]] /\ pc'[Reloader] = place
    BY <2>6, Constants DEF StructureInv, TypeOK, Threads
  <2> QED
    BY <2>5, <2>6, <2>7
<1>2. /\ \A t \in Threads : t # Reloader => pc'[t] = pc[t]
      /\ \A c \in CheckerKeys : pc'[c] = pc[c]
    BY <1>1, Constants DEF StructureInv, TypeOK
<1>3. target.current = NoReal /\ target'.current = NoReal
  <2>1. ASSUME NEW cfg \in Configs, ServiceReload(cfg)
        PROVE  target.current = NoReal /\ target'.current = NoReal
    BY <2>1 DEF ServiceReload, StructureInv, TargetInv, NoTarget
  <2>2. CASE ServiceStop
    BY <2>2 DEF ServiceStop, StructureInv, TargetInv, NoTarget
  <2>3. CASE ReloadDone
    BY <2>3 DEF ReloadDone, StructureInv, TargetInv, NoTarget
  <2>4. CASE StopDone
    BY <2>4 DEF StopDone, serviceVars, StructureInv, TargetInv
  <2> QED
    BY <2>1, <2>2, <2>3, <2>4
<1>4. CheckersInv' /\ RealInv'
    BY <1>1, <1>2, <1>3, StructureFrame
<1>5. Present' = Present
    BY <1>1 DEF Present
<1>6. TargetInv'
  <2>1. CASE \E cfg \in Configs : ServiceReload(cfg)
    BY <1>3, <2>1, Constants DEF ServiceReload, TargetInv, StructureInv, TypeOK
  <2>2. CASE ServiceStop
    BY <1>3, <1>5, <2>2, Constants DEF ServiceStop, TargetInv, NoTarget, StructureInv, TypeOK
  <2>3. CASE ReloadDone
    BY <1>3, <2>3, Constants DEF ReloadDone, TargetInv, StructureInv, TypeOK
  <2>4. CASE StopDone
    BY <1>3, <1>5, <2>4, Constants DEF StopDone, TargetInv, StructureInv, TypeOK
  <2> QED
    BY <2>1, <2>2, <2>3, <2>4
<1>7. ThreadInv'
    BY <1>1, <1>2 DEF StructureInv, ThreadInv
<1> QED
    BY <1>4, <1>6, <1>7 DEF Structured

(* A goroutine that goes on, and one with a result, touch no reload.        *)
LEMMA GoesOnStep ==
    ASSUME StructureInv, GoesOn
    PROVE  Structured
<1>1. UNCHANGED <<checker, stopping, realVars, config, target>> /\ ThreadsGoOn
    BY GoesOnEffect DEF StructureInv
<1>2. UNCHANGED <<stopping, life, realConfig, checkers, reload, target>>
    BY <1>1 DEF realVars
<1>3. CheckersInv' /\ RealInv'
    BY <1>1, <1>2, StructureFrame DEF ThreadsGoOn
<1>4. Present' = Present
    BY <1>2 DEF Present
<1>5. TargetInv'
    BY <1>1, <1>2, <1>4 DEF ThreadsGoOn, StructureInv, TargetInv
<1> QED
    BY <1>1, <1>3, <1>5 DEF Structured, ThreadsGoOn

(* A result moves no checker in or out of its real.                         *)
LEMMA ResultStep ==
    ASSUME StructureInv, NEW c \in CheckerKeys, HasResult(c)
    PROVE  Structured
<1>1. /\ UNCHANGED <<stopping, life, realConfig, checkers, reload, target>>
      /\ pc' = [pc EXCEPT ![c] = pc'[c]]
      /\ pc[c] \in {"wait", "check"}
      /\ \A d \in CheckerKeys : d # c => event'[d] = event[d]
      /\ \/ pc'[c] \in {"wait", "off"} /\ event'[c] = NoEvent
         \/ pc'[c] = "service" /\ event'[c] # NoEvent
      /\ event'[c] # NoEvent /\ event'[c].type = "Shutdown" => stopping[c]
    BY ResultEffect DEF StructureInv, serviceVars
<1>2. \A t \in Threads : t # c => pc'[t] = pc[t]
    BY <1>1 DEF StructureInv, TypeOK
<1>3. CheckersInv' /\ RealInv'
    BY <1>1, <1>2, StructureFrame, Constants
<1>4. Present' = Present
    BY <1>1 DEF Present
<1>5. TargetInv'
    BY <1>1, <1>2, <1>4, Constants DEF StructureInv, TargetInv
<1>6. ThreadInv'
  <2>1. ASSUME NEW d \in CheckerKeys
        PROVE  \/ pc'[d] \in {"off", "wait", "check"} /\ event'[d] = NoEvent
               \/ /\ pc'[d] \in {"service", "balancer", "announce", "apply", "register"}
                  /\ event'[d] # NoEvent
                  /\ event'[d].type = "Shutdown" => stopping'[d]
    BY <1>1, <1>2, Constants DEF StructureInv, ThreadInv
  <2> QED
    BY <1>2, <2>1, Constants DEF StructureInv, ThreadInv
<1> QED
    BY <1>3, <1>5, <1>6 DEF Structured

(* How the goroutines of checkers, the reload of a real and that of the     *)
(* service fit together, in every state.                                    *)
LEMMA StructureStep ==
    ASSUME StructureInv, [Next]_vars
    PROVE  StructureInv'
<1>1. TypeOK'
    BY TypeStep DEF StructureInv
<1>2. CASE UNCHANGED vars
  <2>1. UNCHANGED <<stopping, life, realConfig, checkers, reload, target, pc, event>>
    BY <1>2 DEF vars
  <2>2. CheckersInv' /\ RealInv'
    BY <2>1, StructureFrame
  <2>3. Present' = Present
    BY <2>1 DEF Present
  <2>4. ThreadInv' /\ TargetInv'
    BY <2>1, <2>3 DEF StructureInv, ThreadInv, TargetInv
  <2> QED
    BY <1>1, <2>2, <2>4 DEF StructureInv
<1>3. CASE Next
  <2>1. Structured
    BY <1>3, GoesOnStep, ResultStep, ActivateStep, KeepStep, AddStep, StopStep, StoppedStep,
       SetDynStep, SaveStep, HaltedStep, ReloadActiveStep, ReloadInactiveStep, HaltStep,
       HangStep, ReloaderStep
    DEF Next, CheckerNext, HasResult, GoesOn, RealNext, ReloadNext
  <2> QED
    BY <1>1, <2>1 DEF Structured, StructureInv
<1> QED
    BY <1>2, <1>3

(* The structure holds at the start.                                        *)
LEMMA StructureInit == Init => StructureInv
<1> SUFFICES ASSUME Init PROVE StructureInv
    OBVIOUS
<1>0. config \in Configs /\ config.reals \subseteq RealKeys
    BY HealthAssumption DEF Init
<1>1. TypeOK
  <2>1. \A r \in RealKeys : RealConfigOf(config, r) \in RealConfigType
    BY <1>0, RealConfigOfType
  <2>2. realConfig \in [RealKeys -> RealConfigType]
    BY <2>1 DEF Init
  <2>3. target \in [config : Configs, todo : SUBSET RealKeys, old : SUBSET RealKeys,
                    current : RealKeys \cup {NoReal}]
    BY <1>0 DEF Init, NoTarget
  <2>4. /\ checker \in [CheckerKeys -> CheckerState]
        /\ real \in [RealKeys -> RealState]
        /\ reload \in [RealKeys -> ReloadType]
        /\ balancer \in [RealKeys -> Statuses]
    BY DEF Init, NewChecker, NewReal, CheckerState, RealState, IdleReload, ReloadType, Status,
           Statuses, Weights
  <2>5. snapshot \in [CheckerKeys -> [weight : Weights, force : BOOLEAN]]
    BY DEF Init, NoSnapshot, Weights
  <2>6. pending \in [RealKeys -> HandlerEvent \cup {NoEvent}]
    BY DEF Init, EmptyRegistry
  <2>7. /\ stopping \in [CheckerKeys -> BOOLEAN]
        /\ pc \in [Threads -> PcType]
        /\ event \in [CheckerKeys -> HandlerEvent \cup {NoEvent}]
        /\ seen \in [Threads -> {QuorumUp, QuorumDown, QuorumHold}]
    BY DEF Init, PcType
  <2>8. /\ life \in [RealKeys -> {"absent", "waiting", "active", "stopping"}]
        /\ checkers \in [RealKeys -> SUBSET CheckerKeys]
        /\ service \in [alive : BOOLEAN, weight : Int, realsAlive : Int]
    BY DEF Init
  <2>9. /\ serviceEvent \in ServiceStatus \cup {NoEvent} /\ told \in ServiceStatus
        /\ updaterPc \in {"idle", "process", "announce"}
        /\ announceEvent \in ServiceStatus \cup {NoEvent} /\ runStuck \in BOOLEAN
    BY DEF Init, ServiceStatus
  <2> QED
    BY <1>0, <2>2, <2>3, <2>4, <2>5, <2>6, <2>7, <2>8, <2>9
    DEF TypeOK, RealConfigType, CheckerState, RealState, ReloadType, PcType
<1>2. ThreadInv
    BY Constants DEF Init, ThreadInv
<1>3. target.current = NoReal
    BY DEF Init, NoTarget
<1>4. ASSUME NEW r \in RealKeys
      PROVE  RealFits(r)
  <2>1. /\ checkers[r] = {} /\ life[r] = "absent" /\ realConfig[r] = RealConfigOf(config, r)
        /\ reload[r].pc = "idle" /\ reload[r].todo = {} /\ reload[r].old = {}
    BY DEF Init, IdleReload
  <2> QED
    BY <1>0, <2>1, RealConfigOfType DEF RealFits
<1>5. ASSUME NEW c \in CheckerKeys
      PROVE  CheckerFits(c)
    BY Constants DEF Init, CheckerFits
<1>6. TargetInv
    BY <1>3, Constants DEF Init, TargetInv
<1> QED
    BY <1>1, <1>2, <1>4, <1>5, <1>6 DEF StructureInv, RealInv, CheckersInv

-----------------------------------------------------------------------------
(* Most steps change neither a checker's state, nor whether its goroutine   *)
(* is up, nor what the real is.                                             *)
Steady ==
    /\ \A c \in CheckerKeys :
          /\ Up(c)' <=> Up(c)
          /\ checker'[c].alive = checker[c].alive
          /\ pc'[c] = "off" /\ ~stopping'[c] => pc[c] = "off" /\ ~stopping[c]
    /\ \A r \in RealKeys :
          /\ real'[r].alive = real[r].alive /\ real'[r].inhibited = real[r].inhibited
          /\ real'[r].weight = real[r].weight
          /\ \/ realConfig'[r].inhibit = realConfig[r].inhibit
             \/ \E cfg \in Configs : realConfig'[r].inhibit = cfg.inhibit[r]

Changes ==
    \/ \E c \in CheckerKeys : HasResult(c)
    \/ \E r \in RealKeys, c \in CheckerKeys : AddChecker(r, c) \/ CheckerStopped(r, c)
    \/ \E r \in RealKeys : ReloadInactive(r)

(* The steps of the reloader that touch neither checkers nor reals.         *)
ReloaderAlone ==
    \/ \E cfg \in Configs : ServiceReload(cfg)
    \/ ServiceStop \/ ReloadDone \/ StopDone
    \/ \E r \in RealKeys : HaltHangs(r)

(* They move the reloader alone.                                            *)
LEMMA ReloaderMoves ==
    ASSUME TypeOK, ReloaderAlone
    PROVE  /\ UNCHANGED <<checker, stopping, event, real, realConfig, service, pending,
                          balancer>>
           /\ pc' = [pc EXCEPT ![Reloader] = pc'[Reloader]]
<1> DEFINE Moves == /\ UNCHANGED <<checker, stopping, event, real, realConfig, service,
                                   pending, balancer>>
                    /\ \E place : pc' = [pc EXCEPT ![Reloader] = place]
<1>1. ASSUME NEW cfg \in Configs, ServiceReload(cfg) PROVE Moves
    BY <1>1 DEF ServiceReload, checkerVars, realVars, updaterVars
<1>2. ASSUME ServiceStop PROVE Moves
    BY <1>2 DEF ServiceStop, checkerVars, realVars, serviceVars, updaterVars
<1>3. ASSUME ReloadDone PROVE Moves
    BY <1>3 DEF ReloadDone, checkerVars, realVars, updaterVars
<1>4. ASSUME StopDone PROVE Moves
    BY <1>4 DEF StopDone, checkerVars, realVars, serviceVars, updaterVars
<1>5. ASSUME NEW r \in RealKeys, HaltHangs(r) PROVE Moves
    BY <1>5 DEF HaltHangs, checkerVars, serviceVars, updaterVars
<1>6. Moves
  <2> HIDE DEF Moves
  <2> QED
    BY <1>1, <1>2, <1>3, <1>4, <1>5 DEF ReloaderAlone
<1>7. PICK place : pc' = [pc EXCEPT ![Reloader] = place]
    BY <1>6
<1>8. pc' = [pc EXCEPT ![Reloader] = pc'[Reloader]]
    BY <1>7 DEF TypeOK
<1> QED
    BY <1>6, <1>8

(* Every step is steady or one of the four that are not.                    *)
LEMMA SteadyStep ==
    ASSUME StructureInv, [Next]_vars
    PROVE  Steady \/ Changes
<1>1. CASE GoesOn
  <2>1. UNCHANGED <<checker, stopping, real, realConfig>> /\ ThreadsGoOn
    BY <1>1, GoesOnEffect DEF StructureInv, realVars
  <2> QED
    BY <2>1 DEF ThreadsGoOn, Steady
<1>2. ASSUME UNCHANGED <<checker, stopping, real, realConfig, event>>,
             \A c \in CheckerKeys : pc'[c] = pc[c]
      PROVE  Steady
    BY <1>2 DEF Steady, Up
<1>3. CASE UNCHANGED vars
    BY <1>2, <1>3 DEF vars
<1>4. ASSUME NEW r \in RealKeys, Activate(r) \/ RealHalted(r) \/ ReloadActive(r) \/ HaltReal(r)
      PROVE  Steady
    BY <1>2, <1>4 DEF Activate, RealHalted, ReloadActive, HaltReal, checkerVars
<1>5. ASSUME NEW r \in RealKeys, NEW c \in CheckerKeys, KeepChecker(r, c)
      PROVE  Steady
  <2>1. \A d \in CheckerKeys : checker'[d].alive = checker[d].alive
    <3>1. checker \in [CheckerKeys -> CheckerState]
      BY DEF StructureInv, TypeOK, CheckerState
    <3>2. CASE UNCHANGED checker
      BY <3>2
    <3>3. CASE checker' = [checker EXCEPT ![c] = UpdateWeight(@, NewConfig(r).weight)]
      <4>1. UpdateWeight(checker[c], NewConfig(r).weight).alive = checker[c].alive
        BY <3>1 DEF UpdateWeight, CheckerState
      <4> QED
        BY <3>1, <3>3, <4>1
    <3> QED
      BY <1>5, <3>2, <3>3 DEF KeepChecker
  <2> QED
    BY <1>5, <2>1 DEF KeepChecker, Steady, Up
<1>6. ASSUME NEW r \in RealKeys, NEW c \in CheckerKeys, StopChecker(r, c)
      PROVE  Steady
  <2>1. \A d \in CheckerKeys : stopping[d] => stopping'[d]
    BY <1>6 DEF StopChecker, StructureInv, TypeOK
  <2> QED
    BY <1>6, <2>1 DEF StopChecker, realVars, Steady, Up
<1>7. ASSUME NEW r \in RealKeys, SetDynWeight(r)
      PROVE  Steady
  <2>0. real \in [RealKeys -> RealState]
    BY DEF StructureInv, TypeOK, RealState
  <2>1. PICK dynamic : real' = [real EXCEPT ![r].dynWeight = dynamic]
    BY <1>7 DEF SetDynWeight
  <2>2. \A q \in RealKeys : /\ real'[q].alive = real[q].alive
                            /\ real'[q].inhibited = real[q].inhibited
                            /\ real'[q].weight = real[q].weight
    BY <2>0, <2>1 DEF RealState
  <2> QED
    BY <1>7, <2>2 DEF SetDynWeight, checkerVars, Steady, Up
<1>8. ASSUME NEW r \in RealKeys, SaveConfig(r)
      PROVE  Steady
  <2>1. /\ UNCHANGED <<checker, stopping, event, pc, real>>
        /\ realConfig' = [realConfig EXCEPT ![r] = NewConfig(r)]
    BY <1>8 DEF SaveConfig, checkerVars
  <2>2. /\ realConfig'[r] = NewConfig(r)
        /\ \A q \in RealKeys : q # r => realConfig'[q] = realConfig[q]
        /\ target.config \in Configs
    BY <2>1 DEF StructureInv, TypeOK
  <2>3. NewConfig(r) = realConfig[r] \/ NewConfig(r).inhibit = target.config.inhibit[r]
    BY <2>2, RealConfigOfType DEF NewConfig
  <2> QED
    BY <2>1, <2>2, <2>3 DEF Steady, Up
<1>9. CASE \/ \E cfg \in Configs : ServiceReload(cfg)
           \/ ServiceStop \/ ReloadDone \/ StopDone
           \/ \E r \in RealKeys : HaltHangs(r)
  <2>1. /\ UNCHANGED <<checker, stopping, event, real, realConfig>>
        /\ pc' = [pc EXCEPT ![Reloader] = pc'[Reloader]]
    BY <1>9, ReloaderMoves DEF StructureInv, ReloaderAlone
  <2>2. \A c \in CheckerKeys : pc'[c] = pc[c]
    BY <2>1, Constants DEF StructureInv, TypeOK
  <2> QED
    BY <1>2, <2>1, <2>2
<1> QED
    BY <1>1, <1>3, <1>4, <1>5, <1>6, <1>7, <1>8, <1>9
    DEF Changes, Next, CheckerNext, HasResult, GoesOn, RealNext, ReloadNext

(* The other steps, seen the same way.                                      *)
LEMMA AddEffect ==
    ASSUME StructureInv, NEW r \in RealKeys, NEW c \in CheckerKeys, AddChecker(r, c)
    PROVE  /\ RealOf[c] = r /\ ~Up(c) /\ Up(c)' /\ ~checker'[c].alive
           /\ \A d \in CheckerKeys : d # c =>
                 (Up(d)' <=> Up(d)) /\ checker'[d] = checker[d] /\ pc'[d] = pc[d]
           /\ pc'[c] = "wait" /\ pc[c] = "off"
           /\ UNCHANGED <<real, realConfig, stopping, event, pending, balancer>>
<1>1. /\ c \in Own(r) /\ pc[c] = "off" /\ event[c] = NoEvent
    BY AddedIsOff
<1>2. /\ pc' = [pc EXCEPT ![c] = "wait"]
      /\ checker' = [checker EXCEPT ![c] = NewChecker(NewConfig(r).weight)]
      /\ UNCHANGED <<real, realConfig, stopping, event, pending, balancer>>
    BY DEF AddChecker, updaterVars
<1>3. /\ pc'[c] = "wait" /\ checker'[c] = NewChecker(NewConfig(r).weight)
      /\ \A d \in CheckerKeys : d # c => pc'[d] = pc[d] /\ checker'[d] = checker[d]
    BY <1>2, Constants DEF StructureInv, TypeOK
<1> QED
    BY <1>1, <1>2, <1>3 DEF Up, NewChecker, Own

(* A checker that is dropped was not up.                                    *)
LEMMA StoppedEffect ==
    ASSUME StructureInv, NEW r \in RealKeys, NEW c \in CheckerKeys, CheckerStopped(r, c)
    PROVE  /\ ~Up(c) /\ pc[c] = "off" /\ ~checker'[c].alive
           /\ \A d \in CheckerKeys : Up(d)' <=> Up(d)
           /\ \A d \in CheckerKeys : d # c =>
                 checker'[d] = checker[d] /\ stopping'[d] = stopping[d]
           /\ UNCHANGED <<real, realConfig, pc, event, pending, balancer>>
<1>1. /\ pc[c] = "off"
      /\ checker' = [checker EXCEPT ![c] = NewChecker(0)]
      /\ stopping' = [stopping EXCEPT ![c] = FALSE]
      /\ UNCHANGED <<real, realConfig, pc, event, pending, balancer>>
    BY DEF CheckerStopped, updaterVars
<1>2. /\ checker'[c] = NewChecker(0)
      /\ \A d \in CheckerKeys : d # c => checker'[d] = checker[d] /\ stopping'[d] = stopping[d]
    BY <1>1 DEF StructureInv, TypeOK
<1> QED
    BY <1>1, <1>2 DEF Up, NewChecker

(* A real that is created or waits has no checker that is up.               *)
LEMMA InactiveEffect ==
    ASSUME StructureInv, NEW r \in RealKeys, ReloadInactive(r)
    PROVE  /\ \A c \in Own(r) : ~Up(c) /\ pc[c] = "off"
           /\ \A c \in CheckerKeys : Up(c)' <=> Up(c)
           /\ UNCHANGED <<checker, stopping, pc, event, pending, balancer>>
           /\ \A q \in RealKeys : q # r => real'[q] = real[q] /\ realConfig'[q] = realConfig[q]
           /\ real'[r] = real[r] \/ real'[r] = NewReal
           /\ \E cfg \in Configs : realConfig'[r].inhibit = cfg.inhibit[r]
<1>1. /\ UNCHANGED <<checker, stopping, pc, event, pending, balancer>>
      /\ real' = real \/ real' = [real EXCEPT ![r] = NewReal]
      /\ realConfig' = [realConfig EXCEPT ![r] = RealConfigOf(target.config, r)]
    BY DEF ReloadInactive, checkerVars, updaterVars
<1>2. /\ \A q \in RealKeys : q # r => real'[q] = real[q] /\ realConfig'[q] = realConfig[q]
      /\ real'[r] = real[r] \/ real'[r] = NewReal
      /\ realConfig'[r] = RealConfigOf(target.config, r) /\ target.config \in Configs
    BY <1>1 DEF StructureInv, TypeOK
<1>3. realConfig'[r].inhibit = target.config.inhibit[r]
    BY <1>2, RealConfigOfType
<1>4. \A c \in Own(r) : pc[c] = "off"
    BY InactiveReal
<1> QED
    BY <1>1, <1>2, <1>3, <1>4 DEF Up

-----------------------------------------------------------------------------
(* A real lives by one of its checkers.                                     *)
LEMMA AliveStep ==
    ASSUME StructureInv, AliveInv, [Next]_vars
    PROVE  AliveInv'
<1>1. CASE Steady
    BY <1>1 DEF Steady, AliveInv, Own
<1>2. ASSUME NEW c \in CheckerKeys, HasResult(c)
      PROVE  AliveInv'
  <2> DEFINE r == RealOf[c]
  <2>1. /\ stopping' = stopping
        /\ pc' = [pc EXCEPT ![c] = pc'[c]] /\ pc[c] \in {"wait", "check"} /\ event[c] = NoEvent
        /\ \A d \in CheckerKeys : d # c => event'[d] = event[d] /\ checker'[d] = checker[d]
        /\ \A q \in RealKeys : q # r => real'[q] = real[q]
        /\ \/ Up(c)' /\ checker'[c].alive = checker[c].alive /\ real'[r] = real[r]
           \/ Up(c)' /\ checker'[c].alive /\ real'[r].alive
           \/ Up(c)' /\ ~checker'[c].alive /\ ~real'[r].alive
           \/ ~Up(c)' /\ stopping[c] /\ ~real'[r].alive
        /\ pc'[c] = "off" => stopping[c]
    BY <1>2, ResultEffect DEF StructureInv
  <2>2. \A d \in CheckerKeys : d # c => pc'[d] = pc[d]
    BY <2>1, Constants DEF StructureInv, TypeOK
  <2>3. Up(c) /\ \A d \in CheckerKeys : d # c => (Up(d)' <=> Up(d))
    BY <2>1, <2>2 DEF Up
  <2>4. c \in Own(r)
    BY DEF Own
  <2> HIDE DEF r
  <2>5. ASSUME NEW q \in RealKeys, real'[q].alive
        PROVE  \E d \in Own(q) : Up(d)' /\ checker'[d].alive
    <3>1. CASE q = r
      <4>1. CASE checker'[c].alive /\ Up(c)'
        BY <2>4, <3>1, <4>1
      <4>2. CASE ~(checker'[c].alive /\ Up(c)')
        <5>1. real'[r] = real[r] /\ checker'[c].alive = checker[c].alive /\ ~checker[c].alive
          BY <2>1, <2>5, <3>1, <4>2 DEF StructureInv, TypeOK
        <5>2. PICK d \in Own(r) : Up(d) /\ checker[d].alive
          BY <2>5, <3>1, <5>1 DEF AliveInv
        <5> QED
          BY <2>1, <2>3, <3>1, <5>1, <5>2 DEF Own
      <4> QED
        BY <4>1, <4>2
    <3>2. CASE q # r
      <4>1. PICK d \in Own(q) : Up(d) /\ checker[d].alive
        BY <2>1, <2>5, <3>2 DEF AliveInv
      <4> QED
        BY <2>1, <2>3, <3>2, <4>1 DEF Own, r
    <3> QED
      BY <3>1, <3>2
  <2>6. \A d \in CheckerKeys : pc'[d] = "off" /\ ~stopping'[d] => ~checker'[d].alive
    BY <2>1, <2>2 DEF AliveInv
  <2> QED
    BY <2>5, <2>6 DEF AliveInv
<1>3. ASSUME NEW r \in RealKeys, NEW c \in CheckerKeys, AddChecker(r, c)
      PROVE  AliveInv'
  <2>1. /\ ~Up(c) /\ ~checker'[c].alive
        /\ \A d \in CheckerKeys : d # c =>
              (Up(d)' <=> Up(d)) /\ checker'[d] = checker[d] /\ pc'[d] = pc[d]
        /\ UNCHANGED <<real, stopping>>
    BY <1>3, AddEffect
  <2> QED
    BY <2>1 DEF AliveInv, Own
<1>4. ASSUME NEW r \in RealKeys, NEW c \in CheckerKeys, CheckerStopped(r, c)
      PROVE  AliveInv'
  <2>1. /\ ~Up(c) /\ ~checker'[c].alive
        /\ \A d \in CheckerKeys : Up(d)' <=> Up(d)
        /\ \A d \in CheckerKeys : d # c =>
              checker'[d] = checker[d] /\ stopping'[d] = stopping[d]
        /\ UNCHANGED <<real, pc>>
    BY <1>4, StoppedEffect
  <2> QED
    BY <2>1 DEF AliveInv, Own
<1>5. ASSUME NEW r \in RealKeys, ReloadInactive(r)
      PROVE  AliveInv'
  <2>1. /\ \A c \in CheckerKeys : Up(c)' <=> Up(c)
        /\ UNCHANGED <<checker, stopping, pc>>
        /\ \A q \in RealKeys : q # r => real'[q] = real[q]
        /\ real'[r] = real[r] \/ real'[r] = NewReal
    BY <1>5, InactiveEffect
  <2> QED
    BY <2>1 DEF AliveInv, Own, NewReal
<1> QED
    BY <1>1, <1>2, <1>3, <1>4, <1>5, SteadyStep DEF Changes

(* The only checker of a real and the real agree.                           *)
LEMMA OnlyCheckerStep ==
    ASSUME OneChecker, StructureInv, OnlyCheckerInv, [Next]_vars
    PROVE  OnlyCheckerInv'
<1>1. CASE Steady
    BY <1>1, Constants DEF Steady, OnlyCheckerInv
<1>2. ASSUME NEW c \in CheckerKeys, HasResult(c)
      PROVE  OnlyCheckerInv'
  <2> DEFINE r == RealOf[c]
  <2>1. /\ pc' = [pc EXCEPT ![c] = pc'[c]] /\ pc[c] \in {"wait", "check"} /\ event[c] = NoEvent
        /\ \A d \in CheckerKeys : d # c => event'[d] = event[d] /\ checker'[d] = checker[d]
        /\ \A q \in RealKeys : q # r => real'[q] = real[q]
        /\ \/ Up(c)' /\ checker'[c].alive = checker[c].alive /\ real'[r] = real[r]
           \/ Up(c)' /\ checker'[c].alive /\ real'[r].alive
           \/ Up(c)' /\ ~checker'[c].alive /\ ~real'[r].alive
           \/ ~Up(c)' /\ stopping[c] /\ ~real'[r].alive
    BY <1>2, ResultEffect DEF StructureInv
  <2>2. \A d \in CheckerKeys : d # c => pc'[d] = pc[d] /\ RealOf[d] # r /\ RealOf[d] \in RealKeys
    BY <2>1, Constants DEF StructureInv, TypeOK, OneChecker
  <2>3. Up(c) /\ \A d \in CheckerKeys : d # c => (Up(d)' <=> Up(d))
    BY <2>1, <2>2 DEF Up
  <2>4. Up(c)' /\ checker'[c].alive => real'[r].alive
    BY <2>1, <2>3 DEF OnlyCheckerInv
  <2> QED
    BY <2>1, <2>2, <2>3, <2>4 DEF OnlyCheckerInv
<1>3. ASSUME NEW r \in RealKeys, NEW c \in CheckerKeys, AddChecker(r, c)
      PROVE  OnlyCheckerInv'
  <2>1. /\ ~checker'[c].alive
        /\ \A d \in CheckerKeys : d # c => (Up(d)' <=> Up(d)) /\ checker'[d] = checker[d]
        /\ real' = real
    BY <1>3, AddEffect
  <2> QED
    BY <2>1 DEF OnlyCheckerInv
<1>4. ASSUME NEW r \in RealKeys, NEW c \in CheckerKeys, CheckerStopped(r, c)
      PROVE  OnlyCheckerInv'
  <2>1. /\ ~checker'[c].alive
        /\ \A d \in CheckerKeys : Up(d)' <=> Up(d)
        /\ \A d \in CheckerKeys : d # c => checker'[d] = checker[d]
        /\ real' = real
    BY <1>4, StoppedEffect
  <2> QED
    BY <2>1 DEF OnlyCheckerInv
<1>5. ASSUME NEW r \in RealKeys, ReloadInactive(r)
      PROVE  OnlyCheckerInv'
  <2>1. /\ \A c \in Own(r) : ~Up(c)
        /\ \A c \in CheckerKeys : Up(c)' <=> Up(c)
        /\ checker' = checker
        /\ \A q \in RealKeys : q # r => real'[q] = real[q]
    BY <1>5, InactiveEffect
  <2> QED
    BY <2>1, Constants DEF OnlyCheckerInv, Own
<1> QED
    BY <1>1, <1>2, <1>3, <1>4, <1>5, SteadyStep DEF Changes

(* Who inhibits a real.                                                     *)
LEMMA InhibitStep ==
    ASSUME SteadyInhibit, StructureInv, InhibitInv, [Next]_vars
    PROVE  InhibitInv'
<1>0. ASSUME NEW r \in RealKeys,
             \/ realConfig'[r].inhibit = realConfig[r].inhibit
             \/ \E cfg \in Configs : realConfig'[r].inhibit = cfg.inhibit[r]
      PROVE  /\ \A cfg \in Configs : realConfig'[r].inhibit = cfg.inhibit[r]
             /\ realConfig'[r].inhibit = realConfig[r].inhibit
  <2>1. config \in Configs
    BY DEF StructureInv, TypeOK
  <2> QED
    BY <1>0, <2>1 DEF InhibitInv, SteadyInhibit
<1>1. CASE Steady
    BY <1>0, <1>1 DEF Steady, InhibitInv, Own
<1>2. ASSUME NEW c \in CheckerKeys, HasResult(c)
      PROVE  InhibitInv'
  <2> DEFINE r == RealOf[c]
  <2>1. /\ realConfig' = realConfig
        /\ pc' = [pc EXCEPT ![c] = pc'[c]] /\ pc[c] \in {"wait", "check"} /\ event[c] = NoEvent
        /\ \A d \in CheckerKeys : d # c => event'[d] = event[d]
        /\ \A q \in RealKeys : q # r => real'[q] = real[q]
        /\ real'[r].inhibited => realConfig[r].inhibit \/ real[r].inhibited
        /\ \/ Up(c)'
           \/ (real[r].inhibited => realConfig[r].inhibit) => ~real'[r].inhibited
    BY <1>2, ResultEffect DEF StructureInv
  <2>2. \A d \in CheckerKeys : d # c => pc'[d] = pc[d]
    BY <2>1, Constants DEF StructureInv, TypeOK
  <2>3. \A d \in CheckerKeys : d # c => (Up(d)' <=> Up(d))
    BY <2>1, <2>2 DEF Up
  <2>4. c \in Own(r) /\ r \in RealKeys
    BY Constants DEF Own
  <2>5. real'[r].inhibited => realConfig[r].inhibit /\ \E d \in Own(r) : Up(d)'
    BY <2>1, <2>4 DEF InhibitInv
  <2>6. ASSUME NEW q \in RealKeys, q # r, real'[q].inhibited
        PROVE  realConfig[q].inhibit /\ \E d \in Own(q) : Up(d)'
    <3>1. realConfig[q].inhibit /\ \E d \in Own(q) : Up(d)
      BY <2>1, <2>6 DEF InhibitInv
    <3>2. PICK d \in Own(q) : Up(d)
      BY <3>1
    <3> QED
      BY <2>3, <2>6, <3>1, <3>2 DEF Own
  <2> HIDE DEF r
  <2> QED
    BY <2>1, <2>5, <2>6 DEF InhibitInv
<1>3. ASSUME NEW r \in RealKeys, NEW c \in CheckerKeys, AddChecker(r, c)
      PROVE  InhibitInv'
  <2>1. /\ Up(c)' /\ UNCHANGED <<real, realConfig>>
        /\ \A d \in CheckerKeys : d # c => (Up(d)' <=> Up(d))
    BY <1>3, AddEffect
  <2> QED
    BY <2>1 DEF InhibitInv, Own
<1>4. ASSUME NEW r \in RealKeys, NEW c \in CheckerKeys, CheckerStopped(r, c)
      PROVE  InhibitInv'
  <2>1. UNCHANGED <<real, realConfig>> /\ \A d \in CheckerKeys : Up(d)' <=> Up(d)
    BY <1>4, StoppedEffect
  <2> QED
    BY <2>1 DEF InhibitInv, Own
<1>5. ASSUME NEW r \in RealKeys, ReloadInactive(r)
      PROVE  InhibitInv'
  <2>1. /\ \A c \in CheckerKeys : Up(c)' <=> Up(c)
        /\ \A q \in RealKeys : q # r => real'[q] = real[q] /\ realConfig'[q] = realConfig[q]
        /\ real'[r] = real[r] \/ real'[r] = NewReal
        /\ \E cfg \in Configs : realConfig'[r].inhibit = cfg.inhibit[r]
    BY <1>5, InactiveEffect
  <2>2. \A q \in RealKeys : /\ \A cfg \in Configs : realConfig'[q].inhibit = cfg.inhibit[q]
                            /\ realConfig'[q].inhibit = realConfig[q].inhibit
    BY <1>0, <2>1
  <2>3. ~NewReal.inhibited
    BY DEF NewReal
  <2> QED
    BY <2>1, <2>2, <2>3 DEF InhibitInv, Own
<1> QED
    BY <1>1, <1>2, <1>3, <1>4, <1>5, SteadyStep DEF Changes

-----------------------------------------------------------------------------
(* Agreement of statuses.                                                   *)
LEMMA AgreeFacts ==
    /\ \A a, b, c : Agree(a, b) /\ Agree(b, c) => Agree(a, c)
    /\ \A a : Agree(a, a)
BY DEF Agree

(* Steps that bring no event from a real to the load balancer.              *)
LEMMA SyncFrame ==
    ASSUME SyncInv, UNCHANGED <<pending, balancer>>,
           \A c \in CheckerKeys :
              /\ pc'[c] \in {"service", "balancer"} <=> pc[c] \in {"service", "balancer"}
              /\ pc[c] \in {"service", "balancer"} => event'[c] = event[c],
           \A r \in RealKeys : StatusOfReal(real'[r]) = StatusOfReal(real[r])
    PROVE  SyncInv'
<1>1. ASSUME NEW r
      PROVE  LastWord(r)' = LastWord(r)
    BY DEF LastWord
<1>2. ASSUME NEW r \in RealKeys
      PROVE  Delivered(r)' <=> Delivered(r)
    BY DEF Delivered
<1>3. BalancerInSync'
    BY <1>1, <1>2 DEF SyncInv, BalancerInSync
<1>4. ASSUME NEW c \in CheckerKeys, pc'[c] \in {"service", "balancer"}
      PROVE  /\ Agree(LastWord(RealOf[c])', event'[c].init)
             /\ Agree(event'[c].new, StatusOfReal(real'[RealOf[c]]))
    BY <1>1, <1>4, Constants DEF SyncInv
<1>5. \A r \in RealKeys : pending'[r] # NoEvent => Agree(balancer'[r], pending'[r].init)
    BY DEF SyncInv
<1> QED
    BY <1>3, <1>4, <1>5 DEF SyncInv

(* Balancer.HandleEvent: whatever Merge makes of the events.                *)
LEMMA SyncStore ==
    ASSUME OneChecker, StructureInv, SyncInv, NEW c \in CheckerKeys, StoreEvent(c)
    PROVE  SyncInv'
<1> DEFINE r == RealOf[c]
<1>0. r \in RealKeys /\ c \in Threads
    BY Constants
<1>1. /\ pending' = [pending EXCEPT
            ![r] = Stored(pending[r], event[c], XEventMerge(pending[r], event[c]))]
      /\ pc[c] = "balancer" /\ pc' = [pc EXCEPT ![c] = "announce"]
      /\ UNCHANGED <<event, real, balancer>>
    BY DEF StoreEvent, checkerVars, realVars, updaterVars
<1>2. /\ pending'[r] = Stored(pending[r], event[c], XEventMerge(pending[r], event[c]))
      /\ \A q \in RealKeys : q # r => pending'[q] = pending[q]
      /\ pc'[c] = "announce"
      /\ \A d \in CheckerKeys : d # c => pc'[d] = pc[d] /\ RealOf[d] # r /\ RealOf[d] \in RealKeys
      /\ pending[r] \in HandlerEvent \cup {NoEvent}
    BY <1>0, <1>1, Constants DEF StructureInv, TypeOK, OneChecker
<1>3. event[c] \in HandlerEvent /\ event[c] # NoEvent
    BY <1>1, CarriedEvent DEF StructureInv
<1>4. /\ Agree(LastWord(r), event[c].init) /\ Agree(event[c].new, StatusOfReal(real[r]))
    BY <1>1 DEF SyncInv
<1>5. /\ pending[r] = NoEvent => pending'[r] = event[c]
      /\ pending[r] # NoEvent /\ pending'[r] = NoEvent => event[c].new = pending[r].init
      /\ pending[r] # NoEvent /\ pending'[r] # NoEvent =>
            pending'[r].init = pending[r].init /\ pending'[r].new = event[c].new
    BY <1>2, <1>3, MergeType
<1>6. pending[r] # NoEvent => Agree(balancer[r], pending[r].init)
    BY <1>0 DEF SyncInv
<1> HIDE DEF r
<1>7. pending'[r] # NoEvent => Agree(balancer'[r], pending'[r].init)
    BY <1>1, <1>4, <1>5, <1>6 DEF LastWord
<1>8. Agree(LastWord(r)', StatusOfReal(real'[r]))
  <2>1. Agree(LastWord(r)', event[c].new)
    BY <1>1, <1>3, <1>5, <1>6, AgreeFacts DEF LastWord
  <2> QED
    BY <1>1, <1>4, <2>1, AgreeFacts
<1>9. \A q \in RealKeys : q # r => LastWord(q)' = LastWord(q)
    BY <1>1, <1>2 DEF LastWord
<1>10. \A q \in RealKeys : q # r => (Delivered(q)' <=> Delivered(q))
    BY <1>2 DEF Delivered, r
<1>11. BalancerInSync'
    BY <1>1, <1>8, <1>9, <1>10 DEF SyncInv, BalancerInSync
<1>12. ASSUME NEW d \in CheckerKeys, pc'[d] \in {"service", "balancer"}
       PROVE  /\ Agree(LastWord(RealOf[d])', event'[d].init)
              /\ Agree(event'[d].new, StatusOfReal(real'[RealOf[d]]))
    BY <1>1, <1>2, <1>9, <1>12 DEF SyncInv
<1>13. \A q \in RealKeys : pending'[q] # NoEvent => Agree(balancer'[q], pending'[q].init)
    BY <1>1, <1>2, <1>7 DEF SyncInv
<1> QED
    BY <1>11, <1>12, <1>13 DEF SyncInv

(* The updater: a failed request stays pending, the others are what the     *)
(* load balancer has now.                                                   *)
LEMMA SyncProcess ==
    ASSUME StructureInv, SyncInv, NEW failed \in SUBSET RealKeys, ProcessEvents(failed)
    PROVE  SyncInv'
<1> DEFINE done == Pending(pending) \ failed
<1>1. /\ balancer' = [r \in RealKeys |->
                      CASE r \notin done -> balancer[r]
                        [] r \in done /\ pending[r].new.enable ->
                               Status(TRUE, Uint32(pending[r].new.weight))
                        [] OTHER -> Status(FALSE, 0)]
      /\ pending' = Processed(pending, done)
      /\ UNCHANGED <<pc, event, real>>
    BY DEF ProcessEvents, checkerVars, realVars
<1>2. /\ DOMAIN pending = RealKeys
      /\ \A r \in RealKeys : pending[r] \in HandlerEvent \cup {NoEvent}
    BY DEF StructureInv, TypeOK
<1>3. \A r \in RealKeys : r \in done => pending[r] # NoEvent
    BY DEF Pending
<1> HIDE DEF done
<1>4. ASSUME NEW r \in RealKeys
      PROVE  /\ Agree(LastWord(r)', LastWord(r))
             /\ pending'[r] # NoEvent => pending'[r] = pending[r] /\ balancer'[r] = balancer[r]
  <2>1. CASE r \notin done
    BY <1>1, <1>2, <2>1, AgreeFacts DEF Processed, LastWord
  <2>2. CASE r \in done
    <3>1. pending'[r] = NoEvent /\ LastWord(r) = pending[r].new /\ LastWord(r)' = balancer'[r]
      BY <1>1, <1>2, <1>3, <2>2 DEF Processed, LastWord
    <3>2. pending[r].new \in Statuses
      BY <1>2, <1>3, <2>2 DEF HandlerEvent
    <3>3. CASE pending[r].new.enable
      <4>1. balancer'[r] = Status(TRUE, Uint32(pending[r].new.weight))
        BY <1>1, <2>2, <3>3
      <4>2. Uint32(Uint32(pending[r].new.weight)) = Uint32(pending[r].new.weight)
        BY <3>2 DEF Uint32, Statuses, Weights, Omitted
      <4>3. balancer'[r].enable = TRUE /\ balancer'[r].weight = Uint32(pending[r].new.weight)
        BY <4>1 DEF Status
      <4>4. pending[r].new.enable = TRUE
        BY <3>2, <3>3 DEF Statuses
      <4> QED
        BY <3>1, <4>2, <4>3, <4>4 DEF Agree
    <3>4. CASE ~pending[r].new.enable
      <4>1. balancer'[r] = Status(FALSE, 0)
        BY <1>1, <2>2, <3>4
      <4>2. balancer'[r].enable = FALSE /\ pending[r].new.enable = FALSE
        BY <3>2, <3>4, <4>1 DEF Status, Statuses
      <4> QED
        BY <3>1, <4>2 DEF Agree
    <3> QED
      BY <3>3, <3>4
  <2> QED
    BY <2>1, <2>2
<1>5. BalancerInSync'
    BY <1>1, <1>4, AgreeFacts DEF SyncInv, BalancerInSync, Delivered
<1>6. ASSUME NEW c \in CheckerKeys, pc'[c] \in {"service", "balancer"}
      PROVE  /\ Agree(LastWord(RealOf[c])', event'[c].init)
             /\ Agree(event'[c].new, StatusOfReal(real'[RealOf[c]]))
    BY <1>1, <1>4, <1>6, AgreeFacts, Constants DEF SyncInv
<1>7. \A r \in RealKeys : pending'[r] # NoEvent => Agree(balancer'[r], pending'[r].init)
    BY <1>4 DEF SyncInv
<1> QED
    BY <1>5, <1>6, <1>7 DEF SyncInv

(* A result: the event starts where the load balancer will be.              *)
LEMMA SyncResult ==
    ASSUME OneChecker, StructureInv, SyncInv, NEW c \in CheckerKeys, HasResult(c)
    PROVE  SyncInv'
<1> DEFINE r == RealOf[c]
<1>1. /\ pc' = [pc EXCEPT ![c] = pc'[c]] /\ pc[c] \in {"wait", "check"}
      /\ UNCHANGED <<pending, balancer>>
      /\ \A d \in CheckerKeys : d # c => event'[d] = event[d]
      /\ \A q \in RealKeys : q # r => real'[q] = real[q]
      /\ \/ pc'[c] \in {"wait", "off"} /\ real'[r] = real[r]
         \/ /\ pc'[c] = "service"
            /\ event'[c].init = StatusOfReal(real[r])
            /\ Agree(event'[c].new, StatusOfReal(real'[r]))
    BY ResultEffect DEF StructureInv, updaterVars
<1>2. /\ \A d \in CheckerKeys : d # c => pc'[d] = pc[d] /\ RealOf[d] # r /\ RealOf[d] \in RealKeys
      /\ r \in RealKeys
    BY <1>1, Constants DEF StructureInv, TypeOK, OneChecker
<1>3. \A q \in RealKeys : LastWord(q)' = LastWord(q)
    BY <1>1 DEF LastWord
<1>4. Delivered(r)
    BY <1>1, <1>2 DEF Delivered
<1>5. Agree(LastWord(r), StatusOfReal(real[r]))
    BY <1>2, <1>4 DEF SyncInv, BalancerInSync
<1>6. \A q \in RealKeys : q # r => (Delivered(q)' <=> Delivered(q))
    BY <1>2 DEF Delivered
<1>7. Delivered(r)' => pc'[c] # "service"
    BY DEF Delivered
<1> HIDE DEF r
<1>8. BalancerInSync'
    BY <1>1, <1>3, <1>5, <1>6, <1>7 DEF SyncInv, BalancerInSync
<1>9. ASSUME NEW d \in CheckerKeys, pc'[d] \in {"service", "balancer"}
      PROVE  /\ Agree(LastWord(RealOf[d])', event'[d].init)
             /\ Agree(event'[d].new, StatusOfReal(real'[RealOf[d]]))
  <2>1. CASE d = c
    BY <1>1, <1>2, <1>3, <1>5, <1>9, <2>1 DEF r
  <2>2. CASE d # c
    BY <1>1, <1>2, <1>3, <1>9, <2>2 DEF SyncInv
  <2> QED
    BY <2>1, <2>2
<1>10. \A q \in RealKeys : pending'[q] # NoEvent => Agree(balancer'[q], pending'[q].init)
    BY <1>1 DEF SyncInv
<1> QED
    BY <1>8, <1>9, <1>10 DEF SyncInv

(* Without a running checker a real is neither alive nor inhibited.         *)
LEMMA DownWithoutCheckers ==
    ASSUME StructureInv, AliveInv, InhibitInv, SyncInv, NEW r \in RealKeys,
           \A c \in Own(r) : pc[c] = "off"
    PROVE  /\ ~real[r].alive /\ ~real[r].inhibited
           /\ StatusOfReal(real[r]).enable = FALSE /\ LastWord(r).enable = FALSE
<1>1. \A c \in Own(r) : ~Up(c)
    BY DEF Up
<1>2. ~real[r].alive /\ ~real[r].inhibited
    BY <1>1 DEF AliveInv, InhibitInv
<1>3. StatusOfReal(real[r]).enable = FALSE
  <2>1. real[r].alive = FALSE
    BY <1>2 DEF StructureInv, TypeOK
  <2> QED
    BY <1>2, <2>1 DEF StatusOfReal, Status
<1>4. Delivered(r)
    BY DEF Delivered, Own
<1>5. Agree(LastWord(r), StatusOfReal(real[r]))
    BY <1>4 DEF SyncInv, BalancerInSync
<1> QED
    BY <1>2, <1>3, <1>5 DEF Agree

(* The load balancer follows every step.                                    *)
LEMMA SyncStep ==
    ASSUME OneChecker, SteadyInhibit, StructureInv, AliveInv, InhibitInv, SyncInv, [Next]_vars
    PROVE  SyncInv'
<1> USE Constants
<1>0. ASSUME UNCHANGED <<pending, balancer, event>>,
             \A c \in CheckerKeys : pc'[c] = pc[c],
             \A r \in RealKeys : StatusOfReal(real'[r]) = StatusOfReal(real[r])
      PROVE  SyncInv'
    BY <1>0, SyncFrame
<1>a. ASSUME NEW t \in Threads, NEW x, pc' = [pc EXCEPT ![t] = x],
             UNCHANGED <<pending, balancer, real>>,
             \A c \in CheckerKeys : c # t => event'[c] = event[c],
             \/ event' = event /\ pc[t] = "service" /\ x = "balancer"
             \/ pc[t] \notin {"service", "balancer"} /\ x \notin {"service", "balancer"}
      PROVE  SyncInv'
  <2>1. pc'[t] = x /\ \A u \in Threads : u # t => pc'[u] = pc[u]
    BY <1>a DEF StructureInv, TypeOK
  <2>2. \A c \in CheckerKeys :
           /\ pc'[c] \in {"service", "balancer"} <=> pc[c] \in {"service", "balancer"}
           /\ pc[c] \in {"service", "balancer"} => event'[c] = event[c]
    BY <1>a, <2>1
  <2> QED
    BY <1>a, <2>2, SyncFrame
<1>1. ASSUME NEW c \in CheckerKeys, StartCheck(c) \/ ProcessEvent(c)
      PROVE  SyncInv'
    BY <1>1, <1>a DEF StartCheck, ProcessEvent, checkerVars, realVars, updaterVars
<1>2. ASSUME NEW t \in Threads, AnnounceNext(t)
      PROVE  SyncInv'
  <2>1. ASSUME Return(t), pc[t] \in {"apply", "register"}, UNCHANGED <<pending, balancer, real>>
        PROVE  SyncInv'
    <3>1. /\ pc'[t] \in {"idle", "off", "wait"} /\ pc' = [pc EXCEPT ![t] = pc'[t]]
          /\ \A c \in CheckerKeys : c # t => event'[c] = event[c]
      BY <2>1, ReturnEffect DEF StructureInv
    <3>2. PICK x \in {"idle", "off", "wait"} : pc' = [pc EXCEPT ![t] = x]
      BY <3>1
    <3> QED
      BY <1>a, <2>1, <3>1, <3>2
  <2>2. CASE ReadQuorum(t)
    BY <1>a, <2>2 DEF ReadQuorum, checkerVars, realVars, updaterVars
  <2>3. CASE ApplyQuorum(t)
    BY <1>a, <2>1, <2>3 DEF ApplyQuorum, realVars, updaterVars
  <2>4. CASE Register(t)
    BY <2>1, <2>4 DEF Register, realVars, updaterVars
  <2> QED
    BY <1>2, <2>2, <2>3, <2>4 DEF AnnounceNext
<1>3. CASE UNCHANGED vars \/ FlushServiceEvents \/ UpdateAnnouncer
    BY <1>0, <1>3 DEF vars, FlushServiceEvents, UpdateAnnouncer, checkerVars, realVars
<1>4. ASSUME NEW r \in RealKeys,
             \/ Activate(r) \/ SaveConfig(r) \/ RealHalted(r) \/ ReloadActive(r) \/ HaltReal(r)
             \/ \E c \in CheckerKeys : KeepChecker(r, c) \/ StopChecker(r, c)
                                       \/ CheckerStopped(r, c)
      PROVE  SyncInv'
    BY <1>0, <1>4 DEF Activate, SaveConfig, RealHalted, ReloadActive, HaltReal, KeepChecker,
                      StopChecker, CheckerStopped, checkerVars, realVars, updaterVars
<1>5. ASSUME NEW r \in RealKeys, SetDynWeight(r)
      PROVE  SyncInv'
  <2>0. real \in [RealKeys -> RealState]
    BY DEF StructureInv, TypeOK, RealState
  <2>1. PICK dynamic : real' = [real EXCEPT ![r].dynWeight = dynamic]
    BY <1>5 DEF SetDynWeight
  <2>2. \A q \in RealKeys : /\ real'[q].alive = real[q].alive
                            /\ real'[q].inhibited = real[q].inhibited
                            /\ real'[q].weight = real[q].weight
    BY <2>0, <2>1 DEF RealState
  <2>3. \A q \in RealKeys : StatusOfReal(real'[q]) = StatusOfReal(real[q])
    BY <2>2 DEF StatusOfReal
  <2> QED
    BY <1>0, <1>5, <2>3 DEF SetDynWeight, checkerVars, updaterVars
<1>6. ASSUME NEW r \in RealKeys, NEW c \in CheckerKeys, AddChecker(r, c)
      PROVE  SyncInv'
  <2>1. /\ pc'[c] = "wait" /\ pc[c] = "off" /\ UNCHANGED <<real, event, pending, balancer>>
        /\ \A d \in CheckerKeys : d # c => pc'[d] = pc[d]
    BY <1>6, AddEffect
  <2> QED
    BY <2>1, SyncFrame
<1>7. ASSUME NEW r \in RealKeys, ReloadInactive(r)
      PROVE  SyncInv'
  <2>1. /\ \A c \in Own(r) : pc[c] = "off"
        /\ UNCHANGED <<pc, event, pending, balancer>>
        /\ \A q \in RealKeys : q # r => real'[q] = real[q]
        /\ real'[r] = real[r] \/ real'[r] = NewReal
    BY <1>7, InactiveEffect
  <2>2. LastWord(r).enable = FALSE /\ Agree(LastWord(r), StatusOfReal(real[r]))
    BY <2>1, DownWithoutCheckers DEF SyncInv, BalancerInSync, Delivered, Own
  <2>3. StatusOfReal(NewReal).enable = FALSE
    BY DEF StatusOfReal, NewReal, Status
  <2>4. \A q \in RealKeys : (LastWord(q)' = LastWord(q)) /\ (Delivered(q)' <=> Delivered(q))
    BY <2>1 DEF LastWord, Delivered
  <2>5. Agree(LastWord(r), StatusOfReal(real'[r]))
    BY <2>1, <2>2, <2>3 DEF Agree
  <2>6. BalancerInSync'
    BY <2>1, <2>4, <2>5 DEF SyncInv, BalancerInSync
  <2>7. ASSUME NEW c \in CheckerKeys, pc'[c] \in {"service", "balancer"}
        PROVE  /\ Agree(LastWord(RealOf[c])', event'[c].init)
               /\ Agree(event'[c].new, StatusOfReal(real'[RealOf[c]]))
    <3>1. RealOf[c] # r /\ RealOf[c] \in RealKeys
      BY <2>1, <2>7 DEF Own
    <3> QED
      BY <2>1, <2>4, <2>7, <3>1 DEF SyncInv
  <2> QED
    BY <2>1, <2>6, <2>7 DEF SyncInv
<1>8. CASE \/ \E cfg \in Configs : ServiceReload(cfg)
           \/ ServiceStop \/ ReloadDone \/ StopDone
           \/ \E r \in RealKeys : HaltHangs(r)
  <2>1. /\ UNCHANGED <<event, real, pending, balancer>>
        /\ pc' = [pc EXCEPT ![Reloader] = pc'[Reloader]]
    BY <1>8, ReloaderMoves DEF StructureInv, ReloaderAlone
  <2>2. \A c \in CheckerKeys : pc'[c] = pc[c]
    BY <2>1 DEF StructureInv, TypeOK
  <2> QED
    BY <1>0, <2>1, <2>2
<1> QED
    BY <1>1, <1>2, <1>3, <1>4, <1>5, <1>6, <1>7, <1>8, SyncStore, SyncProcess, SyncResult
    DEF Next, CheckerNext, HasResult, RealNext, ReloadNext, UpdaterNext

(* At the start nothing runs, and nothing is enabled.                       *)
LEMMA HealthInit ==
    ASSUME Init
    PROVE  /\ StructureInv /\ AliveInv /\ OnlyCheckerInv
           /\ SteadyInhibit => InhibitInv
           /\ SyncInv
<1>1. StructureInv
    BY StructureInit
<1>2. /\ \A c \in CheckerKeys : pc[c] = "off" /\ checker[c] = NewChecker(0) /\ event[c] = NoEvent
      /\ \A r \in RealKeys : /\ real[r] = NewReal /\ pending[r] = NoEvent
                             /\ balancer[r] = Status(FALSE, 0)
                             /\ realConfig[r] = RealConfigOf(config, r)
      /\ config \in Configs
    BY Constants DEF Init, EmptyRegistry
<1>3. ~NewReal.alive /\ ~NewReal.inhibited /\ ~NewChecker(0).alive
    BY DEF NewReal, NewChecker
<1>4. AliveInv
    BY <1>2, <1>3 DEF AliveInv
<1>5. OnlyCheckerInv
    BY <1>2 DEF OnlyCheckerInv, Up
<1>6. SteadyInhibit => InhibitInv
    BY <1>2, <1>3, RealConfigOfType, ZenonT(30) DEF InhibitInv, SteadyInhibit
<1>7. \A r \in RealKeys : LastWord(r) = StatusOfReal(real[r])
  <2>1. StatusOfReal(NewReal) = Status(FALSE, 0)
    BY DEF StatusOfReal, NewReal
  <2> QED
    BY <1>2, <2>1 DEF LastWord
<1>8. SyncInv
  <2>1. \A r \in RealKeys : Agree(LastWord(r), StatusOfReal(real[r]))
    BY <1>7, AgreeFacts
  <2> QED
    BY <1>2, <2>1 DEF SyncInv, BalancerInSync
<1> QED
    BY <1>1, <1>4, <1>5, <1>6, <1>8

-----------------------------------------------------------------------------
(* The types, and how goroutines, reals and reloads fit together, hold in   *)
(* every state of a service, whatever its configurations.                   *)
THEOREM StructureTheorem == Spec => [](StructureInv /\ AliveInv)
<1>1. Init => StructureInv /\ AliveInv
    BY HealthInit
<1>2. StructureInv /\ AliveInv /\ [Next]_vars => (StructureInv /\ AliveInv)'
    BY StructureStep, AliveStep
<1> QED
    BY <1>1, <1>2, PTL DEF Spec

(* When everything is quiet, a real none of whose checkers is alive is not  *)
(* alive (real/handler.go): for any number of checkers of a real, and       *)
(* through any reloads.                                                     *)
THEOREM RealDiesWithCheckersTheorem == Spec => []RealDiesWithCheckers
<1>1. StructureInv /\ AliveInv => RealDiesWithCheckers
  <2> SUFFICES ASSUME StructureInv, AliveInv, Quiet, NEW r \in RealKeys,
                      \A c \in checkers[r] : ~checker[c].alive, real[r].alive
               PROVE  FALSE
    BY DEF RealDiesWithCheckers
  <2>1. reload[r].pc = "idle"
    BY DEF Quiet, IdleReload
  <2>2. PICK c \in Own(r) : Up(c) /\ checker[c].alive
    BY DEF AliveInv
  <2>3. c \in checkers[r]
    BY <2>1, <2>2, IdleReal DEF Up
  <2> QED
    BY <2>2, <2>3
<1> QED
    BY <1>1, StructureTheorem, PTL

(* A real with one checker is alive when this checker is, once everything   *)
(* is quiet (real/handler.go).  With more of them the shutdown of one takes *)
(* a real down whose other checkers are alive.                              *)
THEOREM RealFollowsCheckersTheorem == OneChecker => (Spec => []RealFollowsCheckers)
<1> SUFFICES ASSUME OneChecker PROVE Spec => []RealFollowsCheckers
    OBVIOUS
<1> DEFINE Inv == StructureInv /\ AliveInv /\ OnlyCheckerInv
<1>1. Init => Inv
    BY HealthInit
<1>2. Inv /\ [Next]_vars => Inv'
    BY StructureStep, AliveStep, OnlyCheckerStep
<1>3. Inv => RealFollowsCheckers
  <2> SUFFICES ASSUME Inv, Quiet, NEW r \in RealKeys, checkers[r] # {},
                      \A c \in checkers[r] : checker[c].alive
               PROVE  real[r].alive
    BY DEF RealFollowsCheckers
  <2>1. reload[r].pc = "idle"
    BY DEF Quiet, IdleReload
  <2>2. PICK c \in checkers[r] : TRUE
    OBVIOUS
  <2>3. c \in Own(r) /\ c \in CheckerKeys /\ RealOf[c] = r
    BY <2>2, RealFacts DEF RealFits
  <2>4. ~stopping[c]
    BY <2>1, <2>3, IdleReal
  <2>5. pc[c] # "off"
    BY <2>2, <2>3, <2>4 DEF AliveInv
  <2>6. event[c] = NoEvent
    BY <2>3 DEF Quiet, StructureInv, ThreadInv
  <2> QED
    BY <2>2, <2>3, <2>5, <2>6 DEF OnlyCheckerInv, Up
<1> QED
    BY <1>1, <1>2, <1>3, PTL DEF Spec

(* The invariant of the load balancer.                                      *)
LEMMA SyncTheorem ==
    ASSUME OneChecker, SteadyInhibit
    PROVE  Spec => [](StructureInv /\ AliveInv /\ InhibitInv /\ SyncInv)
<1> DEFINE Inv == StructureInv /\ AliveInv /\ InhibitInv /\ SyncInv
<1>1. Init => Inv
    BY HealthInit
<1>2. Inv /\ [Next]_vars => Inv'
    BY StructureStep, AliveStep, InhibitStep, SyncStep
<1> QED
    BY <1>1, <1>2, PTL DEF Spec

(* The load balancer has, or has pending, the status of every real whose    *)
(* events have been delivered: whatever Merge drops, whichever requests     *)
(* fail, through reloads and stops (balancer.HandleEvent, updateBalancer).  *)
THEOREM BalancerInSyncTheorem == OneChecker /\ SteadyInhibit => (Spec => []BalancerInSync)
<1> SUFFICES ASSUME OneChecker, SteadyInhibit PROVE Spec => []BalancerInSync
    OBVIOUS
<1>1. SyncInv => BalancerInSync
    BY DEF SyncInv
<1> QED
    BY <1>1, SyncTheorem, PTL

(* A stopped service leaves none of its reals enabled in the load balancer  *)
(* (Service.Stop, app/monalive.go).                                         *)
THEOREM StopDisablesRealsTheorem ==
    OneChecker /\ SteadyInhibit => (Spec => []StopDisablesReals)
<1> SUFFICES ASSUME OneChecker, SteadyInhibit PROVE Spec => []StopDisablesReals
    OBVIOUS
<1>1. StructureInv /\ AliveInv /\ InhibitInv /\ SyncInv => StopDisablesReals
  <2> SUFFICES ASSUME StructureInv, AliveInv, InhibitInv, SyncInv, pc[Reloader] = "stopped",
                      NEW r \in RealKeys
               PROVE  ~LastWord(r).enable
    BY DEF StopDisablesReals
  <2>1. life[r] = "absent"
    BY DEF StructureInv, TargetInv, Present
  <2>2. reload[r].pc = "idle" /\ checkers[r] = {}
    BY <2>1, RealFacts DEF RealFits, ReloadType
  <2>3. \A c \in Own(r) : pc[c] = "off"
    BY <2>2, IdleReal
  <2> QED
    BY <2>3, DownWithoutCheckers
<1> QED
    BY <1>1, SyncTheorem, PTL

-----------------------------------------------------------------------------
(* The weight of the service.                                               *)

RealsCoherent == \A r \in RealKeys : Coherent(real[r])

(* What a service keeps, and what is on its way, are integers.              *)
LEMMA WeightTypes ==
    ASSUME TypeOK, ThreadInv
    PROVE  /\ WeightOnItsWay \in [CheckerKeys -> Int] /\ CountOnItsWay \in [CheckerKeys -> Int]
           /\ RealWeights \in [RealKeys -> Int] /\ RealsCounted \in [RealKeys -> Int]
           /\ service.weight \in Int /\ service.realsAlive \in Int
<1>1. ASSUME NEW c \in CheckerKeys, pc[c] = "service"
      PROVE  WeightDelta(event[c]) \in Int /\ AliveDelta(event[c]) \in Int
  <2>1. event[c] \in HandlerEvent
    BY <1>1, CarriedEvent
  <2> QED
    BY <2>1 DEF WeightDelta, AliveDelta, HandlerEvent, Statuses, Weights, Omitted
<1>2. ASSUME NEW r \in RealKeys
      PROVE  Contribution(real[r]) \in Int /\ Counted(real[r]) \in Int
    BY DEF TypeOK, Contribution, Counted, StatusOfReal, Status, Weights, Omitted
<1> QED
    BY <1>1, <1>2 DEF TypeOK, WeightOnItsWay, CountOnItsWay, RealWeights, RealsCounted

(* A step after which the service, the reals and the events between them    *)
(* are the same.                                                            *)
LEMMA WeightFrame ==
    ASSUME TypeOK, WeightConserved, service'.weight = service.weight,
           service'.realsAlive = service.realsAlive,
           \A c \in CheckerKeys : /\ pc'[c] = "service" <=> pc[c] = "service"
                                  /\ pc[c] = "service" => event'[c] = event[c],
           \A r \in RealKeys : /\ Contribution(real'[r]) = Contribution(real[r])
                               /\ Counted(real'[r]) = Counted(real[r])
    PROVE  WeightConserved'
<1>1. RealWeights' = RealWeights /\ RealsCounted' = RealsCounted
    BY DEF RealWeights, RealsCounted
<1>2. WeightOnItsWay' = WeightOnItsWay /\ CountOnItsWay' = CountOnItsWay
  <2>1. \A c \in CheckerKeys :
           /\ (IF pc'[c] = "service" THEN WeightDelta(event'[c]) ELSE 0)
                = IF pc[c] = "service" THEN WeightDelta(event[c]) ELSE 0
           /\ (IF pc'[c] = "service" THEN AliveDelta(event'[c]) ELSE 0)
                = IF pc[c] = "service" THEN AliveDelta(event[c]) ELSE 0
    OBVIOUS
  <2> QED
    BY <2>1 DEF WeightOnItsWay, CountOnItsWay
<1> QED
    BY <1>1, <1>2 DEF WeightConserved

(* Service.processEvent takes over what one event brings.                   *)
LEMMA WeightProcess ==
    ASSUME StructureInv, WeightConserved, NEW c \in CheckerKeys, ProcessEvent(c)
    PROVE  WeightConserved'
<1>0. TypeOK /\ ThreadInv
    BY DEF StructureInv
<1>1. /\ pc[c] = "service" /\ pc'[c] = "balancer" /\ UNCHANGED <<event, real>>
      /\ \A d \in CheckerKeys : d # c => pc'[d] = pc[d]
      /\ service'.weight = service.weight + WeightDelta(event[c])
      /\ service'.realsAlive = service.realsAlive + AliveDelta(event[c])
    BY <1>0, Constants DEF ProcessEvent, TypeOK, checkerVars, realVars
<1>2. RealWeights' = RealWeights /\ RealsCounted' = RealsCounted
    BY <1>1 DEF RealWeights, RealsCounted
<1>3. /\ WeightOnItsWay[c] = WeightDelta(event[c]) /\ CountOnItsWay[c] = AliveDelta(event[c])
      /\ WeightOnItsWay'[c] = 0 /\ CountOnItsWay'[c] = 0
      /\ \A d \in CheckerKeys : d # c => /\ WeightOnItsWay'[d] = WeightOnItsWay[d]
                                         /\ CountOnItsWay'[d] = CountOnItsWay[d]
    BY <1>1 DEF WeightOnItsWay, CountOnItsWay
<1>4. /\ WeightOnItsWay \in [CheckerKeys -> Int] /\ CountOnItsWay \in [CheckerKeys -> Int]
      /\ RealWeights \in [RealKeys -> Int] /\ RealsCounted \in [RealKeys -> Int]
      /\ service.weight \in Int /\ service.realsAlive \in Int
    BY <1>0, WeightTypes
<1>5. WeightOnItsWay' \in [CheckerKeys -> Int] /\ CountOnItsWay' \in [CheckerKeys -> Int]
  <2>1. \A d \in CheckerKeys : WeightOnItsWay'[d] \in Int /\ CountOnItsWay'[d] \in Int
    BY <1>3, <1>4
  <2> QED
    BY <2>1 DEF WeightOnItsWay, CountOnItsWay
<1> DEFINE way == WeightOnItsWay
           way2 == WeightOnItsWay'
           count == CountOnItsWay
           count2 == CountOnItsWay'
<1>a. /\ way \in [CheckerKeys -> Int] /\ way2 \in [CheckerKeys -> Int]
      /\ count \in [CheckerKeys -> Int] /\ count2 \in [CheckerKeys -> Int]
      /\ \A d \in CheckerKeys : d # c => way2[d] = way[d] /\ count2[d] = count[d]
    BY <1>3, <1>4, <1>5
<1>b. way2[c] = 0 /\ count2[c] = 0 /\ way[c] = WeightDelta(event[c])
      /\ count[c] = AliveDelta(event[c])
    BY <1>3
<1>c. /\ service.weight + SumFunction(way) = SumFunction(RealWeights)
      /\ service.realsAlive + SumFunction(count) = SumFunction(RealsCounted)
    BY DEF WeightConserved
<1> HIDE DEF way, way2, count, count2
<1>6. SumFunction(way2) - SumFunction(way) = way2[c] - way[c]
    BY <1>a, FiniteKeys, SumFunctionUpdate
<1>7. SumFunction(count2) - SumFunction(count) = count2[c] - count[c]
    BY <1>a, FiniteKeys, SumFunctionUpdate
<1>8. /\ SumFunction(way) \in Int /\ SumFunction(way2) \in Int
      /\ SumFunction(count) \in Int /\ SumFunction(count2) \in Int
    BY <1>a, FiniteKeys, SumFunctionType
<1>9. way[c] \in Int /\ count[c] \in Int
    BY <1>a
<1>10. /\ service'.weight + SumFunction(way2) = SumFunction(RealWeights)
       /\ service'.realsAlive + SumFunction(count2) = SumFunction(RealsCounted)
    BY <1>1, <1>4, <1>b, <1>c, <1>6, <1>7, <1>8, <1>9
<1> QED
    BY <1>2, <1>10 DEF WeightConserved, way2, count2

(* The shutdown of a real that is not enabled, under inhibit_on_failure:    *)
(* the one result whose event says more than has changed.                   *)
Spurious(c) ==
    Shutdown(c) /\ realConfig[RealOf[c]].inhibit /\ ~StatusOfReal(real[RealOf[c]]).enable

(* The event that Real.HandleEvent hands on tells the service exactly what  *)
(* the real has changed.                                                    *)
LEMMA DeliverDelta ==
    ASSUME TypeOK, NEW c \in CheckerKeys, NEW result, NEW idle \in {"wait", "off"},
           ResultFits(result), Deliver(c, result, idle), Coherent(real[RealOf[c]]),
           result.event # NoEvent /\ result.event.type = "Shutdown" =>
              ~realConfig[RealOf[c]].inhibit \/ StatusOfReal(real[RealOf[c]]).enable
    PROVE  /\ Coherent(real'[RealOf[c]])
           /\ Contribution(real'[RealOf[c]]) = Contribution(real[RealOf[c]])
                 + IF pc'[c] = "service" THEN WeightDelta(event'[c]) ELSE 0
           /\ Counted(real'[RealOf[c]]) = Counted(real[RealOf[c]])
                 + IF pc'[c] = "service" THEN AliveDelta(event'[c]) ELSE 0
<1> DEFINE r == RealOf[c]
           after == HandleEvent(real[r], realConfig[r], result.event)
<1>1. r \in RealKeys /\ c \in Threads /\ NoEvent \notin HandlerEvent
    BY Constants
<1>2. real[r] \in RealState /\ HandlerConfig(realConfig[r])
    BY <1>1 DEF TypeOK, RealState, HandlerConfig
<1>3. Contribution(real[r]) \in Int /\ Counted(real[r]) \in Int
    BY <1>2 DEF RealState, Contribution, Counted, StatusOfReal, Status, Weights, Omitted
<1>4. CASE result.event = NoEvent
  <2>1. pc' = [pc EXCEPT ![c] = idle] /\ real' = real
    BY <1>4 DEF Deliver
  <2>2. pc'[c] # "service"
    BY <1>1, <2>1 DEF TypeOK
  <2> QED
    BY <1>3, <2>1, <2>2
<1>5. CASE result.event # NoEvent
  <2>1. /\ real' = [real EXCEPT ![r] = after.real]
        /\ event' = [event EXCEPT ![c] = after.event]
        /\ pc' = [pc EXCEPT ![c] = IF after.event = NoEvent THEN idle ELSE "service"]
    BY <1>5 DEF Deliver
  <2>2. result.event \in HandlerEvent /\ ~SpuriousShutdown(real[r], realConfig[r], result.event)
    BY <1>5 DEF ResultFits, SpuriousShutdown
  <2>3. Coherent(after.real)
    BY <1>2, <2>2, HandleEventCoherent
  <2>4. /\ after.event = NoEvent =>
              /\ Contribution(after.real) = Contribution(real[r])
              /\ Counted(after.real) = Counted(real[r])
        /\ after.event # NoEvent =>
              /\ Contribution(after.real) = Contribution(real[r]) + WeightDelta(after.event)
              /\ Counted(after.real) = Counted(real[r]) + AliveDelta(after.event)
    BY <1>1, <1>2, <2>2, DeltaIsTheChange
  <2> HIDE DEF after
  <2>5. /\ real'[r] = after.real /\ event'[c] = after.event
        /\ pc'[c] = IF after.event = NoEvent THEN idle ELSE "service"
    BY <1>1, <2>1 DEF TypeOK
  <2> QED
    BY <1>3, <2>3, <2>4, <2>5
<1> QED
    BY <1>4, <1>5

(* So does every result that is not spurious.                               *)
LEMMA ResultDelta ==
    ASSUME TypeOK, ThreadInv, NEW c \in CheckerKeys, HasResult(c), ~Spurious(c),
           Coherent(real[RealOf[c]])
    PROVE  /\ Coherent(real'[RealOf[c]])
           /\ Contribution(real'[RealOf[c]]) = Contribution(real[RealOf[c]])
                 + IF pc'[c] = "service" THEN WeightDelta(event'[c]) ELSE 0
           /\ Counted(real'[RealOf[c]]) = Counted(real[RealOf[c]])
                 + IF pc'[c] = "service" THEN AliveDelta(event'[c]) ELSE 0
<1>1. ASSUME NEW w \in Reported \cup {snapshot[c].weight}, CheckSucceeds(c, w)
      PROVE  \E result : /\ ResultFits(result) /\ Deliver(c, result, "wait")
                         /\ result.event # NoEvent => result.event.type # "Shutdown"
  <2> DEFINE result == ProcessSucceed(checker[c], CheckerConfig[c], w, snapshot[c].force)
  <2>1. w \in Weights
    BY HealthAssumption DEF TypeOK
  <2>2. ResultFits(result) /\ (result.event # NoEvent => result.event.type = "Enable")
    BY <2>1, SucceedFits
  <2>3. Deliver(c, result, "wait")
    BY <1>1 DEF CheckSucceeds
  <2> HIDE DEF result
  <2> QED
    BY <2>2, <2>3
<1>2. ASSUME CheckFails(c)
      PROVE  \E result : /\ ResultFits(result) /\ Deliver(c, result, "wait")
                         /\ result.event # NoEvent => result.event.type # "Shutdown"
  <2> DEFINE result == ProcessFail(checker[c], CheckerConfig[c])
  <2>1. ResultFits(result) /\ (result.event # NoEvent => result.event.type = "Disable")
    BY FailFits
  <2>2. Deliver(c, result, "wait")
    BY <1>2 DEF CheckFails
  <2> HIDE DEF result
  <2> QED
    BY <2>1, <2>2
<1>3. ASSUME Shutdown(c)
      PROVE  \E result : ResultFits(result) /\ Deliver(c, result, "off")
  <2> DEFINE result == ProcessShutdown(checker[c])
  <2>1. ResultFits(result)
    BY ShutdownFits
  <2>2. Deliver(c, result, "off")
    BY <1>3 DEF Shutdown
  <2> HIDE DEF result
  <2> QED
    BY <2>1, <2>2
<1>4. CASE ~Shutdown(c)
  <2>1. PICK result : /\ ResultFits(result) /\ Deliver(c, result, "wait")
                      /\ result.event # NoEvent => result.event.type # "Shutdown"
    BY <1>1, <1>2, <1>4 DEF HasResult
  <2> QED
    BY <2>1, DeliverDelta
<1>5. CASE Shutdown(c)
  <2>1. PICK result : ResultFits(result) /\ Deliver(c, result, "off")
    BY <1>3, <1>5
  <2>2. ~realConfig[RealOf[c]].inhibit \/ StatusOfReal(real[RealOf[c]]).enable
    BY <1>5 DEF Spurious
  <2> QED
    BY <2>1, <2>2, DeliverDelta
<1> QED
    BY <1>4, <1>5

(* A result: what it changes is on its way.                                 *)
LEMMA WeightResult ==
    ASSUME StructureInv, WeightConserved, NEW c \in CheckerKeys, HasResult(c), ~Spurious(c),
           Coherent(real[RealOf[c]])
    PROVE  WeightConserved' /\ Coherent(real'[RealOf[c]])
<1> DEFINE r == RealOf[c]
           way == WeightOnItsWay
           way2 == WeightOnItsWay'
           count == CountOnItsWay
           count2 == CountOnItsWay'
           weights == RealWeights
           weights2 == RealWeights'
           counted == RealsCounted
           counted2 == RealsCounted'
<1>0. TypeOK /\ ThreadInv /\ r \in RealKeys
    BY Constants DEF StructureInv
<1>1. /\ UNCHANGED service /\ pc[c] # "service"
      /\ event' \in [CheckerKeys -> HandlerEvent \cup {NoEvent}]
      /\ pc' = [pc EXCEPT ![c] = pc'[c]]
      /\ \A d \in CheckerKeys : d # c => event'[d] = event[d]
      /\ \A q \in RealKeys : q # r => real'[q] = real[q]
      /\ pc'[c] = "service" => event'[c] # NoEvent
    BY <1>0, ResultEffect DEF serviceVars
<1>2. \A d \in CheckerKeys : d # c => pc'[d] = pc[d]
    BY <1>0, <1>1, Constants DEF TypeOK
<1>3. /\ Coherent(real'[r])
      /\ Contribution(real'[r]) = Contribution(real[r])
            + IF pc'[c] = "service" THEN WeightDelta(event'[c]) ELSE 0
      /\ Counted(real'[r]) = Counted(real[r])
            + IF pc'[c] = "service" THEN AliveDelta(event'[c]) ELSE 0
    BY <1>0, ResultDelta
<1>4. /\ way \in [CheckerKeys -> Int] /\ count \in [CheckerKeys -> Int]
      /\ weights \in [RealKeys -> Int] /\ counted \in [RealKeys -> Int]
      /\ service.weight \in Int /\ service.realsAlive \in Int
    BY <1>0, WeightTypes
<1>5. /\ way[c] = 0 /\ way2[c] = IF pc'[c] = "service" THEN WeightDelta(event'[c]) ELSE 0
      /\ count[c] = 0 /\ count2[c] = IF pc'[c] = "service" THEN AliveDelta(event'[c]) ELSE 0
      /\ \A d \in CheckerKeys : d # c => way2[d] = way[d] /\ count2[d] = count[d]
      /\ way2 = [d \in CheckerKeys |-> way2[d]] /\ count2 = [d \in CheckerKeys |-> count2[d]]
    BY <1>1, <1>2 DEF WeightOnItsWay, CountOnItsWay
<1>6. way2[c] \in Int /\ count2[c] \in Int
  <2>1. pc'[c] = "service" => event'[c] \in HandlerEvent
    BY <1>1
  <2> QED
    BY <1>5, <2>1 DEF WeightDelta, AliveDelta, HandlerEvent, Statuses, Weights, Omitted
<1>7. /\ weights2[r] = weights[r] + way2[c] /\ counted2[r] = counted[r] + count2[c]
      /\ \A q \in RealKeys : q # r => weights2[q] = weights[q] /\ counted2[q] = counted[q]
      /\ weights2 = [q \in RealKeys |-> weights2[q]]
      /\ counted2 = [q \in RealKeys |-> counted2[q]]
    BY <1>0, <1>1, <1>3, <1>5 DEF RealWeights, RealsCounted
<1>8. /\ service.weight + SumFunction(way) = SumFunction(weights)
      /\ service.realsAlive + SumFunction(count) = SumFunction(counted)
    BY DEF WeightConserved
<1> HIDE DEF r, way, way2, count, count2, weights, weights2, counted, counted2
<1>9. /\ way2 \in [CheckerKeys -> Int] /\ count2 \in [CheckerKeys -> Int]
      /\ weights2 \in [RealKeys -> Int] /\ counted2 \in [RealKeys -> Int]
  <2>1. \A d \in CheckerKeys : way2[d] \in Int /\ count2[d] \in Int
    BY <1>4, <1>5, <1>6
  <2>2. \A q \in RealKeys : weights2[q] \in Int /\ counted2[q] \in Int
    BY <1>0, <1>4, <1>6, <1>7
  <2> QED
    BY <1>5, <1>7, <2>1, <2>2
<1>10. /\ SumFunction(way2) - SumFunction(way) = way2[c] - way[c]
       /\ SumFunction(count2) - SumFunction(count) = count2[c] - count[c]
    BY <1>4, <1>5, <1>9, FiniteKeys, SumFunctionUpdate
<1>11. /\ SumFunction(weights2) - SumFunction(weights) = weights2[r] - weights[r]
       /\ SumFunction(counted2) - SumFunction(counted) = counted2[r] - counted[r]
  <2>1. SumFunction(weights2) - SumFunction(weights) = weights2[r] - weights[r]
    BY <1>0, <1>4, <1>7, <1>9, FiniteKeys, SumFunctionUpdate
  <2>2. SumFunction(counted2) - SumFunction(counted) = counted2[r] - counted[r]
    BY <1>0, <1>4, <1>7, <1>9, FiniteKeys, SumFunctionUpdate
  <2> QED
    BY <2>1, <2>2
<1>12. /\ SumFunction(way) \in Int /\ SumFunction(way2) \in Int
       /\ SumFunction(count) \in Int /\ SumFunction(count2) \in Int
       /\ SumFunction(weights) \in Int /\ SumFunction(weights2) \in Int
       /\ SumFunction(counted) \in Int /\ SumFunction(counted2) \in Int
    BY <1>4, <1>9, FiniteKeys, SumFunctionType
<1>13. /\ weights[r] \in Int /\ counted[r] \in Int /\ way[c] = 0 /\ count[c] = 0
       /\ weights2[r] = weights[r] + way2[c] /\ counted2[r] = counted[r] + count2[c]
    BY <1>0, <1>4, <1>5, <1>7
<1>14. /\ service.weight + SumFunction(way2) = SumFunction(weights2)
       /\ service.realsAlive + SumFunction(count2) = SumFunction(counted2)
    BY <1>4, <1>6, <1>8, <1>10, <1>11, <1>12, <1>13
<1> QED
    BY <1>1, <1>3, <1>14 DEF WeightConserved, way2, count2, weights2, counted2, r

(* The weight of the service follows every step, unless a spurious shutdown *)
(* is sent or a real is created anew that was not down.                     *)
LEMMA WeightStep ==
    ASSUME StructureInv, WeightConserved, RealsCoherent, [Next]_vars,
           \A c \in CheckerKeys : ~Spurious(c),
           \A r \in RealKeys : ReloadInactive(r) => ~StatusOfReal(real[r]).enable
    PROVE  WeightConserved' /\ RealsCoherent'
<1> USE Constants
<1> DEFINE Goal == WeightConserved' /\ RealsCoherent'
<1>t. TypeOK /\ ThreadInv /\ real \in [RealKeys -> RealState]
    BY DEF StructureInv, TypeOK, RealState
<1>0. ASSUME UNCHANGED <<service, event, real>>, \A c \in CheckerKeys : pc'[c] = pc[c]
      PROVE  Goal
    BY <1>0, <1>t, WeightFrame DEF RealsCoherent
<1>a. ASSUME NEW t \in Threads, NEW x, pc' = [pc EXCEPT ![t] = x], UNCHANGED real,
             service'.weight = service.weight, service'.realsAlive = service.realsAlive,
             \A c \in CheckerKeys : c # t => event'[c] = event[c],
             pc[t] # "service" /\ x # "service"
      PROVE  Goal
  <2>1. pc'[t] = x /\ \A u \in Threads : u # t => pc'[u] = pc[u]
    BY <1>a, <1>t DEF TypeOK
  <2>2. \A c \in CheckerKeys : /\ pc'[c] = "service" <=> pc[c] = "service"
                               /\ pc[c] = "service" => event'[c] = event[c]
    BY <1>a, <2>1
  <2> QED
    BY <1>a, <1>t, <2>2, WeightFrame DEF RealsCoherent
<1>1. ASSUME NEW c \in CheckerKeys, StartCheck(c) \/ StoreEvent(c)
      PROVE  Goal
    BY <1>1, <1>a DEF StartCheck, StoreEvent, checkerVars, realVars, serviceVars
<1>2. ASSUME NEW t \in Threads, AnnounceNext(t)
      PROVE  Goal
  <2>1. ASSUME Return(t), pc[t] \in {"apply", "register"}, UNCHANGED real,
               service'.weight = service.weight, service'.realsAlive = service.realsAlive
        PROVE  Goal
    <3>1. /\ pc'[t] \in {"idle", "off", "wait"} /\ pc' = [pc EXCEPT ![t] = pc'[t]]
          /\ \A c \in CheckerKeys : c # t => event'[c] = event[c]
      BY <2>1, <1>t, ReturnEffect
    <3>2. PICK x \in {"idle", "off", "wait"} : pc' = [pc EXCEPT ![t] = x]
      BY <3>1
    <3> QED
      BY <1>a, <2>1, <3>1, <3>2
  <2>2. CASE ReadQuorum(t)
    BY <1>a, <2>2 DEF ReadQuorum, checkerVars, realVars, serviceVars
  <2>3. CASE ApplyQuorum(t)
    <3>1. service'.weight = service.weight /\ service'.realsAlive = service.realsAlive
      BY <1>t, <2>3 DEF ApplyQuorum, TypeOK
    <3> QED
      BY <1>a, <2>1, <2>3, <3>1 DEF ApplyQuorum, realVars
  <2>4. CASE Register(t)
    BY <2>1, <2>4 DEF Register, realVars, serviceVars
  <2> QED
    BY <1>2, <2>2, <2>3, <2>4 DEF AnnounceNext
<1>3. CASE UNCHANGED vars \/ UpdaterNext
    BY <1>0, <1>3 DEF vars, UpdaterNext, FlushServiceEvents, ProcessEvents, UpdateAnnouncer,
                      checkerVars, realVars, serviceVars
<1>4. ASSUME NEW r \in RealKeys,
             \/ Activate(r) \/ SaveConfig(r) \/ RealHalted(r) \/ ReloadActive(r) \/ HaltReal(r)
             \/ \E c \in CheckerKeys : KeepChecker(r, c) \/ StopChecker(r, c)
                                       \/ CheckerStopped(r, c)
      PROVE  Goal
    BY <1>0, <1>4 DEF Activate, SaveConfig, RealHalted, ReloadActive, HaltReal, KeepChecker,
                      StopChecker, CheckerStopped, checkerVars, realVars, serviceVars
<1>5. ASSUME NEW r \in RealKeys, SetDynWeight(r)
      PROVE  Goal
  <2>1. PICK dynamic : real' = [real EXCEPT ![r].dynWeight = dynamic]
    BY <1>5 DEF SetDynWeight
  <2>2. \A q \in RealKeys : /\ real'[q].alive = real[q].alive
                            /\ real'[q].inhibited = real[q].inhibited
                            /\ real'[q].weight = real[q].weight
    BY <1>t, <2>1 DEF RealState
  <2>3. \A q \in RealKeys : StatusOfReal(real'[q]) = StatusOfReal(real[q])
    BY <2>2 DEF StatusOfReal
  <2>4. \A q \in RealKeys : /\ Contribution(real'[q]) = Contribution(real[q])
                            /\ Counted(real'[q]) = Counted(real[q])
    BY <2>3 DEF Contribution, Counted
  <2>5. UNCHANGED <<service, event, pc>>
    BY <1>5 DEF SetDynWeight, checkerVars, serviceVars
  <2>6. WeightConserved'
    BY <1>t, <2>4, <2>5, WeightFrame
  <2> QED
    BY <2>2, <2>6 DEF RealsCoherent, Coherent
<1>6. ASSUME NEW r \in RealKeys, NEW c \in CheckerKeys, AddChecker(r, c)
      PROVE  Goal
  <2>1. /\ pc'[c] = "wait" /\ pc[c] = "off" /\ UNCHANGED <<real, event>>
        /\ \A d \in CheckerKeys : d # c => pc'[d] = pc[d]
    BY <1>6, AddEffect
  <2>2. UNCHANGED service
    BY <1>6 DEF AddChecker, serviceVars
  <2> QED
    BY <1>t, <2>1, <2>2, WeightFrame DEF RealsCoherent
<1>7. ASSUME NEW r \in RealKeys, ReloadInactive(r)
      PROVE  Goal
  <2>1. /\ UNCHANGED <<pc, event>>
        /\ \A q \in RealKeys : q # r => real'[q] = real[q]
        /\ real'[r] = real[r] \/ real'[r] = NewReal
    BY <1>7, InactiveEffect
  <2>2. UNCHANGED service
    BY <1>7 DEF ReloadInactive
  <2>3. /\ StatusOfReal(NewReal).enable = FALSE /\ Coherent(NewReal)
        /\ ~StatusOfReal(real[r]).enable
    BY <1>7 DEF StatusOfReal, NewReal, Status, Coherent
  <2>4. \A q \in RealKeys : /\ Contribution(real'[q]) = Contribution(real[q])
                            /\ Counted(real'[q]) = Counted(real[q])
    BY <2>1, <2>3 DEF Contribution, Counted
  <2>5. WeightConserved'
    BY <1>t, <2>1, <2>2, <2>4, WeightFrame
  <2> QED
    BY <2>1, <2>3, <2>5 DEF RealsCoherent
<1>8. CASE \/ \E cfg \in Configs : ServiceReload(cfg)
           \/ ServiceStop \/ ReloadDone \/ StopDone
           \/ \E r \in RealKeys : HaltHangs(r)
  <2>1. /\ UNCHANGED <<event, real, service>>
        /\ pc' = [pc EXCEPT ![Reloader] = pc'[Reloader]]
    BY <1>8, <1>t, ReloaderMoves DEF ReloaderAlone
  <2>2. \A c \in CheckerKeys : pc'[c] = pc[c]
    BY <1>t, <2>1 DEF TypeOK
  <2> QED
    BY <1>0, <2>1, <2>2
<1>9. ASSUME NEW c \in CheckerKeys, ProcessEvent(c)
      PROVE  Goal
  <2>1. WeightConserved'
    BY <1>9, WeightProcess
  <2>2. UNCHANGED real
    BY <1>9 DEF ProcessEvent, realVars
  <2> QED
    BY <2>1, <2>2 DEF RealsCoherent
<1>10. ASSUME NEW c \in CheckerKeys, HasResult(c)
       PROVE  Goal
  <2>1. Coherent(real[RealOf[c]])
    BY DEF RealsCoherent
  <2>2. WeightConserved' /\ Coherent(real'[RealOf[c]])
    BY <1>10, <2>1, WeightResult
  <2>3. \A q \in RealKeys : q # RealOf[c] => real'[q] = real[q]
    BY <1>10, <1>t, ResultEffect
  <2> QED
    BY <2>2, <2>3 DEF RealsCoherent
<1> QED
    BY <1>1, <1>2, <1>3, <1>4, <1>5, <1>6, <1>7, <1>8, <1>9, <1>10
    DEF Next, CheckerNext, HasResult, RealNext, ReloadNext

(* A service starts with nothing.                                           *)
LEMMA WeightInit ==
    ASSUME Init
    PROVE  WeightConserved /\ RealsCoherent
<1>1. TypeOK /\ ThreadInv
    BY HealthInit DEF StructureInv
<1>2. \A c \in CheckerKeys : pc[c] # "service"
    BY Constants DEF Init
<1>3. \A r \in RealKeys : /\ Contribution(real[r]) = 0 /\ Counted(real[r]) = 0
                          /\ Coherent(real[r])
    BY DEF Init, NewReal, Contribution, Counted, StatusOfReal, Status, Coherent
<1>4. /\ \A c \in CheckerKeys : WeightOnItsWay[c] = 0 /\ CountOnItsWay[c] = 0
      /\ \A r \in RealKeys : RealWeights[r] = 0 /\ RealsCounted[r] = 0
    BY <1>2, <1>3 DEF WeightOnItsWay, CountOnItsWay, RealWeights, RealsCounted
<1>5. /\ SumFunction(WeightOnItsWay) = 0 /\ SumFunction(CountOnItsWay) = 0
      /\ SumFunction(RealWeights) = 0 /\ SumFunction(RealsCounted) = 0
    BY <1>1, <1>4, FiniteKeys, WeightTypes, SumFunctionType
<1>6. service.weight = 0 /\ service.realsAlive = 0
    BY DEF Init
<1> QED
    BY <1>3, <1>5, <1>6 DEF WeightConserved, RealsCoherent

(* Without inhibit_on_failure no shutdown is spurious, and a real without   *)
(* checkers is down.                                                        *)
LEMMA WithoutInhibit ==
    ASSUME NoInhibit, StructureInv, AliveInv, InhibitInv
    PROVE  /\ \A c \in CheckerKeys : ~Spurious(c)
           /\ \A r \in RealKeys : ReloadInactive(r) => ~StatusOfReal(real[r]).enable
           /\ \A r \in RealKeys :
                 (\A c \in Own(r) : pc[c] = "off") => ~StatusOfReal(real[r]).enable
<1>1. \A r \in RealKeys : ~realConfig[r].inhibit /\ ~real[r].inhibited
    BY DEF NoInhibit, InhibitInv, StructureInv, TypeOK
<1>2. \A c \in CheckerKeys : ~Spurious(c)
    BY <1>1, Constants DEF Spurious
<1>3. ASSUME NEW r \in RealKeys, \A c \in Own(r) : pc[c] = "off"
      PROVE  ~StatusOfReal(real[r]).enable
  <2>1. ~real[r].alive
    BY <1>3 DEF AliveInv, Up
  <2> QED
    BY <1>1, <2>1 DEF StatusOfReal, Status
<1>4. ASSUME NEW r \in RealKeys, ReloadInactive(r)
      PROVE  ~StatusOfReal(real[r]).enable
    BY <1>3, <1>4, InactiveReal
<1> QED
    BY <1>2, <1>3, <1>4

(* The invariant of the service's weight.                                   *)
LEMMA WeightTheorem ==
    ASSUME NoInhibit
    PROVE  Spec => [](StructureInv /\ AliveInv /\ InhibitInv /\ WeightConserved)
<1> DEFINE Inv == StructureInv /\ AliveInv /\ InhibitInv /\ WeightConserved /\ RealsCoherent
<1>0. SteadyInhibit
    BY HealthAssumption DEF NoInhibit, SteadyInhibit
<1>1. Init => Inv
    BY <1>0, HealthInit, WeightInit
<1>2. Inv /\ [Next]_vars => Inv'
    BY <1>0, StructureStep, AliveStep, InhibitStep, WithoutInhibit, WeightStep
<1> QED
    BY <1>1, <1>2, PTL DEF Spec

(* The weight of a service, and its number of alive reals, are the sums     *)
(* over its reals of what they are, once the events on their way are added  *)
(* (processSucceed and processFailure of service/handler.go): for any       *)
(* number of reals and checkers, through any reloads and a stop, in any     *)
(* order of the goroutines, as long as no real has inhibit_on_failure.      *)
THEOREM WeightConservedTheorem == NoInhibit => (Spec => []WeightConserved)
<1> SUFFICES ASSUME NoInhibit PROVE Spec => []WeightConserved
    OBVIOUS
<1> QED
    BY WeightTheorem, PTL

(* A stopped service has taken back the contributions of all of its reals   *)
(* (Service.Stop).                                                          *)
THEOREM StopDrainsTheorem == NoInhibit => (Spec => []StopDrains)
<1> SUFFICES ASSUME NoInhibit PROVE Spec => []StopDrains
    OBVIOUS
<1>1. StructureInv /\ AliveInv /\ InhibitInv /\ WeightConserved => StopDrains
  <2> SUFFICES ASSUME StructureInv, AliveInv, InhibitInv, WeightConserved,
                      pc[Reloader] = "stopped"
               PROVE  service.weight = 0 /\ service.realsAlive = 0
    BY DEF StopDrains
  <2>0. TypeOK /\ ThreadInv
    BY DEF StructureInv
  <2>1. ASSUME NEW r \in RealKeys
        PROVE  \A c \in Own(r) : pc[c] = "off"
    <3>1. life[r] = "absent"
      BY DEF StructureInv, TargetInv, Present
    <3>2. reload[r].pc = "idle" /\ checkers[r] = {}
      BY <3>1, RealFacts DEF RealFits, ReloadType
    <3> QED
      BY <3>2, IdleReal
  <2>2. \A c \in CheckerKeys : pc[c] # "service"
    BY <2>1, Constants DEF Own
  <2>3. \A r \in RealKeys : ~StatusOfReal(real[r]).enable
    BY <2>1, WithoutInhibit
  <2>4. /\ \A c \in CheckerKeys : WeightOnItsWay[c] = 0 /\ CountOnItsWay[c] = 0
        /\ \A r \in RealKeys : RealWeights[r] = 0 /\ RealsCounted[r] = 0
    BY <2>2, <2>3 DEF WeightOnItsWay, CountOnItsWay, RealWeights, RealsCounted,
                      Contribution, Counted
  <2>5. /\ SumFunction(WeightOnItsWay) = 0 /\ SumFunction(CountOnItsWay) = 0
        /\ SumFunction(RealWeights) = 0 /\ SumFunction(RealsCounted) = 0
    BY <2>0, <2>4, FiniteKeys, WeightTypes, SumFunctionType
  <2> QED
    BY <2>0, <2>5, WeightTypes DEF WeightConserved
<1> QED
    BY <1>1, WeightTheorem, PTL

-----------------------------------------------------------------------------
(* A service that is neither reloaded nor stopped stops no checker, and     *)
(* creates every real once.                                                 *)
RunningInv ==
    /\ pc[Reloader] \notin {"stopping", "stopped", "hung"}
    /\ target.old = {} /\ target.current = NoReal
    /\ \A r \in target.todo : life[r] = "absent"
    /\ \A r \in RealKeys : reload[r].old = {} /\ (life[r] = "absent" => real[r] = NewReal)
    /\ \A c \in CheckerKeys : ~stopping[c]

(* RunningInv is kept by every step of a running service.                   *)
LEMMA RunningStep ==
    ASSUME StructureInv, RunningInv, [NextRunning]_vars
    PROVE  RunningInv'
<1> USE Constants
<1>t. /\ TypeOK /\ ThreadInv /\ real \in [RealKeys -> RealState]
      /\ reload \in [RealKeys -> ReloadType]
    BY DEF StructureInv, TypeOK, RealState, ReloadType
<1>r. ASSUME NEW r \in RealKeys
      PROVE  RealFits(r) /\ life[r] # "stopping" /\ reload[r].pc \notin {"halting", "hung"}
  <2>1. RealFits(r)
    BY RealFacts
  <2>2. target.current # r
    BY DEF RunningInv
  <2> QED
    BY <2>1, <2>2 DEF RealFits, RunningInv
<1>0. ASSUME UNCHANGED <<target, life, real, reload, stopping>>,
             pc'[Reloader] \notin {"stopping", "stopped", "hung"}
      PROVE  RunningInv'
    BY <1>0 DEF RunningInv
<1>1. ASSUME GoesOn
      PROVE  RunningInv'
  <2>1. UNCHANGED <<stopping, realVars, target>> /\ ThreadsGoOn
    BY <1>1, <1>t, GoesOnEffect
  <2>2. pc'[Reloader] \notin {"stopping", "stopped", "hung"}
    BY <2>1 DEF ThreadsGoOn, RunningInv
  <2> QED
    BY <1>0, <2>1, <2>2 DEF realVars
<1>2. ASSUME UNCHANGED vars
      PROVE  RunningInv'
    BY <1>0, <1>2 DEF vars, RunningInv
<1>3. ASSUME NEW c \in CheckerKeys, HasResult(c)
      PROVE  RunningInv'
  <2>1. /\ UNCHANGED <<stopping, life, reload, target>> /\ pc[c] # "off"
        /\ pc' = [pc EXCEPT ![c] = pc'[c]]
        /\ \A r \in RealKeys : r # RealOf[c] => real'[r] = real[r]
    BY <1>3, <1>t, ResultEffect DEF serviceVars
  <2>2. pc'[Reloader] = pc[Reloader]
    BY <1>t, <2>1 DEF TypeOK
  <2>3. life[RealOf[c]] # "absent"
    <3>1. c \in Kept(RealOf[c])
      BY <2>1 DEF StructureInv, CheckersInv, CheckerFits
    <3>2. reload[RealOf[c]].pc \in {"idle", "checkers", "saving"}
      BY <1>t, <1>r DEF ReloadType
    <3> QED
      BY <1>r, <3>1, <3>2 DEF Kept, RealFits
  <2> QED
    BY <2>1, <2>2, <2>3 DEF RunningInv
<1>4. ASSUME NEW r \in RealKeys, Activate(r)
      PROVE  RunningInv'
  <2>1. /\ life[r] = "waiting" /\ checkers[r] = {}
        /\ life' = [life EXCEPT ![r] = "active"]
        /\ reload' = [reload EXCEPT ![r] = [pc |-> "checkers", todo |-> realConfig[r].checkers,
                                            old |-> checkers[r]]]
        /\ UNCHANGED <<pc, real, target, stopping>>
    BY <1>4, <1>r DEF Activate, BeginReload, RealFits, checkerVars, serviceVars
  <2>2. /\ \A q \in RealKeys : life'[q] = "absent" <=> life[q] = "absent"
        /\ \A q \in RealKeys : reload'[q].old = {}
    BY <2>1, <1>t DEF TypeOK, RunningInv
  <2>3. \A q \in target.todo : q \in RealKeys
    BY <1>t DEF TypeOK
  <2> QED
    BY <2>1, <2>2, <2>3 DEF RunningInv
<1>5. ASSUME NEW r \in RealKeys, NEW c \in CheckerKeys, AddChecker(r, c)
      PROVE  RunningInv'
  <2>1. UNCHANGED <<life, real, target, stopping>>
    BY <1>5 DEF AddChecker, serviceVars
  <2>2. pc'[Reloader] = pc[Reloader]
    BY <1>5, <1>t DEF AddChecker, TypeOK
  <2>3. reload' = [reload EXCEPT ![r].todo = @ \ {c}]
    BY <1>5 DEF AddChecker
  <2>4. \A q \in RealKeys : reload'[q].old = reload[q].old
    BY <1>t, <2>3 DEF ReloadType
  <2> QED
    BY <2>1, <2>2, <2>4 DEF RunningInv
<1>6. ASSUME NEW r \in RealKeys, NEW c \in CheckerKeys,
             KeepChecker(r, c) \/ StopChecker(r, c) \/ CheckerStopped(r, c)
      PROVE  FALSE
    BY <1>6 DEF KeepChecker, StopChecker, CheckerStopped, RunningInv
<1>7. ASSUME NEW r \in RealKeys, SetDynWeight(r)
      PROVE  RunningInv'
  <2>1. /\ UNCHANGED <<life, target, stopping, pc>> /\ reload[r].pc = "checkers"
        /\ \A q \in RealKeys : q # r => real'[q] = real[q]
    BY <1>7, <1>t DEF SetDynWeight, serviceVars, checkerVars
  <2>2. life[r] # "absent"
    BY <2>1, <1>r DEF RealFits
  <2>3. \A q \in RealKeys : reload'[q].old = {}
    BY <1>7, <1>t, ReloadEdits DEF SetDynWeight, EditedTo, RunningInv
  <2> QED
    BY <2>1, <2>2, <2>3 DEF RunningInv
<1>8. ASSUME NEW r \in RealKeys, SaveConfig(r)
      PROVE  RunningInv'
  <2>1. /\ UNCHANGED <<life, real, stopping, pc>> /\ target' = target
        /\ reload' = [reload EXCEPT ![r] = IdleReload]
    BY <1>8 DEF SaveConfig, Proceed, RunningInv, checkerVars
  <2>2. \A q \in RealKeys : reload'[q].old = {}
    BY <2>1, <1>t DEF IdleReload, RunningInv
  <2> QED
    BY <2>1, <2>2 DEF RunningInv
<1>9. ASSUME NEW r \in RealKeys,
             RealHalted(r) \/ ReloadActive(r) \/ HaltReal(r) \/ HaltHangs(r)
      PROVE  FALSE
    BY <1>9, <1>r DEF RealHalted, ReloadActive, HaltReal, HaltHangs, Halt, RunningInv
<1>10. ASSUME NEW r \in RealKeys, ReloadInactive(r)
       PROVE  RunningInv'
  <2>1. /\ UNCHANGED <<pc, stopping, reload>> /\ r \in target.todo
        /\ life' = [life EXCEPT ![r] = "waiting"]
        /\ target' = [target EXCEPT !.todo = @ \ {r}, !.old = @ \ {r}]
    BY <1>10 DEF ReloadInactive, checkerVars
  <2>2. /\ target'.todo = target.todo \ {r} /\ target'.old = {} /\ target'.current = NoReal
        /\ \A q \in target.todo : q \in RealKeys
    BY <2>1, <1>t DEF TypeOK, RunningInv
  <2>3. /\ \A q \in RealKeys : q # r => real'[q] = real[q] /\ life'[q] = life[q]
        /\ life'[r] = "waiting"
    BY <1>10, <2>1, <1>t, InactiveEffect DEF TypeOK
  <2> QED
    BY <2>1, <2>2, <2>3 DEF RunningInv
<1>11. ASSUME ReloadDone
       PROVE  RunningInv'
    BY <1>11, <1>t DEF ReloadDone, NoTarget, RunningInv, TypeOK, checkerVars, realVars
<1>12. ASSUME StopDone
       PROVE  FALSE
    BY <1>12 DEF StopDone, RunningInv
<1> QED
    BY <1>1, <1>2, <1>3, <1>4, <1>5, <1>6, <1>7, <1>8, <1>9, <1>10, <1>11, <1>12
    DEF NextRunning, CheckerNext, HasResult, GoesOn, RealNext, ReloadNext

(* The same of a service that is neither reloaded nor stopped, whichever    *)
(* of its reals have inhibit_on_failure.                                    *)
THEOREM RunningWeightTheorem == SpecRunning => []WeightConserved
<1> DEFINE Inv == StructureInv /\ AliveInv /\ RunningInv /\ WeightConserved /\ RealsCoherent
<1>1. Init => Inv
  <2> SUFFICES ASSUME Init PROVE Inv
    OBVIOUS
  <2>1. StructureInv /\ AliveInv /\ WeightConserved /\ RealsCoherent
    BY HealthInit, WeightInit
  <2>2. target.old = {} /\ target.current = NoReal /\ target.todo \subseteq RealKeys
    BY HealthAssumption DEF Init, NoTarget
  <2>3. RunningInv
    BY <2>2, Constants DEF Init, RunningInv, IdleReload
  <2> QED
    BY <2>1, <2>3
<1>2. Inv /\ [NextRunning]_vars => Inv'
  <2> SUFFICES ASSUME Inv, [NextRunning]_vars PROVE Inv'
    OBVIOUS
  <2>1. [Next]_vars
    BY DEF NextRunning, Next
  <2>2. \A c \in CheckerKeys : ~Spurious(c)
    BY DEF Spurious, Shutdown, RunningInv
  <2>3. ASSUME NEW r \in RealKeys, ReloadInactive(r)
        PROVE  ~StatusOfReal(real[r]).enable
    <3>1. real[r] = NewReal
      BY <2>3 DEF ReloadInactive, RunningInv
    <3> QED
      BY <3>1 DEF NewReal, StatusOfReal, Status
  <2>4. WeightConserved' /\ RealsCoherent'
    BY <2>1, <2>2, <2>3, WeightStep
  <2> QED
    BY <2>1, <2>4, StructureStep, AliveStep, RunningStep
<1> QED
    BY <1>1, <1>2, PTL DEF SpecRunning
=============================================================================
