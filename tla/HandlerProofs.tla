--------------------------- MODULE HandlerProofs ---------------------------
(* What the handlers of a real and of its service do to the weights, for    *)
(* every state, configuration and event; and the sums of weights.           *)
EXTENDS VirtualService, Functions, FiniteSetTheorems, TLAPS

RealState == [alive : BOOLEAN, weight : Weights, dynWeight : BOOLEAN, inhibited : BOOLEAN]
HandlerConfig(config) == config.weight \in Weights /\ config.inhibit \in BOOLEAN

-----------------------------------------------------------------------------
(* The step of Recalculate is a positive number.                            *)
LEMMA StepPositive ==
    ASSUME NEW old \in Nat, NEW coeff \in Nat
    PROVE  Step(old, coeff) \in Nat \ {0}
<1> DEFINE product == old * coeff
<1>1. product \in Nat
    OBVIOUS
<1> HIDE DEF product
<1>2. product \div 100 \in Nat
    BY <1>1
<1>3. Step(old, coeff) = IF product \div 100 = 0 THEN 1 ELSE product \div 100
    BY DEF Step, product
<1> QED
    BY <1>2, <1>3

(* Recalculate (types/weight) neither overshoots the reported weight nor    *)
(* stands still: whatever the coefficient, the new weight lies between the  *)
(* old and the reported one, and differs from the old one until it is the   *)
(* reported one.                                                            *)
THEOREM RecalculateApproaches ==
    ASSUME NEW weight \in Nat, NEW old \in Nat, NEW coeff \in Nat,
           NEW new, new = Recalculate(weight, old, coeff)
    PROVE  /\ new \in Nat
           /\ weight >= old => old <= new /\ new <= weight
           /\ weight <= old => weight <= new /\ new <= old
           /\ weight # old => new # old
<1>1. Step(old, coeff) \in Nat \ {0}
    BY StepPositive
<1> QED
    BY <1>1 DEF Recalculate, SmallerOf, LargerOf, Omitted

(* Recalculate (types/weight) yields a weight, whatever was reported.       *)
LEMMA RecalculateType ==
    ASSUME NEW weight \in Weights, NEW old \in Weights, NEW coeff \in Nat
    PROVE  Recalculate(weight, old, coeff) \in Weights
<1> USE DEF Weights, Omitted
<1>1. CASE weight \in Nat /\ old \in Nat
    BY <1>1, RecalculateApproaches
<1>2. CASE ~(weight \in Nat /\ old \in Nat)
    BY <1>2 DEF Recalculate
<1> QED
    BY <1>1, <1>2

-----------------------------------------------------------------------------
(* The handlers of a checker.                                               *)
CheckerState == [alive : BOOLEAN, weight : Weights, failedAttempts : Nat,
                 manualChanged : BOOLEAN]

CheckerSettings(c) == c.retries \in Nat /\ c.coeff \in Nat /\ c.dynamic \in BOOLEAN

(* The events of a checker are events.                                      *)
LEMMA EventIsTyped ==
    ASSUME NEW type \in {"Enable", "Disable", "Shutdown"}, NEW w \in Weights
    PROVE  /\ Event(type, w) \in HandlerEvent
           /\ Event(type, w).type = type /\ Event(type, w).new.weight = w
BY DEF Event, HandlerEvent, Status, Statuses, Weights

(* processSucceed: the checker is alive, and it sends no event only if it   *)
(* was alive with this weight before.                                       *)
LEMMA SucceedResult ==
    ASSUME NEW old \in CheckerState, NEW c, CheckerSettings(c), NoEvent \notin HandlerEvent,
           NEW reported \in Weights, NEW force \in BOOLEAN,
           NEW after, after = ProcessSucceed(old, c, reported, force)
    PROVE  /\ after.checker \in CheckerState /\ after.checker.alive
           /\ after.event \in HandlerEvent \cup {NoEvent}
           /\ after.event = NoEvent =>
                 /\ old.alive /\ after.checker.weight = old.weight
                 /\ after.checker.manualChanged = old.manualChanged
           /\ after.event # NoEvent =>
                 /\ after.event.type = "Enable"
                 /\ after.event.new.weight = after.checker.weight
<1> DEFINE w == Recalculate(reported, old.weight, c.coeff)
           enabled == [old EXCEPT
                         !.alive = TRUE,
                         !.failedAttempts = IF ~old.alive THEN 0 ELSE @,
                         !.weight = IF c.dynamic THEN w ELSE @]
           changed == ~old.alive \/ (c.dynamic /\ w # old.weight) \/ force
<1>1. w \in Weights
    BY RecalculateType DEF CheckerState, CheckerSettings
<1>2. after = IF changed THEN Result([enabled EXCEPT !.manualChanged = FALSE],
                                     Event("Enable", enabled.weight))
              ELSE Result(enabled, NoEvent)
    BY DEF ProcessSucceed
<1> HIDE DEF w
<1>3. /\ enabled \in CheckerState /\ enabled.alive
      /\ enabled.weight = IF c.dynamic THEN w ELSE old.weight
      /\ enabled.manualChanged = old.manualChanged
    BY <1>1 DEF CheckerState
<1> HIDE DEF enabled
<1>4. CASE changed
  <2>1. Event("Enable", enabled.weight) \in HandlerEvent
    BY <1>3, EventIsTyped DEF CheckerState
  <2>2. /\ Event("Enable", enabled.weight).type = "Enable"
        /\ Event("Enable", enabled.weight).new.weight = enabled.weight
    BY <1>3, EventIsTyped DEF CheckerState
  <2>3. Event("Enable", enabled.weight) # NoEvent
    BY <2>1
  <2>4. /\ after.checker = [enabled EXCEPT !.manualChanged = FALSE]
        /\ after.event = Event("Enable", enabled.weight)
    BY <1>2, <1>4 DEF Result
  <2>5. /\ after.checker \in CheckerState /\ after.checker.alive
        /\ after.checker.weight = enabled.weight
    BY <1>3, <2>4 DEF CheckerState
  <2> QED
    BY <2>1, <2>2, <2>3, <2>4, <2>5
<1>5. CASE ~changed
    BY <1>2, <1>3, <1>5 DEF Result
<1> QED
    BY <1>4, <1>5

(* processFail: a failure beyond the retries disables the checker and sends *)
(* the event; any other is only counted.                                    *)
LEMMA FailResult ==
    ASSUME NEW old \in CheckerState, NEW c, CheckerSettings(c), NoEvent \notin HandlerEvent,
           NEW after, after = ProcessFail(old, c)
    PROVE  /\ after.checker \in CheckerState
           /\ after.checker.failedAttempts = SmallerOf(old.failedAttempts + 1, c.retries + 1)
           /\ after.checker.weight = old.weight
           /\ after.checker.manualChanged = old.manualChanged
           /\ IF after.checker.failedAttempts > c.retries
              THEN ~after.checker.alive /\ after.event = Event("Disable", Omitted)
              ELSE after.checker.alive = old.alive /\ after.event = NoEvent
<1> DEFINE n == SmallerOf(old.failedAttempts + 1, c.retries + 1)
           failed == [old EXCEPT !.failedAttempts = n]
<1>1. n \in Nat
    BY DEF SmallerOf, CheckerState, CheckerSettings
<1>2. FailedAttempt(old, c) = failed
    BY DEF FailedAttempt
<1>3. after = IF failed.failedAttempts > c.retries
              THEN Result([failed EXCEPT !.alive = FALSE], Event("Disable", Omitted))
              ELSE Result(failed, NoEvent)
    BY <1>2 DEF ProcessFail
<1> HIDE DEF n
<1>4. /\ failed \in CheckerState /\ failed.failedAttempts = n
      /\ failed.weight = old.weight /\ failed.manualChanged = old.manualChanged
      /\ failed.alive = old.alive
    BY <1>1 DEF CheckerState
<1> HIDE DEF failed
<1>5. CASE n > c.retries
  <2>1. /\ after.checker = [failed EXCEPT !.alive = FALSE]
        /\ after.event = Event("Disable", Omitted)
    BY <1>3, <1>4, <1>5 DEF Result
  <2>2. /\ after.checker \in CheckerState /\ ~after.checker.alive
        /\ after.checker.failedAttempts = n /\ after.checker.weight = old.weight
        /\ after.checker.manualChanged = old.manualChanged
    BY <1>4, <2>1 DEF CheckerState
  <2> QED
    BY <1>5, <2>1, <2>2 DEF n
<1>6. CASE ~(n > c.retries)
    BY <1>3, <1>4, <1>6 DEF Result, n
<1> QED
    BY <1>5, <1>6

-----------------------------------------------------------------------------
(* A real cannot be alive and inhibited at once.                            *)
Coherent(real) == ~(real.alive /\ real.inhibited)

(* The one case in which disableReal (real/handler.go) reports a change of  *)
(* a real that is not enabled: its shutdown, under inhibit_on_failure.      *)
SpuriousShutdown(real, config, event) ==
    event.type = "Shutdown" /\ config.inhibit /\ ~StatusOfReal(real).enable

(* The handlers keep the states of a real coherent.                         *)
LEMMA HandleEventCoherent ==
    ASSUME NEW real \in RealState, NEW config,
           HandlerConfig(config), NEW event \in HandlerEvent, Coherent(real)
    PROVE  /\ HandleEvent(real, config, event).real \in RealState
           /\ Coherent(HandleEvent(real, config, event).real)
<1>1. CASE event.type = "Enable"
    BY <1>1 DEF HandleEvent, RealSucceed, Handled, HandleDynamicWeight, Coherent,
                RealState, HandlerConfig, HandlerEvent, Statuses
<1>2. CASE event.type # "Enable"
    BY <1>2 DEF HandleEvent, RealFail, Handled, DisableIsNoChange, Coherent,
                RealState, HandlerConfig, HandlerEvent, Statuses
<1> QED
    BY <1>1, <1>2

(* Service.processEvent adds exactly what the real has changed: for every   *)
(* event that is not a spurious shutdown, the service's delta is the change *)
(* of the real's contribution, and an event is dropped only if there is no  *)
(* change.                                                                  *)
THEOREM DeltaIsTheChange ==
    ASSUME NEW real \in RealState, NEW config,
           HandlerConfig(config), NEW event \in HandlerEvent, Coherent(real),
           ~SpuriousShutdown(real, config, event),
           NoEvent \notin HandlerEvent,
           NEW after, after = HandleEvent(real, config, event)
    PROVE  /\ after.event = NoEvent =>
                 /\ Contribution(after.real) = Contribution(real)
                 /\ Counted(after.real) = Counted(real)
           /\ after.event # NoEvent =>
                 /\ Contribution(after.real) = Contribution(real) + WeightDelta(after.event)
                 /\ Counted(after.real) = Counted(real) + AliveDelta(after.event)
<1> USE DEF Status, Statuses, Omitted, Weights
<1>0. StatusOfReal(real) \in [enable : BOOLEAN, weight : Weights]
    BY DEF StatusOfReal, RealState
<1>1. CASE event.type = "Enable"
  <2> DEFINE weight == HandleDynamicWeight(real, config, event.new.weight)
  <2>1. weight \in Weights
    BY DEF HandleDynamicWeight, RealState, HandlerConfig, HandlerEvent, Statuses
  <2> DEFINE enabled == [real EXCEPT !.weight = weight, !.alive = TRUE,
                                     !.inhibited = IF real.alive THEN @ ELSE FALSE]
             sent == [event EXCEPT !.new = StatusOfReal(enabled), !.init = StatusOfReal(real)]
  <2>2. after = IF real.alive /\ weight = real.weight THEN Handled(real, NoEvent)
                ELSE Handled(enabled, sent)
    BY <1>1 DEF HandleEvent, RealSucceed
  <2> HIDE DEF weight
  <2>3. /\ enabled.alive /\ enabled.weight = weight
        /\ enabled.inhibited = FALSE
    BY DEF Coherent, RealState
  <2> HIDE DEF enabled
  <2>4. CASE real.alive /\ weight = real.weight
    BY <2>2, <2>4 DEF Handled
  <2>5. CASE ~(real.alive /\ weight = real.weight)
    <3>1. after.real = enabled /\ after.event = sent
      BY <2>2, <2>5 DEF Handled
    <3>2. /\ sent.type = "Enable" /\ sent.new = StatusOfReal(enabled)
          /\ sent.init = StatusOfReal(real)
      BY <1>1 DEF HandlerEvent
    <3>3. sent \in HandlerEvent
      BY <2>1, <2>3 DEF HandlerEvent, StatusOfReal, RealState
    <3> HIDE DEF sent
    <3>4. StatusOfReal(enabled) = [enable |-> TRUE, weight |-> weight]
      BY <2>3 DEF StatusOfReal
    <3>5. /\ Contribution(enabled) = weight /\ Counted(enabled) = 1
      BY <3>4 DEF Contribution, Counted
    <3>6. CASE StatusOfReal(real).enable
      BY <3>1, <3>2, <3>3, <3>4, <3>5, <3>6, <2>1
         DEF Contribution, Counted, WeightDelta, AliveDelta, StatusOfReal, RealState
    <3>7. CASE ~StatusOfReal(real).enable
      BY <3>1, <3>2, <3>3, <3>4, <3>5, <3>7, <2>1
         DEF Contribution, Counted, WeightDelta, AliveDelta, RealState
    <3> QED
      BY <3>6, <3>7
  <2> QED
    BY <2>4, <2>5
<1>2. CASE event.type # "Enable"
  <2>1. CASE DisableIsNoChange(real, config, event.type)
    BY <1>2, <2>1 DEF HandleEvent, RealFail, Handled
  <2>2. CASE ~DisableIsNoChange(real, config, event.type)
    <3>1. CASE event.type = "Shutdown" \/ ~config.inhibit
      <4>1. /\ after.real.alive = FALSE /\ after.real.inhibited = FALSE
            /\ after.event = [event EXCEPT !.init = StatusOfReal(real)]
        BY <1>2, <2>2, <3>1 DEF HandleEvent, RealFail, Handled, Coherent,
           DisableIsNoChange, RealState, HandlerEvent, HandlerConfig
      <4>2. StatusOfReal(real).enable
        BY <1>2, <2>2, <3>1 DEF StatusOfReal, DisableIsNoChange, SpuriousShutdown,
           RealState, HandlerEvent, HandlerConfig
      <4>3. /\ after.event \in HandlerEvent /\ after.event.type # "Enable"
            /\ after.event.init = StatusOfReal(real)
        BY <1>0, <1>2, <4>1 DEF HandlerEvent
      <4>4. Contribution(after.real) = 0 /\ Counted(after.real) = 0
        BY <4>1 DEF Contribution, Counted, StatusOfReal
      <4> QED
        BY <4>2, <4>3, <4>4
           DEF Contribution, Counted, WeightDelta, AliveDelta, HandlerEvent
    <3>2. CASE event.type # "Shutdown" /\ config.inhibit
      <4>1. /\ after.real.inhibited = TRUE
            /\ after.event = [event EXCEPT !.type = "Enable", !.new = Status(TRUE, 0),
                                           !.init = StatusOfReal(real)]
        BY <1>2, <2>2, <3>2 DEF HandleEvent, RealFail, Handled, RealState, HandlerEvent
      <4> DEFINE inhibited == [enable |-> TRUE, weight |-> 0]
                 former == StatusOfReal(real)
      <4>a. /\ inhibited \in [enable : BOOLEAN, weight : Weights]
            /\ former \in [enable : BOOLEAN, weight : Weights]
        BY <1>0
      <4>b. after.event = [event EXCEPT !.type = "Enable", !.new = inhibited, !.init = former]
        BY <4>1
      <4> HIDE DEF inhibited, former
      <4>c. /\ after.event \in HandlerEvent /\ after.event.type = "Enable"
            /\ after.event.new = inhibited /\ after.event.init = former
        BY <4>a, <4>b DEF HandlerEvent
      <4>2. /\ after.event \in HandlerEvent /\ after.event.type = "Enable"
            /\ after.event.new = [enable |-> TRUE, weight |-> 0]
            /\ after.event.init = StatusOfReal(real)
        BY <4>c DEF inhibited, former
      <4>3. Contribution(after.real) = 0 /\ Counted(after.real) = 1
        BY <4>1 DEF Contribution, Counted, StatusOfReal
      <4> QED
        BY <4>2, <4>3
           DEF Contribution, Counted, WeightDelta, AliveDelta, HandlerEvent
    <3> QED
      BY <3>1, <3>2
  <2> QED
    BY <2>1, <2>2
<1> QED
    BY <1>1, <1>2

-----------------------------------------------------------------------------
(***************************************************************************)
(* Sums.  SumFunction adds the values of a function one index at a time,   *)
(* each index chosen; on a finite set the order does not matter.           *)
(***************************************************************************)
One(s) == CHOOSE x \in s : TRUE

SumsOn(g, f, T) ==
    \A s \in SUBSET T :
        /\ g[s] \in Int
        /\ g[s] = IF s = {} THEN 0 ELSE f[One(s)] + g[s \ {One(s)}]

(* Induction over the subsets of a finite set: a set of them has a minimal  *)
(* member.                                                                  *)
LEMMA MinimalSubset ==
    ASSUME NEW S, IsFiniteSet(S), NEW B, B \subseteq SUBSET S, B # {}
    PROVE  \E t \in B : \A u \in B : u \subseteq t => u = t
<1>1. IsWellFoundedOn(StrictSubsetOrdering(S), SUBSET S)
    BY FS_StrictSubsetOrderingWellFounded, FS_FiniteSubsetsOfFinite
<1>2. PICK t \in B : \A u \in B : ~(<<u, t>> \in StrictSubsetOrdering(S))
    BY <1>1, WFMin
<1> QED
    BY <1>2 DEF StrictSubsetOrdering

(* The sums of a function's values are unique.                              *)
LEMMA SumsAgree ==
    ASSUME NEW S, IsFiniteSet(S), NEW f, NEW g, NEW h,
           NEW T \in SUBSET S, NEW U \in SUBSET S, SumsOn(g, f, T), SumsOn(h, f, U),
           NEW s \in SUBSET (T \cap U)
    PROVE  g[s] = h[s]
<1> DEFINE B == {t \in SUBSET (T \cap U) : g[t] # h[t]}
<1>1. SUFFICES ASSUME B # {} PROVE FALSE
    OBVIOUS
<1>2. PICK t \in B : \A u \in B : u \subseteq t => u = t
  <2>1. B \subseteq SUBSET S
    OBVIOUS
  <2> HIDE DEF B
  <2> QED
    BY <1>1, <2>1, MinimalSubset
<1>3. CASE t = {}
    BY <1>2, <1>3 DEF SumsOn
<1>4. CASE t # {}
  <2>1. One(t) \in t
    BY <1>4 DEF One
  <2> DEFINE u == t \ {One(t)}
  <2>2. u \in SUBSET (T \cap U) /\ u \subseteq t /\ u # t
    BY <2>1, <1>2
  <2>3. g[u] = h[u]
    BY <1>2, <2>2
  <2>4. g[t] = f[One(t)] + g[u] /\ h[t] = f[One(t)] + h[u]
    BY <1>2, <1>4 DEF SumsOn
  <2> QED
    BY <1>2, <2>3, <2>4
<1> QED
    BY <1>3, <1>4

(* They exist.                                                              *)
LEMMA SumsExist ==
    ASSUME NEW S, IsFiniteSet(S), NEW f \in [S -> Int], NEW T \in SUBSET S
    PROVE  \E g \in [SUBSET T -> Int] : SumsOn(g, f, T)
<1> DEFINE Has(t) == \E g \in [SUBSET t -> Int] : SumsOn(g, f, t)
           B == {t \in SUBSET S : ~Has(t)}
<1>1. SUFFICES ASSUME B # {} PROVE FALSE
    OBVIOUS
<1>2. PICK t \in B : \A u \in B : u \subseteq t => u = t
  <2>1. B \subseteq SUBSET S
    OBVIOUS
  <2> HIDE DEF B
  <2> QED
    BY <1>1, <2>1, MinimalSubset
<1>3. \A u \in SUBSET t : u # t => Has(u)
    BY <1>2
<1> DEFINE H(u) == CHOOSE g \in [SUBSET u -> Int] : SumsOn(g, f, u)
           before(u) == IF u = {} THEN 0 ELSE f[One(u)] + H(u \ {One(u)})[u \ {One(u)}]
           g == [u \in SUBSET t |-> before(u)]
<1>4. \A u \in SUBSET t : u # t => H(u) \in [SUBSET u -> Int] /\ SumsOn(H(u), f, u)
    BY <1>3
<1> HIDE DEF H
<1>5. \A u \in SUBSET t : u # {} =>
          /\ One(u) \in u /\ One(u) \in S
          /\ u \ {One(u)} \in SUBSET t /\ u \ {One(u)} # t
    BY <1>2 DEF One
<1>6. \A u \in SUBSET t : before(u) \in Int
  <2> TAKE u \in SUBSET t
  <2>1. CASE u = {}
    BY <2>1
  <2>2. CASE u # {}
    <3> DEFINE v == u \ {One(u)}
    <3>1. v \in SUBSET t /\ v # t /\ f[One(u)] \in Int
      BY <1>5, <2>2
    <3>2. H(v) \in [SUBSET v -> Int]
      BY <1>4, <3>1
    <3>3. H(v)[v] \in Int
      BY <3>2
    <3> QED
      BY <2>2, <3>1, <3>3
  <2> QED
    BY <2>1, <2>2
<1>7. \A u \in SUBSET t : u # t => before(u) = H(u)[u]
  <2> TAKE u \in SUBSET t
  <2> HAVE u # t
  <2>1. CASE u = {}
    BY <2>1, <1>4 DEF SumsOn
  <2>2. CASE u # {}
    <3> DEFINE v == u \ {One(u)}
    <3>1. /\ v \in SUBSET S /\ u \in SUBSET S /\ v \in SUBSET (u \cap v)
          /\ v \in SUBSET t /\ v # t
      BY <1>2, <1>5, <2>2
    <3>a. SumsOn(H(u), f, u) /\ SumsOn(H(v), f, v)
      BY <3>1, <1>4
    <3>2. H(u)[v] = H(v)[v]
      <4> DEFINE hu == H(u)
                 hv == H(v)
      <4>1. SumsOn(hu, f, u) /\ SumsOn(hv, f, v)
        BY <3>a
      <4> HIDE DEF hu, hv, v
      <4>2. hu[v] = hv[v]
        BY <3>1, <4>1, SumsAgree
      <4> QED
        BY <4>2 DEF hu, hv
    <3>3. H(u)[u] = f[One(u)] + H(u)[v]
      BY <1>4, <2>2 DEF SumsOn
    <3> QED
      BY <2>2, <3>2, <3>3
  <2> QED
    BY <2>1, <2>2
<1>8. SumsOn(g, f, t)
  <2> SUFFICES ASSUME NEW u \in SUBSET t
               PROVE  /\ g[u] \in Int
                      /\ g[u] = IF u = {} THEN 0 ELSE f[One(u)] + g[u \ {One(u)}]
    BY DEF SumsOn
  <2>1. g[u] = before(u)
    OBVIOUS
  <2>2. CASE u = {}
    BY <2>1, <2>2
  <2>3. CASE u # {}
    <3> DEFINE v == u \ {One(u)}
    <3>1. g[v] = before(v) /\ before(v) = H(v)[v]
      BY <1>5, <1>7, <2>3
    <3>2. before(u) = f[One(u)] + H(v)[v]
      BY <2>3
    <3> QED
      BY <1>6, <2>1, <2>3, <3>1, <3>2
  <2> QED
    BY <2>2, <2>3
<1>9. g \in [SUBSET t -> Int]
    BY <1>6
<1> QED
    BY <1>2, <1>8, <1>9

(* SumFunction is the sum over the whole of the domain.                     *)
LEMMA SumFunctionSums ==
    ASSUME NEW S, IsFiniteSet(S), NEW f \in [S -> Int]
    PROVE  \E g : SumsOn(g, f, S) /\ SumFunction(f) = g[S]
<1> DEFINE Adding(g, s) == IF s = {} THEN 0 ELSE f[One(s)] + g[s \ {One(s)}]
           Eqn(g) == g = [s \in SUBSET S |-> Adding(g, s)]
           sums == CHOOSE g : Eqn(g)
<1>1. SumFunction(f) = (CHOOSE g : g = [s \in SUBSET DOMAIN f |->
                          IF s = {} THEN 0 ELSE f[One(s)] + g[s \ {One(s)}]])[DOMAIN f]
    BY Zenon DEF SumFunction, SumFunctionOnSet, FoldFunctionOnSet, MapThenFoldSet, One
<1>2. SumFunction(f) = sums[S]
    BY <1>1
<1>3. PICK g \in [SUBSET S -> Int] : SumsOn(g, f, S)
    BY SumsExist
<1>4. Eqn(g)
    BY <1>3 DEF SumsOn
<1>5. Eqn(sums)
    BY <1>4
<1>6. sums = g
  <2> DEFINE B == {s \in SUBSET S : sums[s] # g[s]}
  <2>1. SUFFICES ASSUME B # {} PROVE FALSE
    <3>1. sums = [s \in SUBSET S |-> sums[s]]
      BY <1>5
    <3>2. g = [s \in SUBSET S |-> g[s]]
      OBVIOUS
    <3>3. CASE B = {}
      <4>1. \A s \in SUBSET S : sums[s] = g[s]
        BY <3>3
      <4> HIDE DEF sums, B
      <4> QED
        BY <3>1, <3>2, <4>1
    <3> QED
      BY <3>3
  <2>2. PICK t \in B : \A u \in B : u \subseteq t => u = t
    <3>1. B \subseteq SUBSET S
      OBVIOUS
    <3> HIDE DEF B
    <3> QED
      BY <2>1, <3>1, MinimalSubset
  <2> HIDE DEF sums
  <2>3. sums[t] = Adding(sums, t) /\ g[t] = Adding(g, t)
    BY <1>4, <1>5
  <2>4. t # {} => One(t) \in t
    BY DEF One
  <2>5. t # {} => sums[t \ {One(t)}] = g[t \ {One(t)}]
    BY <2>2, <2>4
  <2> QED
    BY <2>2, <2>3, <2>5
<1> QED
    BY <1>2, <1>3, <1>6

(* Any member may be added last.                                            *)
LEMMA SumsTakeAny ==
    ASSUME NEW S, IsFiniteSet(S), NEW f \in [S -> Int], NEW g, SumsOn(g, f, S),
           NEW s \in SUBSET S, NEW x \in s
    PROVE  g[s] = f[x] + g[s \ {x}]
<1> DEFINE B == {t \in SUBSET S : \E y \in t : g[t] # f[y] + g[t \ {y}]}
<1>1. SUFFICES ASSUME B # {} PROVE FALSE
    OBVIOUS
<1>2. PICK t \in B : \A u \in B : u \subseteq t => u = t
  <2>1. B \subseteq SUBSET S
    OBVIOUS
  <2> HIDE DEF B
  <2> QED
    BY <1>1, <2>1, MinimalSubset
<1>3. PICK y \in t : g[t] # f[y] + g[t \ {y}]
    BY <1>2
<1> DEFINE z == One(t)
<1>4. z \in t /\ g[t] = f[z] + g[t \ {z}]
    BY <1>2, <1>3 DEF SumsOn, One
<1> HIDE DEF z
<1>5. y # z
    BY <1>3, <1>4
<1>6. /\ t \ {z} \notin B /\ t \ {y} \notin B
      /\ t \ {z} \in SUBSET S /\ t \ {y} \in SUBSET S
    BY <1>2, <1>3, <1>4
<1> DEFINE w == (t \ {z}) \ {y}
<1>7. w = (t \ {y}) \ {z} /\ w \in SUBSET S
    BY <1>2
<1>8. g[t \ {z}] = f[y] + g[w]
    BY <1>3, <1>5, <1>6
<1>9. g[t \ {y}] = f[z] + g[w]
    BY <1>4, <1>5, <1>6, <1>7
<1>10. g[w] \in Int /\ f[y] \in Int /\ f[z] \in Int
    BY <1>2, <1>3, <1>4, <1>7 DEF SumsOn
<1> HIDE DEF w
<1> QED
    BY <1>3, <1>4, <1>8, <1>9, <1>10

(* A sum is an integer, and 0 if every value is.                            *)
LEMMA SumFunctionType ==
    ASSUME NEW S, IsFiniteSet(S), NEW f \in [S -> Int]
    PROVE  /\ SumFunction(f) \in Int
           /\ (\A x \in S : f[x] = 0) => SumFunction(f) = 0
<1>1. PICK g : SumsOn(g, f, S) /\ SumFunction(f) = g[S]
    BY SumFunctionSums
<1>2. ASSUME \A x \in S : f[x] = 0
      PROVE  g[S] = 0
  <2> DEFINE B == {t \in SUBSET S : g[t] # 0}
  <2>1. SUFFICES ASSUME B # {} PROVE FALSE
    OBVIOUS
  <2>2. PICK t \in B : \A u \in B : u \subseteq t => u = t
    <3>1. B \subseteq SUBSET S
      OBVIOUS
    <3> HIDE DEF B
    <3> QED
      BY <2>1, <3>1, MinimalSubset
  <2>3. t # {}
    BY <1>1, <2>2 DEF SumsOn
  <2>4. One(t) \in t /\ g[t] = f[One(t)] + g[t \ {One(t)}]
    BY <1>1, <2>2, <2>3 DEF SumsOn, One
  <2>5. g[t \ {One(t)}] = 0
    BY <2>2, <2>4
  <2> QED
    BY <1>2, <2>2, <2>4, <2>5
<1>3. g[S] \in Int
    BY <1>1 DEF SumsOn
<1> QED
    BY <1>1, <1>2, <1>3

(* A change of one value changes the sum by as much.                        *)
LEMMA SumFunctionUpdate ==
    ASSUME NEW S, IsFiniteSet(S), NEW f \in [S -> Int], NEW h \in [S -> Int],
           NEW x \in S, \A y \in S : y # x => h[y] = f[y]
    PROVE  SumFunction(h) - SumFunction(f) = h[x] - f[x]
<1>1. PICK g : SumsOn(g, f, S) /\ SumFunction(f) = g[S]
    BY SumFunctionSums
<1>2. PICK k : SumsOn(k, h, S) /\ SumFunction(h) = k[S]
    BY SumFunctionSums
<1> DEFINE B == {t \in SUBSET (S \ {x}) : g[t] # k[t]}
<1>3. B = {}
  <2>1. SUFFICES ASSUME B # {} PROVE FALSE
    OBVIOUS
  <2>2. PICK t \in B : \A u \in B : u \subseteq t => u = t
    <3>1. B \subseteq SUBSET S
      OBVIOUS
    <3> HIDE DEF B
    <3> QED
      BY <2>1, <3>1, MinimalSubset
  <2>3. t # {} /\ t \in SUBSET S
    BY <1>1, <1>2, <2>2 DEF SumsOn
  <2>4. /\ One(t) \in t /\ g[t] = f[One(t)] + g[t \ {One(t)}]
        /\ k[t] = h[One(t)] + k[t \ {One(t)}]
    BY <1>1, <1>2, <2>3 DEF SumsOn, One
  <2>5. g[t \ {One(t)}] = k[t \ {One(t)}]
    BY <2>2, <2>4
  <2>6. h[One(t)] = f[One(t)]
    BY <2>2, <2>4
  <2> QED
    BY <2>2, <2>4, <2>5, <2>6
<1>4. g[S \ {x}] = k[S \ {x}]
    BY <1>3
<1>5. g[S] = f[x] + g[S \ {x}] /\ k[S] = h[x] + k[S \ {x}]
  <2>1. S \in SUBSET S
    OBVIOUS
  <2>2. g[S] = f[x] + g[S \ {x}]
    BY <1>1, <2>1, SumsTakeAny
  <2>3. k[S] = h[x] + k[S \ {x}]
    BY <1>2, <2>1, SumsTakeAny
  <2> QED
    BY <2>2, <2>3
<1>6. g[S \ {x}] \in Int
    BY <1>1 DEF SumsOn
<1> QED
    BY <1>1, <1>2, <1>4, <1>5, <1>6
=============================================================================
