--------------------------- MODULE StateSyncProofs ---------------------------
(***************************************************************************)
(* StateSync implements Activation, for every set of reals.                 *)
(***************************************************************************)
EXTENDS StateSync, TLAPS

(* Type correctness.                                                        *)
LEMMA TypeStep == TypeOK /\ [Next]_vars => TypeOK'
  <1> SUFFICES ASSUME TypeOK, [Next]_vars PROVE TypeOK'
    OBVIOUS
  <1> USE DEF TypeOK
  <1>1. ASSUME NEW reply \in {lb, Failed}, GetState(reply) PROVE TypeOK'
    BY <1>1 DEF GetState, stopVars
  <1>2. CASE Update
    <2>1. Notification \in [RealKeys -> {"none", "subscribe", "select", "notified", "gone"}]
      BY DEF Notification
    <2>2. known' \in SUBSET RealKeys /\ reported' \in SUBSET RealKeys
      BY <1>2 DEF Update
    <2> QED
      BY <1>2, <2>1, <2>2 DEF Update, stopVars
  <1>3. CASE SkipUpdate
    BY <1>3 DEF SkipUpdate, stopVars
  <1>4. CASE StaterExit
    BY <1>4 DEF StaterExit, stopVars
  <1>5. CASE BalancerStop
    BY <1>5 DEF BalancerStop, staterVars
  <1>6. ASSUME NEW r \in RealKeys, RunNext(r) PROVE TypeOK'
    <2>1. CASE LookupSubscription(r)
      BY <2>1 DEF LookupSubscription, Return, staterVars, stopVars
    <2>2. CASE Activated(r)
      BY <2>2 DEF Activated, Return, staterVars, stopVars
    <2>3. CASE Refused(r)
      BY <2>3 DEF Refused, Return, staterVars, stopVars
    <2> QED
      BY <1>6, <2>1, <2>2, <2>3 DEF RunNext
  <1>7. ASSUME NEW r \in RealKeys, WatcherNext(r) PROVE TypeOK'
    <2>1. CASE Subscribe(r)
      BY <2>1 DEF Subscribe, staterVars, stopVars
    <2>2. CASE Lookup(r)
      BY <2>2 DEF Lookup, staterVars, stopVars
    <2>3. CASE WatcherExit(r)
      BY <2>3 DEF WatcherExit, staterVars, stopVars
    <2> QED
      BY <1>7, <2>1, <2>2, <2>3 DEF WatcherNext
  <1>8. ASSUME NEW r \in RealKeys, Cancel(r) PROVE TypeOK'
    BY <1>8 DEF Cancel, staterVars, stopVars
  <1>9. ASSUME NEW r \in RealKeys, Reconfigure(r) PROVE TypeOK'
    BY <1>9 DEF Reconfigure, stopVars
  <1>10. ASSUME NEW r \in RealKeys, Stop(r) PROVE TypeOK'
    BY <1>10 DEF Stop, staterVars
  <1>11. CASE UNCHANGED vars
    BY <1>11 DEF vars, staterVars, stopVars
  <1> QED
    BY <1>1, <1>2, <1>3, <1>4, <1>5, <1>6, <1>7, <1>8, <1>9, <1>10, <1>11
       DEF Next, StaterNext

(* The subscriptions keep telling the truth.  Only LookupSubscription,      *)
(* Lookup, WatcherExit, Cancel and the ends of the activation disturb them. *)
LEMMA SyncStep == SyncInv /\ [Next]_vars => SyncInv'
  <1> SUFFICES ASSUME SyncInv, [Next]_vars PROVE SyncInv'
    OBVIOUS
  <1>0. TypeOK /\ TypeOK'
    BY TypeStep DEF SyncInv
  <1> USE <1>0
  <1>1. ASSUME NEW reply \in {lb, Failed}, GetState(reply) PROVE SyncInv'
    BY <1>1 DEF GetState, SyncInv, SubscriptionInv, stopVars
  <1>2. CASE Update
    BY <1>2 DEF Update, SyncInv, SubscriptionInv, stopVars
  <1>3. CASE SkipUpdate
    BY <1>3 DEF SkipUpdate, SyncInv, SubscriptionInv, stopVars
  <1>4. CASE StaterExit
    BY <1>4 DEF StaterExit, SyncInv, SubscriptionInv, stopVars
  <1>5. CASE BalancerStop
    BY <1>5 DEF BalancerStop, SyncInv, SubscriptionInv, staterVars
  <1>6. ASSUME NEW r \in RealKeys, RunNext(r) PROVE SyncInv'
    <2>1. CASE LookupSubscription(r)
      BY <2>1 DEF LookupSubscription, Return, SyncInv, SubscriptionInv, TypeOK,
                  staterVars, stopVars
    <2>2. CASE Activated(r)
      BY <2>2 DEF Activated, Return, SyncInv, SubscriptionInv, TypeOK,
                  staterVars, stopVars
    <2>3. CASE Refused(r)
      BY <2>3 DEF Refused, Return, SyncInv, SubscriptionInv, TypeOK,
                  staterVars, stopVars
    <2> QED
      BY <1>6, <2>1, <2>2, <2>3 DEF RunNext
  <1>7. ASSUME NEW r \in RealKeys, WatcherNext(r) PROVE SyncInv'
    <2>1. CASE Subscribe(r)
      BY <2>1 DEF Subscribe, SyncInv, SubscriptionInv, staterVars, stopVars
    <2>2. CASE Lookup(r)
      BY <2>2 DEF Lookup, SyncInv, SubscriptionInv, TypeOK, staterVars, stopVars
    <2>3. CASE WatcherExit(r)
      BY <2>3 DEF WatcherExit, SyncInv, SubscriptionInv, TypeOK, staterVars, stopVars
    <2> QED
      BY <1>7, <2>1, <2>2, <2>3 DEF WatcherNext
  <1>8. ASSUME NEW r \in RealKeys, Cancel(r) PROVE SyncInv'
    BY <1>8 DEF Cancel, SyncInv, SubscriptionInv, staterVars, stopVars
  <1>9. ASSUME NEW r \in RealKeys, Reconfigure(r) PROVE SyncInv'
    BY <1>9 DEF Reconfigure, SyncInv, SubscriptionInv, stopVars
  <1>10. ASSUME NEW r \in RealKeys, Stop(r) PROVE SyncInv'
    BY <1>10 DEF Stop, SyncInv, SubscriptionInv, staterVars, TypeOK
  <1>11. CASE UNCHANGED vars
    BY <1>11 DEF vars, SyncInv, SubscriptionInv, staterVars, stopVars
  <1> QED
    BY <1>1, <1>2, <1>3, <1>4, <1>5, <1>6, <1>7, <1>8, <1>9, <1>10, <1>11
       DEF Next, StaterNext

(* A real finds in its subscription only what is true, whatever the poller, *)
(* the watchers and Stop do in between (balancer.go, LookupSubscription).   *)
THEOREM SyncTheorem == Spec => []SyncInv
  <1>1. Init => SyncInv
    BY DEF Init, SyncInv, TypeOK, SubscriptionInv
  <1> QED
    BY <1>1, SyncStep, PTL DEF Spec

-----------------------------------------------------------------------------
(* The goroutine of Run moves on, seen from Activation.                     *)
LEMMA PhaseMoves ==
    ASSUME TypeOK, NEW r \in RealKeys, NEW result \in {"active", "refused"},
           run[r] \in {"start", "waiting"}, run' = [run EXCEPT ![r] = result]
    PROVE  Phase[r] = "waiting" /\ Phase' = [Phase EXCEPT ![r] = result]
  BY DEF Phase, TypeOK

(* The phases change only with run.                                         *)
LEMMA PhaseStays ==
    ASSUME UNCHANGED run
    PROVE  Phase' = Phase
  BY DEF Phase

(* A step of StateSync is a step of Activation, or none.                    *)
LEMMA ActivationStep ==
    SyncInv /\ [Next]_vars => [A!Next]_(A!vars)
  <1> SUFFICES ASSUME SyncInv, [Next]_vars PROVE [A!Next]_(A!vars)
    OBVIOUS
  <1>0. TypeOK
    BY DEF SyncInv
  <1>1. ASSUME NEW r \in RealKeys, RunNext(r) PROVE [A!Next]_(A!vars)
    <2>1. CASE LookupSubscription(r)
      <3>1. CASE r \in known
        <4>1. run' = [run EXCEPT ![r] = "active"] /\ run[r] = "start"
          BY <2>1, <3>1 DEF LookupSubscription, Return
        <4>2. r \in reported
          BY <3>1 DEF SyncInv
        <4>3. UNCHANGED <<reported, stopped>>
          BY <2>1 DEF LookupSubscription, staterVars, stopVars
        <4>4. A!Activate(r)
          BY <4>1, <4>2, <4>3, <1>0, PhaseMoves DEF A!Activate
        <4> QED
          BY <4>4 DEF A!Next
      <3>2. CASE r \notin known
        <4>1. Phase' = Phase
          BY <2>1, <3>2, <1>0 DEF LookupSubscription, Phase, TypeOK
        <4> QED
          BY <4>1, <2>1 DEF LookupSubscription, staterVars, stopVars, A!vars
      <3> QED
        BY <3>1, <3>2
    <2>2. CASE Activated(r)
      <3>1. run' = [run EXCEPT ![r] = "active"] /\ run[r] = "waiting"
        BY <2>2 DEF Activated, Return
      <3>2. r \in reported
        BY <2>2 DEF Activated, Received, SyncInv, SubscriptionInv
      <3>3. UNCHANGED <<reported, stopped>>
        BY <2>2 DEF Activated, staterVars, stopVars
      <3>4. A!Activate(r)
        BY <3>1, <3>2, <3>3, <1>0, PhaseMoves DEF A!Activate
      <3> QED
        BY <3>4 DEF A!Next
    <2>3. CASE Refused(r)
      <3>1. run' = [run EXCEPT ![r] = "refused"] /\ run[r] = "waiting"
        BY <2>3 DEF Refused, Return
      <3>2. r \in stopped
        BY <2>3 DEF Refused, SyncInv, SubscriptionInv
      <3>3. UNCHANGED <<reported, stopped>>
        BY <2>3 DEF Refused, staterVars, stopVars
      <3>4. A!Refuse(r)
        BY <3>1, <3>2, <3>3, <1>0, PhaseMoves DEF A!Refuse
      <3> QED
        BY <3>4 DEF A!Next
    <2> QED
      BY <1>1, <2>1, <2>2, <2>3 DEF RunNext
  <1>2. CASE Update
    <2>1. reported' \in {S \in SUBSET RealKeys : reported \subseteq S}
      BY <1>2, <1>0 DEF Update, TypeOK
    <2>2. Phase' = Phase /\ stopped' = stopped
      BY <1>2, PhaseStays DEF Update, stopVars
    <2> QED
      BY <2>1, <2>2 DEF A!Next, A!Report
  <1>3. ASSUME NEW r \in RealKeys, Stop(r) PROVE [A!Next]_(A!vars)
    <2>1. Phase' = Phase /\ reported' = reported /\ stopped' = stopped \cup {r}
      BY <1>3, PhaseStays DEF Stop, staterVars
    <2> QED
      BY <2>1 DEF A!Next, A!Stop
  <1>4. ASSUME UNCHANGED <<run, reported, stopped>> PROVE [A!Next]_(A!vars)
    BY <1>4, PhaseStays DEF A!vars
  <1>5. ASSUME NEW reply \in {lb, Failed}, GetState(reply)
        PROVE  UNCHANGED <<run, reported, stopped>>
    BY <1>5 DEF GetState, stopVars
  <1>6. CASE SkipUpdate \/ StaterExit \/ BalancerStop \/ UNCHANGED vars
    <2>1. UNCHANGED <<run, reported, stopped>>
      BY <1>6 DEF SkipUpdate, StaterExit, BalancerStop, vars, staterVars, stopVars
    <2> QED
      BY <2>1, <1>4
  <1>7. ASSUME NEW r \in RealKeys, WatcherNext(r) \/ Cancel(r) \/ Reconfigure(r)
        PROVE  UNCHANGED <<run, reported, stopped>>
    BY <1>7 DEF WatcherNext, Subscribe, Lookup, WatcherExit, Cancel, Reconfigure,
                staterVars, stopVars
  <1> QED
    BY <1>1, <1>2, <1>3, <1>4, <1>5, <1>6, <1>7 DEF Next, StaterNext

(* A real is activated only after the load balancer reported it, and gives  *)
(* up only when it is stopped.                                              *)
THEOREM Implementation == Spec => ImplementsActivation
  <1>1. Init => A!Init
    BY DEF Init, A!Init, Phase
  <1> QED
    BY <1>1, SyncTheorem, ActivationStep, PTL DEF Spec, ImplementsActivation, A!Spec
=============================================================================
