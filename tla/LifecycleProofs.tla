-------------------------- MODULE LifecycleProofs --------------------------
(* Theorems about Lifecycle, for every set of keys, service objects,        *)
(* requests, settings and configurations with distinct keys.                *)
EXTENDS Lifecycle, TLAPS

Item == [key : Key, version : Version]

(* What a request reads as the configuration is a sequence of items.        *)
LEMMA FileType ==
    ASSUME NEW f \in Files \cup {<<>>}
    PROVE  f \in Seq(Item) /\ Len(f) \in Nat /\ DOMAIN f = 1..Len(f)
<1>1. Files \subseteq Seq(Item)
    BY LifecycleAssumption DEF Item
<1> HIDE DEF Item
<1>2. <<>> \in Seq(Item)
    OBVIOUS
<1>3. f \in Seq(Item)
    BY <1>1, <1>2
<1> QED
    BY <1>3

(* The entries of a file.                                                   *)
LEMMA FileItem ==
    ASSUME NEW f \in Files \cup {<<>>}, NEW i \in DOMAIN f
    PROVE  f[i].key \in Key /\ f[i].version \in Version
<1>1. f[i] \in Item
    BY FileType
<1> QED
    BY <1>1 DEF Item

(* What a request has loaded.                                               *)
LEMMA ConfigType ==
    ASSUME TypeOK, NEW r \in Request
    PROVE  /\ config[r] \in Seq(Item) /\ Len(config[r]) \in Nat
           /\ DOMAIN config[r] = 1..Len(config[r])
           /\ done[r] \in Nat /\ done[r] <= Len(config[r])
BY FileType DEF TypeOK

(* The entry a reload deals with next.                                      *)
LEMMA EntryType ==
    ASSUME TypeOK, NEW r \in Request, done[r] # Len(config[r])
    PROVE  /\ Entry(r).key \in Key /\ Entry(r).version \in Version
           /\ done[r] + 1 \in DOMAIN config[r] /\ Entry(r) = config[r][done[r] + 1]
           /\ done[r] + 1 \in 0..Len(config[r])
<1>1. /\ config[r] \in Seq(Item) /\ Len(config[r]) \in Nat
      /\ DOMAIN config[r] = 1..Len(config[r])
      /\ done[r] \in Nat /\ done[r] <= Len(config[r])
    BY ConfigType
<1>2. done[r] + 1 \in 1..Len(config[r])
    BY <1>1
<1>3. config[r][done[r] + 1] \in Item
    BY <1>1, <1>2
<1> QED
    BY <1>1, <1>2, <1>3 DEF Entry, Item

(* Nobody else has a request's name.                                        *)
LEMMA Names ==
    /\ NoChild \notin Child /\ Free # Stopper
    /\ \A r \in Request : r # Free /\ r # Stopper
    /\ Main \in Request
    /\ AnyKey \in Key /\ AnyVersion \in Version
<1>1. AnyKey \in Key /\ AnyVersion \in Version
    BY LifecycleAssumption DEF AnyKey, AnyVersion
<1> QED
    BY <1>1, LifecycleAssumption DEF Request

-----------------------------------------------------------------------------
(* Steps of requests that do not have servicesMu.                           *)
LEMMA OutsideKeeps ==
    ASSUME LifeInv, NEW r \in Request, ~Busy(r),
           NEW x \in {"idle", "load", "lock", "done"}, NEW f \in Files \cup {<<>>},
           pc' = [pc EXCEPT ![r] = x], config' = [config EXCEPT ![r] = f], done' = done,
           UNCHANGED <<mu, services, newServices, serviceVars, poolVars, stopVars,
                       applied, raced>>
    PROVE  LifeInv'
<1> USE DEF serviceVars, poolVars, stopVars
<1>1. TypeOK /\ done[r] = 0 /\ mu # r
    BY DEF LifeInv, MutexInv
<1>2. /\ \A q \in Request : q # r => pc'[q] = pc[q] /\ config'[q] = config[q]
      /\ pc'[r] = x /\ config'[r] = f
    BY <1>1 DEF TypeOK
<1>3. /\ \A q \in Request : Busy(q)' <=> Busy(q)
      /\ \A q \in Request : pc'[q] = "send" <=> pc[q] = "send"
    BY <1>2 DEF Busy
<1>4. \A q \in Request : Busy(q) => /\ Dealt(q)' = Dealt(q) /\ Entry(q)' = Entry(q)
                                    /\ pc'[q] = pc[q] /\ config'[q] = config[q]
    BY <1>2 DEF Dealt, Entry
<1>5. Len(f) \in Nat
    BY FileType
<1>6. TypeOK'
  <2>1. \A q \in Request : done'[q] <= Len(config'[q])
    BY <1>1, <1>2, <1>5 DEF TypeOK
  <2> QED
    BY <2>1 DEF LifeInv, TypeOK
<1>7. MutexInv'
    BY <1>2, <1>3, <1>4 DEF LifeInv, MutexInv, Busy
<1>8. MapsInv'
    BY <1>1, <1>3, <1>4 DEF LifeInv, MapsInv, MutexInv, Live
<1>9. BirthInv'
    BY <1>3, <1>4 DEF LifeInv, BirthInv, Busy
<1>10. UnracedInv'
    BY <1>3, <1>4 DEF LifeInv, UnracedInv, HoldsApplied
<1> QED
    BY <1>3, <1>6, <1>7, <1>8, <1>9, <1>10
       DEF LifeInv, LiveInMap, OneServicePerKey, NoSendOnClosed, Live

(* Return leaves a request that was not busy as the lemma above has it.     *)
LEMMA ReturnOutside ==
    ASSUME LifeInv, NEW r \in Request, ~Busy(r), Return(r)
    PROVE  /\ done' = done
           /\ \E x \in {"idle", "load", "lock", "done"} : pc' = [pc EXCEPT ![r] = x]
           /\ config' = [config EXCEPT ![r] = <<>>]
<1>1. done[r] = 0 /\ done \in [Request -> Nat]
    BY DEF LifeInv, MutexInv, TypeOK
<1> QED
    BY <1>1 DEF Return

(* A request comes.                                                         *)
LEMMA AcceptKeeps ==
    ASSUME LifeInv, NEW r \in Rpc, Accept(r)
    PROVE  LifeInv'
<1>1. r \in Request /\ ~Busy(r)
    BY DEF Request, Accept, Busy
<1>2. config[r] \in Files \cup {<<>>} /\ config = [config EXCEPT ![r] = config[r]]
    BY <1>1 DEF LifeInv, TypeOK
<1> QED
    BY <1>1, <1>2, OutsideKeeps DEF Accept

(* A request loads the file.                                                *)
LEMMA LoadKeeps ==
    ASSUME LifeInv, NEW r \in Request, Load(r)
    PROVE  LifeInv'
<1>1. ~Busy(r)
    BY DEF Load, Busy
<1> QED
    BY <1>1, OutsideKeeps, ReturnOutside DEF Load

(* A request takes the core's lock.                                         *)
LEMMA LockKeeps ==
    ASSUME LifeInv, NEW r \in Request, Lock(r)
    PROVE  LifeInv'
<1>0. ~Busy(r) /\ mu = Free /\ TypeOK /\ done[r] = 0
    BY DEF Lock, Busy, LifeInv, MutexInv
<1>1. CASE Return(r) /\ UNCHANGED mu
    BY <1>0, <1>1, OutsideKeeps, ReturnOutside DEF Lock
<1>2. CASE mu' = r /\ pc' = [pc EXCEPT ![r] = "entry"] /\ UNCHANGED <<config, done>>
  <2> USE DEF serviceVars, poolVars, stopVars
  <2>0. UNCHANGED <<config, done, services, newServices, serviceVars, poolVars, stopVars,
                    applied, raced>>
    BY <1>2 DEF Lock
  <2>1. /\ pc'[r] = "entry" /\ \A q \in Request : q # r => pc'[q] = pc[q] /\ ~Busy(q)
        /\ stopPc \notin {"services", "hung", "wait"}
    BY <1>0, <1>2, Names DEF LifeInv, TypeOK, MutexInv
  <2>2. \A q \in Request : (Busy(q)' <=> q = r) /\ (pc'[q] = "send" => FALSE)
    BY <2>1 DEF Busy
  <2>3. newServices = NoServices /\ \A k \in Key : newServices[k] = NoChild
    BY <1>0, Names DEF LifeInv, TypeOK, MapsInv, NoServices
  <2>4. Dealt(r)' = {}
    BY <1>0, <2>0, <2>1, ConfigType DEF Dealt
  <2>5. TypeOK'
    BY <1>2, <2>0 DEF LifeInv, TypeOK
  <2>6. MutexInv'
    BY <1>2, <2>0, <2>1, <2>2, Names DEF LifeInv, MutexInv
  <2>7. MapsInv'
    BY <2>0, <2>3 DEF LifeInv, MapsInv
  <2>8. BirthInv'
    BY <2>0, <2>2 DEF LifeInv, BirthInv
  <2>9. UnracedInv'
    BY <1>0, <2>0, <2>1, <2>2, <2>3, <2>4 DEF LifeInv, UnracedInv, HoldsApplied
  <2> QED
    BY <2>0, <2>2, <2>5, <2>6, <2>7, <2>8, <2>9
       DEF LifeInv, LiveInMap, OneServicePerKey, NoSendOnClosed, Live
<1> QED
    BY <1>1, <1>2 DEF Lock

-----------------------------------------------------------------------------
(* Core.Stop and the pool.                                                  *)
LEMMA PoolKeeps ==
    ASSUME LifeInv, PoolStart \/ PoolEnd
    PROVE  LifeInv'
<1>1. /\ UNCHANGED <<pc, config, done, mu, services, newServices, keyOf, version, snapshot,
                     run, initial, reals, stopped, open, shutdown, stopPc, applied, raced>>
      /\ poolRun' \in {"receive", "stuck", "ended"}
    BY DEF PoolStart, PoolEnd, requestVars, serviceVars, stopVars
<1>2. TypeOK'
    BY <1>1 DEF LifeInv, TypeOK
<1> QED
    BY <1>1, <1>2 DEF LifeInv, MutexInv, Busy, MapsInv, Live, Dealt, BirthInv, Entry,
       LiveInMap, UnracedInv, HoldsApplied, OneServicePerKey, NoSendOnClosed

(* The shutdown is signalled.                                               *)
LEMMA StopSignalKeeps ==
    ASSUME LifeInv, StopSignal
    PROVE  LifeInv'
<1>1. /\ UNCHANGED <<pc, config, done, mu, services, newServices, keyOf, version, snapshot,
                     run, initial, reals, stopped, open, poolRun, applied>>
      /\ stopPc = "none" /\ stopPc' = "lock" /\ shutdown' = TRUE
      /\ raced' \in BOOLEAN /\ (~raced' => ~raced /\ mu = Free)
    BY DEF StopSignal, requestVars, serviceVars, poolVars, LifeInv, TypeOK
<1>2. ~shutdown /\ open
    BY <1>1 DEF LifeInv, MutexInv, TypeOK
<1>3. mu = Free => newServices = NoServices /\ \A r \in Request : ~Busy(r)
    BY Names DEF LifeInv, MapsInv, MutexInv, TypeOK, NoServices
<1>4. TypeOK'
    BY <1>1 DEF LifeInv, TypeOK
<1>5. MutexInv'
    BY <1>1, <1>2 DEF LifeInv, MutexInv, Busy
<1>6. MapsInv' /\ BirthInv'
    BY <1>1 DEF LifeInv, MapsInv, BirthInv, Live, Dealt, Entry
<1>7. UnracedInv'
    BY <1>1, <1>3 DEF LifeInv, UnracedInv, HoldsApplied, Busy, Dealt
<1> QED
    BY <1>1, <1>2, <1>4, <1>5, <1>6, <1>7
       DEF LifeInv, LiveInMap, OneServicePerKey, NoSendOnClosed, Live

(* Core.Stop takes the core's lock.                                         *)
LEMMA StopMutexKeeps ==
    ASSUME LifeInv, StopLock \/ StopEnd
    PROVE  LifeInv'
<1>1. /\ UNCHANGED <<pc, config, done, services, newServices, keyOf, version, snapshot,
                     run, initial, reals, stopped, open, poolRun, shutdown, applied, raced>>
      /\ \/ mu = Free /\ mu' = Stopper /\ stopPc = "lock" /\ stopPc' = "services"
         \/ mu' = Free /\ stopPc = "wait" /\ stopPc' = "ended"
    BY DEF StopLock, StopEnd, requestVars, serviceVars, poolVars
<1>2. mu \in {Free, Stopper} /\ \A r \in Request : ~Busy(r)
    BY <1>1, Names DEF LifeInv, MutexInv
<1>3. TypeOK'
    BY <1>1 DEF LifeInv, TypeOK
<1>4. MutexInv'
    BY <1>1, <1>2, Names DEF LifeInv, MutexInv, Busy
<1>5. MapsInv'
    BY <1>1, <1>2, Names DEF LifeInv, MapsInv, Live
<1>6. BirthInv' /\ UnracedInv'
    BY <1>1 DEF LifeInv, BirthInv, UnracedInv, HoldsApplied, Busy, Dealt, Entry
<1> QED
    BY <1>1, <1>3, <1>4, <1>5, <1>6
       DEF LifeInv, LiveInMap, OneServicePerKey, NoSendOnClosed, Live

(* The pool is closed.                                                      *)
LEMMA ClosePoolKeeps ==
    ASSUME LifeInv, ClosePool
    PROVE  LifeInv'
<1>1. /\ UNCHANGED <<pc, config, done, mu, services, newServices, keyOf, version, snapshot,
                     run, initial, reals, stopped, poolRun, shutdown, applied, raced>>
      /\ open' = FALSE /\ stopPc = "services" /\ stopPc' = "wait" /\ Unstopped = {}
      /\ \A r \in Request : pc[r] # "send"
    BY DEF ClosePool, requestVars, serviceVars
<1>2. mu = Stopper /\ \A k \in Key : newServices[k] = NoChild
    BY <1>1, Names DEF LifeInv, MutexInv, MapsInv
<1>3. ~raced => \A c \in Child : ~Live(c)
  <2> SUFFICES ASSUME ~raced, NEW c \in Child, Live(c) PROVE FALSE
    OBVIOUS
  <2>1. keyOf[c] \in Key /\ services[keyOf[c]] = c
    BY <1>2, Names DEF LifeInv, LiveInMap, TypeOK
  <2> QED
    BY <1>1, <2>1, Names DEF Unstopped, Live
<1>4. TypeOK'
    BY <1>1 DEF LifeInv, TypeOK
<1>5. MutexInv'
    BY <1>1 DEF LifeInv, MutexInv, Busy
<1>6. MapsInv' /\ BirthInv'
    BY <1>1 DEF LifeInv, MapsInv, BirthInv, Live, Dealt, Entry
<1>7. UnracedInv'
    BY <1>1 DEF LifeInv, UnracedInv, HoldsApplied, Busy, Dealt
<1> QED
    BY <1>1, <1>3, <1>4, <1>5, <1>6, <1>7
       DEF LifeInv, LiveInMap, OneServicePerKey, NoSendOnClosed, Live

(* The services of the map are stopped.                                     *)
LEMMA StopServicesKeeps ==
    ASSUME LifeInv, StopServices
    PROVE  LifeInv'
<1>1. PICK c \in Unstopped, returns \in BOOLEAN :
         /\ StopService(c, returns)
         /\ stopPc' = IF returns THEN stopPc ELSE "hung"
    BY DEF StopServices
<1>2. /\ UNCHANGED <<pc, config, done, mu, services, newServices, keyOf, version, snapshot,
                     initial, open, poolRun, shutdown, applied>>
      /\ stopPc = "services" /\ stopPc' \in {"services", "hung"}
    BY <1>1 DEF StopServices, requestVars, poolVars
<1>3. PICK k \in Key : services[k] = c /\ c \in Child
    BY Names DEF Unstopped, LifeInv, TypeOK
<1>4. mu = Stopper /\ shutdown /\ \A r \in Request : ~Busy(r)
    BY <1>2, Names DEF LifeInv, MutexInv
<1>5. \A j \in Key : newServices[j] = NoChild
    BY <1>4, Names DEF LifeInv, MapsInv
<1>6. /\ run[c] # "unused" /\ run'[c] \in {run[c], "ended"}
      /\ \A d \in Child : d # c => run'[d] = run[d] /\ stopped'[d] = stopped[d]
      /\ stopped'[c] = TRUE /\ run' \in [Child -> {"unused", "created", "received", "spawned", "loop", "stuck", "ended"}]
      /\ stopped' \in [Child -> BOOLEAN]
      /\ reals' \in [Child -> {"settled", "starting", "stuck"}]
    BY <1>1, <1>3, Names DEF StopService, LifeInv, MapsInv, TypeOK
<1>7. raced' \in BOOLEAN /\ (~raced' => ~raced)
    BY <1>1 DEF StopService
<1>8. \A d \in Child : Live(d)' => Live(d)
    BY <1>6 DEF Live
<1>9. TypeOK'
    BY <1>2, <1>6, <1>7 DEF LifeInv, TypeOK
<1>10. MutexInv'
    BY <1>2, <1>4 DEF LifeInv, MutexInv, Busy
<1>11. MapsInv'
  <2>1. \A j \in Key : services[j] # NoChild => services[j] \in Child /\ run'[services[j]] # "unused"
    BY <1>6 DEF LifeInv, MapsInv, TypeOK
  <2> QED
    BY <1>2, <1>4, <1>5, <2>1 DEF LifeInv, MapsInv
<1>12. BirthInv'
    BY <1>2, <1>4, <1>6 DEF LifeInv, BirthInv, Busy
<1>13. UnracedInv'
    BY <1>2, <1>7 DEF LifeInv, UnracedInv, HoldsApplied, Busy, Dealt
<1> QED
    BY <1>2, <1>7, <1>8, <1>9, <1>10, <1>11, <1>12, <1>13
       DEF LifeInv, LiveInMap, OneServicePerKey, NoSendOnClosed

-----------------------------------------------------------------------------
(* The service objects themselves.  A step of one that changes neither its  *)
(* key nor whether it is live, nor its settings unless there was a race.    *)
LEMMA ServiceKeeps ==
    ASSUME LifeInv, TypeOK',
           UNCHANGED <<requestVars, mu, services, newServices, keyOf, open, stopVars,
                       applied, raced>>,
           \A c \in Child : /\ Live(c)' <=> Live(c)
                            /\ run'[c] = "unused" <=> run[c] = "unused"
                            /\ run'[c] = "created" <=> run[c] = "created"
                            /\ stopped'[c] = stopped[c]
                            /\ run'[c] \in {"unused", "created", "received", "spawned"}
                                  => initial'[c] = "none"
                            /\ ~raced => /\ version'[c] = version[c]
                                         /\ initial'[c] \in {"queued", "filling"}
                                              => snapshot'[c] = version[c]
    PROVE  LifeInv'
<1> USE DEF requestVars, stopVars
<1>0. \A k \in Key : /\ services[k] # NoChild => services[k] \in Child
                     /\ newServices[k] # NoChild => newServices[k] \in Child
    BY DEF LifeInv, TypeOK
<1>1. MutexInv'
    BY DEF LifeInv, MutexInv, Busy
<1>2. MapsInv'
    BY <1>0 DEF LifeInv, MapsInv, Dealt
<1>3. BirthInv'
  <2>1. \A r \in Request : pc[r] = "send" => Entry(r).key \in Key
    BY EntryType DEF LifeInv, MutexInv
  <2> QED
    BY <1>0, <2>1 DEF LifeInv, BirthInv, Entry
<1>4. UnracedInv'
  <2> SUFFICES ASSUME ~raced PROVE UnracedInv'
    BY DEF UnracedInv
  <2>1. ASSUME NEW r \in Request, Busy(r), NEW i \in Dealt(r)
        PROVE  /\ newServices[config[r][i].key] # NoChild
               /\ version'[newServices[config[r][i].key]] = config[r][i].version
    <3>1. config[r][i] \in Item
      BY <2>1, ConfigType DEF Dealt, LifeInv
    <3> QED
      BY <1>0, <2>1, <3>1 DEF LifeInv, UnracedInv, Item
  <2>2. HoldsApplied => HoldsApplied'
    <3>1. ASSUME HoldsApplied, NEW i \in DOMAIN applied
          PROVE  version'[services[applied[i].key]] = applied[i].version
      <4>1. applied[i].key \in Key
        BY <3>1, FileItem DEF LifeInv, TypeOK
      <4>2. services[applied[i].key] # NoChild
        BY <3>1, <4>1 DEF HoldsApplied, Keys
      <4> QED
        BY <1>0, <3>1, <4>1, <4>2 DEF HoldsApplied
    <3> QED
      BY <3>1 DEF HoldsApplied
  <2> QED
    BY <2>1, <2>2 DEF LifeInv, UnracedInv, Busy, Dealt
<1> QED
    BY <1>1, <1>2, <1>3, <1>4
       DEF LifeInv, LiveInMap, OneServicePerKey, NoSendOnClosed

(* The pool counts a service, or a service goes on.                         *)
LEMMA ServiceNextKeeps ==
    ASSUME LifeInv, PoolCount \/ \E c \in Child : ServiceNext(c) \/ RealStarts(c)
    PROVE  LifeInv'
<1> USE DEF requestVars, serviceVars, poolVars, stopVars
<1>0. TypeOK /\ BirthInv
    BY DEF LifeInv
<1> DEFINE Kept(d) ==
      /\ Live(d)' <=> Live(d)
      /\ run'[d] = "unused" <=> run[d] = "unused"
      /\ run'[d] = "created" <=> run[d] = "created"
      /\ stopped'[d] = stopped[d]
      /\ run'[d] \in {"unused", "created", "received", "spawned"} => initial'[d] = "none"
      /\ ~raced => /\ version'[d] = version[d]
                   /\ initial'[d] \in {"queued", "filling"} => snapshot'[d] = version[d]
<1>1. CASE PoolCount
  <2>1. TypeOK'
    BY <1>0, <1>1 DEF PoolCount, TypeOK
  <2>2. ASSUME NEW d \in Child PROVE Kept(d)
    BY <1>0, <1>1, <2>2 DEF PoolCount, TypeOK, BirthInv, Live, LifeInv, UnracedInv
  <2> QED
    BY <1>1, <2>1, <2>2, ServiceKeeps DEF PoolCount
<1>2. ASSUME NEW c \in Child, ServiceRun(c) PROVE LifeInv'
  <2>1. TypeOK'
    BY <1>0, <1>2 DEF ServiceRun, TypeOK
  <2>2. ASSUME NEW d \in Child PROVE Kept(d)
    BY <1>0, <1>2, <2>2 DEF ServiceRun, TypeOK, BirthInv, Live, LifeInv, UnracedInv
  <2> QED
    BY <1>2, <2>1, <2>2, ServiceKeeps DEF ServiceRun
<1>3. ASSUME NEW c \in Child, InitialStart(c) PROVE LifeInv'
  <2>1. TypeOK'
    BY <1>0, <1>3 DEF InitialStart, TypeOK
  <2>2. ASSUME NEW d \in Child PROVE Kept(d)
    BY <1>0, <1>3, <2>2 DEF InitialStart, TypeOK, BirthInv, Live, LifeInv, UnracedInv
  <2> QED
    BY <1>3, <2>1, <2>2, ServiceKeeps DEF InitialStart
<1>4. ASSUME NEW c \in Child, InitialEnd(c) PROVE LifeInv'
  <2>1. TypeOK'
    BY <1>0, <1>4, Names DEF InitialEnd, AfterReload, TypeOK
  <2>2. ASSUME NEW d \in Child PROVE Kept(d)
    BY <1>0, <1>4, <2>2 DEF InitialEnd, TypeOK, BirthInv, Live, LifeInv, UnracedInv
  <2> QED
    BY <1>4, <2>1, <2>2, ServiceKeeps DEF InitialEnd
<1>5. ASSUME NEW c \in Child, InitialHangs(c) PROVE LifeInv'
  <2>1. TypeOK'
    BY <1>0, <1>5 DEF InitialHangs, TypeOK
  <2>2. ASSUME NEW d \in Child PROVE Kept(d)
    BY <1>0, <1>5, <2>2 DEF InitialHangs, TypeOK, BirthInv, Live, LifeInv, UnracedInv
  <2> QED
    BY <1>5, <2>1, <2>2, ServiceKeeps DEF InitialHangs
<1>6. ASSUME NEW c \in Child, RealStarts(c) \/ RealsSettle(c) PROVE LifeInv'
  <2>1. TypeOK'
    <3>1. CASE RealStarts(c)
      BY <1>0, <3>1 DEF RealStarts, TypeOK
    <3>2. CASE RealsSettle(c)
      BY <1>0, <3>2 DEF RealsSettle, TypeOK
    <3> QED
      BY <1>6, <3>1, <3>2
  <2> QED
    BY <1>0, <1>6, <2>1, ServiceKeeps
       DEF RealStarts, RealsSettle, BirthInv, Live, LifeInv, UnracedInv
<1> QED
    BY <1>1, <1>2, <1>3, <1>4, <1>5, <1>6 DEF ServiceNext

(* A service object that nothing refers to is free.                         *)
LEMMA CollectKeeps ==
    ASSUME LifeInv, NEW c \in Child, Collect(c)
    PROVE  LifeInv'
<1> USE DEF requestVars, poolVars, stopVars
<1>0. TypeOK
    BY DEF LifeInv
<1>1. /\ UNCHANGED <<pc, config, done, mu, services, newServices, reals, open, poolRun,
                     shutdown, stopPc, applied, raced>>
      /\ \A d \in Child : d # c =>
            /\ run'[d] = run[d] /\ initial'[d] = initial[d] /\ stopped'[d] = stopped[d]
            /\ keyOf'[d] = keyOf[d] /\ version'[d] = version[d] /\ snapshot'[d] = snapshot[d]
      /\ run[c] = "ended" /\ run'[c] = "unused" /\ initial'[c] = "none" /\ stopped'[c] = FALSE
    BY <1>0 DEF Collect, TypeOK
<1>2. ~Live(c) /\ ~Live(c)' /\ \A d \in Child : d # c => (Live(d)' <=> Live(d))
    BY <1>1 DEF Live
<1>3. \A k \in Key : /\ services[k] # c /\ newServices[k] # c
                     /\ services[k] # NoChild => services[k] \in Child
                     /\ newServices[k] # NoChild => newServices[k] \in Child
    BY <1>0, <1>2, Names DEF Collect, LifeInv, MapsInv, TypeOK
<1>4. TypeOK'
    BY <1>0, <1>1, Names DEF Collect, TypeOK
<1>5. MutexInv'
    BY <1>1 DEF LifeInv, MutexInv, Busy
<1>6. MapsInv'
    BY <1>1, <1>2, <1>3 DEF LifeInv, MapsInv, Dealt
<1>7. BirthInv'
  <2>1. \A r \in Request : pc[r] = "send" => Entry(r).key \in Key
    BY EntryType DEF LifeInv, MutexInv
  <2> QED
    BY <1>1, <1>3, <2>1 DEF LifeInv, BirthInv, Entry
<1>8. UnracedInv'
  <2>1. ASSUME NEW r \in Request, NEW i \in Dealt(r) PROVE config[r][i].key \in Key
    BY <1>0, FileItem DEF Dealt, TypeOK
  <2>2. ASSUME NEW i \in DOMAIN applied PROVE applied[i].key \in Key
    BY <1>0, FileItem DEF TypeOK
  <2>3. HoldsApplied => HoldsApplied'
    BY <1>1, <1>3, <2>2 DEF HoldsApplied, Keys
  <2>4. ASSUME ~raced, NEW r \in Request, Busy(r), NEW i \in Dealt(r)
        PROVE  /\ newServices[config[r][i].key] # NoChild
               /\ version'[newServices[config[r][i].key]] = config[r][i].version
    BY <1>1, <1>3, <2>1, <2>4 DEF LifeInv, UnracedInv
  <2> QED
    BY <1>1, <2>3, <2>4 DEF LifeInv, UnracedInv, Busy, Dealt
<1>9. LiveInMap' /\ OneServicePerKey' /\ NoSendOnClosed'
    BY <1>1, <1>2 DEF LifeInv, LiveInMap, OneServicePerKey, NoSendOnClosed
<1> QED
    BY <1>4, <1>5, <1>6, <1>7, <1>8, <1>9 DEF LifeInv

-----------------------------------------------------------------------------
(* Steps of the request that has servicesMu.                                *)
LEMMA Holder ==
    ASSUME LifeInv, NEW r \in Request, Busy(r)
    PROVE  /\ mu = r /\ mu # Free /\ mu # Stopper
           /\ \A q \in Request : Busy(q) => q = r
           /\ stopPc \notin {"services", "hung", "wait"}
BY Names DEF LifeInv, MutexInv

(* Return releases the mutex of the holder.                                 *)
LEMMA ReturnHolder ==
    ASSUME LifeInv, NEW r \in Request, Busy(r), Return(r), mu' = Free,
           UNCHANGED <<serviceVars, poolVars, stopVars, raced>>,
           services' \in [Key -> Child \cup {NoChild}], newServices' = NoServices,
           applied' \in Files \cup {<<>>}
    PROVE  /\ TypeOK' /\ MutexInv' /\ BirthInv' /\ NoSendOnClosed' /\ OneServicePerKey'
           /\ \A q \in Request : ~Busy(q)'
<1> USE DEF serviceVars, poolVars, stopVars
<1>0. TypeOK
    BY DEF LifeInv
<1>1. /\ pc'[r] \in {"idle", "done"} /\ config'[r] = <<>> /\ done'[r] = 0
      /\ \A q \in Request : q # r =>
            pc'[q] = pc[q] /\ config'[q] = config[q] /\ done'[q] = done[q]
    BY <1>0 DEF Return, TypeOK
<1>2. Len(<<>>) = 0
    OBVIOUS
<1>3. TypeOK'
  <2>1. \A q \in Request : done'[q] <= Len(config'[q])
    BY <1>0, <1>1, <1>2 DEF TypeOK
  <2>2. /\ pc' \in [Request -> {"idle", "load", "lock", "entry", "send", "hung", "done"}]
        /\ config' \in [Request -> Files \cup {<<>>}] /\ done' \in [Request -> Nat]
    BY <1>0 DEF Return, TypeOK
  <2>3. newServices' \in [Key -> Child \cup {NoChild}] /\ mu' \in Request \cup {Free, Stopper}
    BY DEF NoServices
  <2> QED
    BY <1>0, <2>1, <2>2, <2>3 DEF TypeOK
<1>4. \A q \in Request : ~Busy(q)' /\ pc'[q] # "send"
    BY <1>1, Holder DEF Busy
<1>5. MutexInv'
    BY <1>1, <1>4, Holder, Names DEF LifeInv, MutexInv
<1> QED
    BY <1>3, <1>4, <1>5 DEF LifeInv, BirthInv, NoSendOnClosed, OneServicePerKey, Live

(* A reload is aborted.                                                     *)
LEMMA AbortKeeps ==
    ASSUME LifeInv, NEW r \in Request, Abort(r)
    PROVE  LifeInv'
<1> USE DEF serviceVars, poolVars, stopVars
<1>0. Busy(r) /\ TypeOK /\ pc[r] = "entry" /\ done[r] # Len(config[r]) /\ shutdown
    BY DEF Abort, AtEntry, Busy, LifeInv, TypeOK
<1>1. /\ UNCHANGED <<services, serviceVars, poolVars, stopVars, applied, raced>>
      /\ mu' = Free /\ newServices' = NoServices /\ Return(r)
    BY DEF Abort
<1>2. /\ TypeOK' /\ MutexInv' /\ BirthInv' /\ NoSendOnClosed' /\ OneServicePerKey'
      /\ \A q \in Request : ~Busy(q)'
    BY <1>0, <1>1, ReturnHolder DEF TypeOK
<1>3. MapsInv'
    BY <1>1 DEF LifeInv, MapsInv, NoServices
<1>4. ~raced => newServices = NoServices /\ done[r] = 0 /\ HoldsApplied
  <2> SUFFICES ASSUME ~raced PROVE newServices = NoServices /\ done[r] = 0 /\ HoldsApplied
    OBVIOUS
  <2>1. newServices = NoServices /\ done[r] = 0
    BY <1>0 DEF LifeInv, UnracedInv
  <2> QED
    BY <1>0, <2>1, Holder DEF LifeInv, UnracedInv
<1>5. LiveInMap'
    BY <1>0, <1>1, <1>4 DEF LifeInv, LiveInMap, Live
<1>6. UnracedInv'
    BY <1>1, <1>2, <1>4 DEF LifeInv, UnracedInv, HoldsApplied
<1> QED
    BY <1>2, <1>3, <1>5, <1>6 DEF LifeInv

(* The new map has exactly the keys of the config, with its settings.       *)
LEMMA ReplaceKeeps ==
    ASSUME LifeInv, NEW r \in Request, Replace(r)
    PROVE  LifeInv'
<1> USE DEF serviceVars, poolVars, stopVars
<1>0. Busy(r) /\ TypeOK /\ pc[r] = "entry" /\ done[r] = Len(config[r])
    BY DEF Replace, Busy, LifeInv
<1>1. /\ UNCHANGED <<serviceVars, poolVars, stopVars, raced>>
      /\ mu' = Free /\ newServices' = NoServices /\ Return(r) /\ services = NoServices
      /\ services' = newServices /\ applied' = config[r]
    BY DEF Replace
<1>2. /\ TypeOK' /\ MutexInv' /\ BirthInv' /\ NoSendOnClosed' /\ OneServicePerKey'
      /\ \A q \in Request : ~Busy(q)'
    BY <1>0, <1>1, ReturnHolder DEF TypeOK
<1>3. MapsInv'
    BY <1>1 DEF LifeInv, MapsInv, NoServices, Live
<1>4. LiveInMap'
    BY <1>0, <1>1, Names DEF LifeInv, LiveInMap, Live, NoServices, TypeOK
<1>5. Dealt(r) = DOMAIN config[r]
    BY <1>0, ConfigType DEF Dealt
<1>6. ~raced => HoldsApplied'
  <2> SUFFICES ASSUME ~raced PROVE HoldsApplied'
    OBVIOUS
  <2>1. ASSUME NEW i \in DOMAIN config[r]
        PROVE  /\ newServices[config[r][i].key] # NoChild
               /\ version[newServices[config[r][i].key]] = config[r][i].version
    BY <1>0, <1>5, <2>1 DEF LifeInv, UnracedInv
  <2>2. ASSUME NEW k \in Key, newServices[k] # NoChild
        PROVE  \E i \in DOMAIN config[r] : config[r][i].key = k
    BY <1>0, <1>5, <2>2, Holder DEF LifeInv, MapsInv
  <2> QED
    BY <1>1, <2>1, <2>2 DEF HoldsApplied, Keys
<1>7. UnracedInv'
    BY <1>1, <1>2, <1>6 DEF LifeInv, UnracedInv
<1> QED
    BY <1>2, <1>3, <1>4, <1>7 DEF LifeInv

(* The holder goes on to its next entry.                                    *)
LEMMA NextEntry ==
    ASSUME LifeInv, NEW r \in Request, Busy(r), done[r] # Len(config[r]),
           done' = [done EXCEPT ![r] = @ + 1], pc' = [pc EXCEPT ![r] = "entry"],
           UNCHANGED <<config, mu, open, shutdown, stopPc>>
    PROVE  /\ \A q \in Request : /\ Busy(q)' <=> q = r
                                 /\ pc'[q] # "send"
                                 /\ q # r => done'[q] = done[q]
           /\ done' \in [Request -> Nat] /\ done'[r] = done[r] + 1 /\ done'[r] # 0
           /\ \A q \in Request : done'[q] <= Len(config'[q])
           /\ Dealt(r)' = {i \in DOMAIN config[r] : i <= done[r]} \cup {done[r] + 1}
           /\ MutexInv'
<1>0. TypeOK
    BY DEF LifeInv
<1>1. /\ Len(config[r]) \in Nat /\ done[r] \in Nat /\ done[r] <= Len(config[r])
      /\ DOMAIN config[r] = 1..Len(config[r])
    BY <1>0, ConfigType
<1>2. /\ pc'[r] = "entry" /\ done'[r] = done[r] + 1
      /\ \A q \in Request : q # r => pc'[q] = pc[q] /\ done'[q] = done[q]
    BY <1>0 DEF TypeOK
<1>3. \A q \in Request : (Busy(q)' <=> q = r) /\ pc'[q] # "send"
    BY <1>2, Holder DEF Busy
<1>4. done' \in [Request -> Nat] /\ \A q \in Request : done'[q] <= Len(config'[q])
    BY <1>0, <1>1, <1>2 DEF TypeOK
<1>5. Dealt(r)' = {i \in DOMAIN config[r] : i <= done[r]} \cup {done[r] + 1}
    BY <1>1, <1>2 DEF Dealt
<1>6. MutexInv'
    BY <1>2, <1>3, Holder DEF LifeInv, MutexInv
<1> QED
    BY <1>1, <1>2, <1>3, <1>4, <1>5, <1>6

(* A known service moves to the new map and takes its settings.             *)
LEMMA ReloadKnownKeeps ==
    ASSUME LifeInv, NEW r \in Request, ReloadKnown(r)
    PROVE  LifeInv'
<1> DEFINE K == Entry(r).key
           V == Entry(r).version
           c == services[K]
           new == done[r] + 1
<1>0. /\ Busy(r) /\ TypeOK /\ pc[r] = "entry" /\ done[r] # Len(config[r]) /\ ~shutdown
      /\ c # NoChild /\ run[c] = "loop" /\ initial[c] \notin {"filling", "hung"}
    BY DEF ReloadKnown, Reloadable, AtEntry, Busy, LifeInv, TypeOK
<1>1. /\ UNCHANGED <<pc, config, mu, keyOf, snapshot, run, initial, stopped, open, poolRun,
                     shutdown, stopPc, applied>>
      /\ version' = [version EXCEPT ![c] = V]
      /\ raced' \in BOOLEAN /\ (~raced' => ~raced /\ initial[c] # "queued")
      /\ newServices' = [newServices EXCEPT ![K] = c]
      /\ services' = [services EXCEPT ![K] = NoChild]
      /\ done' = [done EXCEPT ![r] = @ + 1]
    BY <1>0 DEF ReloadKnown, poolVars, stopVars, TypeOK
<1>2. /\ K \in Key /\ V \in Version
      /\ new \in DOMAIN config[r] /\ config[r][new].key = K /\ config[r][new].version = V
    BY <1>0, EntryType
<1> HIDE DEF K, V, new
<1>3. c \in Child /\ keyOf[c] = K /\ Live(c) /\ newServices[K] = NoChild
    BY <1>0, <1>2 DEF LifeInv, TypeOK, MapsInv, Live
<1>4. pc' = [pc EXCEPT ![r] = "entry"]
    BY <1>0, <1>1 DEF TypeOK
<1>5. /\ \A q \in Request : (Busy(q)' <=> q = r) /\ pc'[q] # "send"
      /\ done' \in [Request -> Nat] /\ done'[r] # 0
      /\ \A q \in Request : done'[q] <= Len(config'[q])
      /\ Dealt(r)' = {i \in DOMAIN config[r] : i <= done[r]} \cup {new}
      /\ MutexInv'
    BY <1>0, <1>1, <1>4, NextEntry DEF new
<1>6. Dealt(r) = {i \in DOMAIN config[r] : i <= done[r]}
    BY <1>0 DEF Dealt
<1>7. /\ services'[K] = NoChild /\ newServices'[K] = c /\ version'[c] = V
      /\ \A k \in Key : k # K => services'[k] = services[k] /\ newServices'[k] = newServices[k]
      /\ \A d \in Child : d # c => version'[d] = version[d]
      /\ \A d \in Child : Live(d)' <=> Live(d)
    BY <1>0, <1>1, <1>2, <1>3 DEF TypeOK, Live
<1>8. TypeOK'
  <2>1. reals' \in [Child -> {"settled", "starting", "stuck"}]
    BY <1>0, <1>3 DEF ReloadKnown, AfterReload, TypeOK, K
  <2> QED
    BY <1>0, <1>1, <1>2, <1>3, <1>5, <2>1 DEF TypeOK
<1>9. MapsInv'
  <2>1. ASSUME NEW k \in Key, newServices'[k] # NoChild
        PROVE  /\ keyOf'[newServices'[k]] = k /\ Live(newServices[k])'
               /\ \E i \in Dealt(r)' : config[r][i].key = k
    <3>1. CASE k = K
      BY <1>1, <1>2, <1>3, <1>5, <1>7, <3>1
    <3>2. CASE k # K
      <4>1. newServices[k] # NoChild /\ newServices[k] \in Child
        BY <1>0, <1>7, <2>1, <3>2 DEF TypeOK
      <4>2. \E i \in Dealt(r) : config[r][i].key = k
        BY <1>0, <4>1, Holder DEF LifeInv, MapsInv
      <4> QED
        BY <1>1, <1>5, <1>6, <1>7, <3>2, <4>1, <4>2 DEF LifeInv, MapsInv
    <3> QED
      BY <3>1, <3>2
  <2>2. mu' = r
    BY <1>0, <1>1, Holder
  <2> QED
    BY <1>1, <1>7, <2>1, <2>2 DEF LifeInv, MapsInv
<1>10. BirthInv'
    BY <1>1, <1>5 DEF LifeInv, BirthInv
<1>11. LiveInMap'
    BY <1>0, <1>1, <1>3, <1>7, Names DEF LifeInv, LiveInMap, TypeOK
<1>12. UnracedInv'
  <2> SUFFICES ASSUME ~raced' PROVE UnracedInv'
    BY DEF UnracedInv
  <2>1. ~raced /\ initial[c] \notin {"queued", "filling"}
    BY <1>0, <1>1
  <2>2. \A d \in Child : initial'[d] \in {"queued", "filling"} => snapshot'[d] = version'[d]
    BY <1>1, <1>7, <2>1 DEF LifeInv, UnracedInv
  <2>3. ASSUME NEW i \in Dealt(r)'
        PROVE  /\ newServices'[config[r][i].key] # NoChild
               /\ version'[newServices'[config[r][i].key]] = config[r][i].version
    <3>1. CASE i = new
      BY <1>0, <1>2, <1>7, <3>1
    <3>2. CASE i \in Dealt(r)
      <4>1. config[r][i].key \in Key
        BY <1>0, <3>2, FileItem DEF Dealt, TypeOK
      <4>2. /\ newServices[config[r][i].key] # NoChild
            /\ version[newServices[config[r][i].key]] = config[r][i].version
        BY <1>0, <2>1, <3>2 DEF LifeInv, UnracedInv
      <4>3. config[r][i].key # K
        BY <1>3, <4>2
      <4>4. newServices[config[r][i].key] \in Child /\ newServices[config[r][i].key] # c
        BY <1>0, <1>3, <4>1, <4>2, <4>3 DEF LifeInv, TypeOK, MapsInv
      <4> QED
        BY <1>7, <4>1, <4>2, <4>3, <4>4
    <3> QED
      BY <1>5, <1>6, <2>3, <3>1, <3>2
  <2> QED
    BY <1>0, <1>1, <1>5, <2>1, <2>2, <2>3 DEF UnracedInv
<1>13. OneServicePerKey' /\ NoSendOnClosed'
    BY <1>1, <1>5, <1>7 DEF LifeInv, OneServicePerKey, NoSendOnClosed
<1> QED
    BY <1>5, <1>8, <1>9, <1>10, <1>11, <1>12, <1>13 DEF LifeInv

(* A reload that hangs keeps the mutex and changes no map.                  *)
LEMMA ReloadHangsKeeps ==
    ASSUME LifeInv, NEW r \in Request, ReloadHangs(r)
    PROVE  LifeInv'
<1>0. Busy(r) /\ TypeOK /\ pc[r] = "entry"
    BY DEF ReloadHangs, Reloadable, AtEntry, Busy, LifeInv
<1>1. /\ UNCHANGED <<config, done, mu, services, newServices, keyOf, version, snapshot,
                     run, initial, reals, stopped, open, poolRun, shutdown, stopPc, applied>>
      /\ pc' = [pc EXCEPT ![r] = "hung"] /\ raced' = TRUE /\ ~shutdown
    BY DEF ReloadHangs, Reloadable, serviceVars, poolVars, stopVars
<1>2. pc'[r] = "hung" /\ \A q \in Request : q # r => pc'[q] = pc[q]
    BY <1>0, <1>1 DEF TypeOK
<1>3. \A q \in Request : /\ Busy(q)' <=> Busy(q)
                         /\ pc'[q] = "send" <=> pc[q] = "send"
    BY <1>0, <1>2 DEF Busy
<1>4. \A q \in Request : Dealt(q)' = Dealt(q) /\ Entry(q)' = Entry(q)
    BY <1>1, <1>3 DEF Dealt, Entry
<1>5. TypeOK'
    BY <1>0, <1>1 DEF TypeOK
<1>6. MutexInv'
    BY <1>1, <1>3 DEF LifeInv, MutexInv
<1>7. MapsInv' /\ BirthInv'
    BY <1>1, <1>3, <1>4 DEF LifeInv, MapsInv, BirthInv, Live
<1>8. UnracedInv'
    BY <1>1 DEF UnracedInv
<1> QED
    BY <1>1, <1>3, <1>5, <1>6, <1>7, <1>8
       DEF LifeInv, LiveInMap, OneServicePerKey, NoSendOnClosed, Live

(* A new service is the only one of its key, as no entry before this one    *)
(* has it and every live service is in a map.                               *)
LEMMA CreateKeeps ==
    ASSUME DistinctKeys, LifeInv, NEW r \in Request, Create(r)
    PROVE  LifeInv'
<1> DEFINE K == Entry(r).key
           V == Entry(r).version
           new == done[r] + 1
<1>0. /\ Busy(r) /\ TypeOK /\ pc[r] = "entry" /\ done[r] # Len(config[r]) /\ ~shutdown
      /\ services[K] = NoChild
    BY DEF Create, AtEntry, Busy, LifeInv, TypeOK
<1>1. PICK c \in Child :
         /\ run[c] = "unused"
         /\ keyOf' = [keyOf EXCEPT ![c] = K]
         /\ version' = [version EXCEPT ![c] = V]
         /\ run' = [run EXCEPT ![c] = "created"]
         /\ newServices' = [newServices EXCEPT ![K] = c]
    BY DEF Create
<1>2. /\ UNCHANGED <<config, done, mu, services, snapshot, initial, reals, stopped, open,
                     poolRun, shutdown, stopPc, applied, raced>>
      /\ pc' = [pc EXCEPT ![r] = "send"]
    BY DEF Create, poolVars, stopVars
<1>3. /\ K \in Key /\ V \in Version
      /\ new \in DOMAIN config[r] /\ config[r][new].key = K /\ config[r][new].version = V
      /\ Entry(r) = config[r][new]
    BY <1>0, EntryType
<1>4. /\ DOMAIN config[r] = 1..Len(config[r]) /\ done[r] \in Nat /\ Len(config[r]) \in Nat
      /\ \A i : i <= done[r] => i # new
    BY <1>0, ConfigType
<1>5. /\ Dealt(r) = {i \in DOMAIN config[r] : i <= done[r]}
      /\ Dealt(r)' = Dealt(r) \cup {new}
  <2>1. pc'[r] = "send"
    BY <1>0, <1>2 DEF TypeOK
  <2> QED
    BY <1>0, <1>2, <1>3, <2>1 DEF Dealt
<1>6. Entry(r)' = config[r][new]
    BY <1>2 DEF Entry
<1> HIDE DEF K, V, new
<1>7. newServices[K] = NoChild
  <2> SUFFICES ASSUME newServices[K] # NoChild PROVE FALSE
    OBVIOUS
  <2>1. PICK i \in Dealt(r) : config[r][i].key = K
    BY <1>0, <1>3, Holder DEF LifeInv, MapsInv
  <2>2. config[r] \in Files
    BY <1>0, <1>3 DEF TypeOK
  <2> QED
    BY <1>3, <1>4, <1>5, <2>1, <2>2 DEF DistinctKeys
<1>8. \A k \in Key : services[k] # c /\ newServices[k] # c
    BY <1>1, Names DEF LifeInv, MapsInv, Live
<1>9. /\ c # NoChild /\ newServices'[K] = c /\ version'[c] = V /\ keyOf'[c] = K
      /\ run'[c] = "created" /\ initial[c] = "none" /\ ~stopped[c]
      /\ \A k \in Key : k # K => newServices'[k] = newServices[k]
      /\ \A d \in Child : d # c => /\ version'[d] = version[d] /\ keyOf'[d] = keyOf[d]
                                   /\ run'[d] = run[d]
    BY <1>0, <1>1, <1>3, Names DEF TypeOK, LifeInv, BirthInv
<1>10. Live(c)' /\ \A d \in Child : d # c => (Live(d)' <=> Live(d))
    BY <1>2, <1>9 DEF Live
<1>11. /\ \A q \in Request : Busy(q)' <=> q = r
       /\ pc'[r] = "send" /\ \A q \in Request : q # r => pc'[q] = pc[q] /\ pc'[q] # "send"
    BY <1>0, <1>2, Holder DEF Busy, TypeOK
<1>12. open /\ stopPc = "none"
    BY <1>0 DEF LifeInv, MutexInv, TypeOK
<1>13. TypeOK'
    BY <1>0, <1>1, <1>2, <1>3 DEF TypeOK
<1>14. MutexInv'
    BY <1>0, <1>2, <1>11, <1>12, Holder DEF LifeInv, MutexInv
<1>15. \A k \in Key : /\ services[k] # NoChild => services[k] \in Child /\ k # K
                      /\ newServices[k] # NoChild => newServices[k] \in Child
    BY <1>0 DEF TypeOK
<1>16. MapsInv'
  <2>1. ASSUME NEW k \in Key, newServices'[k] # NoChild
        PROVE  /\ keyOf'[newServices'[k]] = k /\ Live(newServices[k])'
               /\ \E i \in Dealt(r)' : config[r][i].key = k
    <3>1. CASE k = K
      BY <1>3, <1>5, <1>9, <1>10, <3>1
    <3>2. CASE k # K
      <4>1. newServices[k] # NoChild /\ newServices[k] \in Child /\ newServices[k] # c
        BY <1>8, <1>9, <1>15, <2>1, <3>2
      <4>2. \E i \in Dealt(r) : config[r][i].key = k
        BY <1>0, <4>1, Holder DEF LifeInv, MapsInv
      <4> QED
        BY <1>5, <1>9, <1>10, <3>2, <4>1, <4>2 DEF LifeInv, MapsInv
    <3> QED
      BY <3>1, <3>2
  <2>2. mu' = r
    BY <1>0, <1>2, Holder
  <2> QED
    BY <1>2, <1>8, <1>9, <1>15, <2>1, <2>2 DEF LifeInv, MapsInv
<1>17. BirthInv'
    BY <1>2, <1>3, <1>6, <1>9, <1>11 DEF LifeInv, BirthInv
<1>18. \A d \in Child : Live(d) => d \in {services[keyOf[d]], newServices[keyOf[d]]}
    BY <1>0 DEF LifeInv, LiveInMap
<1>19. LiveInMap'
  <2>1. \A d \in Child : keyOf[d] \in Key
    BY <1>0 DEF TypeOK
  <2> QED
    BY <1>0, <1>2, <1>7, <1>9, <1>10, <1>18, <2>1, Names DEF LiveInMap
<1>20. OneServicePerKey'
  <2>1. \A d \in Child : Live(d) => keyOf[d] # K
    BY <1>0, <1>7, <1>18, Names
  <2> QED
    BY <1>9, <1>10, <2>1 DEF LifeInv, OneServicePerKey
<1>21. UnracedInv'
  <2> SUFFICES ASSUME ~raced PROVE UnracedInv'
    BY <1>2 DEF UnracedInv
  <2>1. \A d \in Child : initial'[d] \in {"queued", "filling"} => snapshot'[d] = version'[d]
    BY <1>2, <1>9 DEF LifeInv, UnracedInv
  <2>2. ASSUME NEW i \in Dealt(r)'
        PROVE  /\ newServices'[config[r][i].key] # NoChild
               /\ version'[newServices'[config[r][i].key]] = config[r][i].version
    <3>1. CASE i = new
      BY <1>3, <1>9, <3>1
    <3>2. CASE i \in Dealt(r)
      <4>1. config[r][i].key \in Key
        BY <1>0, <3>2, FileItem DEF Dealt, TypeOK
      <4>2. /\ newServices[config[r][i].key] # NoChild
            /\ version[newServices[config[r][i].key]] = config[r][i].version
        BY <1>0, <3>2 DEF LifeInv, UnracedInv
      <4> QED
        BY <1>7, <1>8, <1>9, <1>15, <4>1, <4>2
    <3> QED
      BY <1>5, <2>2, <3>1, <3>2
  <2> QED
    BY <1>0, <1>2, <1>11, <2>1, <2>2 DEF UnracedInv
<1>22. NoSendOnClosed'
    BY <1>2, <1>12 DEF NoSendOnClosed
<1> QED
    BY <1>13, <1>14, <1>16, <1>17, <1>19, <1>20, <1>21, <1>22 DEF LifeInv

(* The pool takes the new service; its channel is open as long as somebody  *)
(* sends.                                                                   *)
LEMMA AddKeeps ==
    ASSUME LifeInv, NEW r \in Request, Add(r)
    PROVE  LifeInv'
<1> DEFINE K == Entry(r).key
           c == newServices[K]
           new == done[r] + 1
<1>0. Busy(r) /\ TypeOK /\ pc[r] = "send" /\ done[r] # Len(config[r]) /\ open
    BY DEF Add, Busy, LifeInv, MutexInv
<1>1. /\ UNCHANGED <<config, mu, services, newServices, keyOf, version, snapshot, initial,
                     reals, stopped, open, shutdown, stopPc, applied, raced>>
      /\ run' = [run EXCEPT ![c] = "received"] /\ poolRun' = "count"
      /\ pc' = [pc EXCEPT ![r] = "entry"] /\ done' = [done EXCEPT ![r] = @ + 1]
    BY <1>0 DEF Add, stopVars
<1>2. K \in Key /\ new \in DOMAIN config[r]
    BY <1>0, EntryType
<1>3. c \in Child /\ run[c] = "created" /\ initial[c] = "none"
    BY <1>0, <1>2 DEF LifeInv, BirthInv, TypeOK
<1>4. /\ \A q \in Request : (Busy(q)' <=> q = r) /\ pc'[q] # "send"
      /\ done' \in [Request -> Nat] /\ done'[r] # 0
      /\ \A q \in Request : done'[q] <= Len(config'[q])
      /\ Dealt(r)' = {i \in DOMAIN config[r] : i <= done[r]} \cup {new}
      /\ MutexInv'
    BY <1>0, <1>1, NextEntry
<1>5. Dealt(r)' = Dealt(r)
    BY <1>0, <1>2, <1>4 DEF Dealt
<1> HIDE DEF K, c, new
<1>6. /\ run'[c] = "received" /\ \A d \in Child : d # c => run'[d] = run[d]
      /\ \A d \in Child : Live(d)' <=> Live(d)
    BY <1>0, <1>1, <1>3 DEF TypeOK, Live
<1>7. TypeOK'
    BY <1>0, <1>1, <1>4 DEF TypeOK
<1>8. \A k \in Key : /\ services[k] # NoChild => services[k] \in Child
                     /\ newServices[k] # NoChild => newServices[k] \in Child
    BY <1>0 DEF TypeOK
<1>9. MapsInv'
  <2>1. mu' = r /\ mu = r
    BY <1>0, <1>1, Holder
  <2> QED
    BY <1>1, <1>5, <1>6, <1>8, <2>1 DEF LifeInv, MapsInv
<1>10. BirthInv'
    BY <1>1, <1>3, <1>4, <1>6 DEF LifeInv, BirthInv
<1>11. UnracedInv'
    BY <1>0, <1>1, <1>4, <1>5 DEF LifeInv, UnracedInv
<1> QED
    BY <1>0, <1>1, <1>4, <1>6, <1>7, <1>9, <1>10, <1>11
       DEF LifeInv, LiveInMap, OneServicePerKey, NoSendOnClosed

(* A service the config does not name is stopped.                           *)
LEMMA SweepKeeps ==
    ASSUME LifeInv, NEW r \in Request, Sweep(r)
    PROVE  LifeInv'
<1>0. Busy(r) /\ TypeOK /\ pc[r] = "entry" /\ done[r] = Len(config[r])
    BY DEF Sweep, Busy, LifeInv
<1>1. PICK k \in Key, returns \in BOOLEAN :
         /\ services[k] # NoChild
         /\ StopService(services[k], returns)
         /\ services' = [services EXCEPT ![k] = NoChild]
         /\ pc' = [pc EXCEPT ![r] = IF returns THEN @ ELSE "hung"]
    BY DEF Sweep
<1>2. UNCHANGED <<config, done, mu, newServices, keyOf, version, snapshot, initial, open,
                  poolRun, shutdown, stopPc, applied>>
    BY DEF Sweep, poolVars, stopVars
<1>p. PICK c \in Child : c = services[k]
    BY <1>0, <1>1 DEF TypeOK
<1>3. c \in Child /\ keyOf[c] = k /\ run[c] # "unused" /\ newServices[k] = NoChild
    BY <1>0, <1>1, <1>p DEF TypeOK, LifeInv, MapsInv
<1>4. /\ run'[c] \in {run[c], "ended"} /\ stopped'[c] = TRUE
      /\ \A d \in Child : d # c => run'[d] = run[d] /\ stopped'[d] = stopped[d]
      /\ run' \in [Child -> {"unused", "created", "received", "spawned", "loop", "stuck", "ended"}]
      /\ stopped' \in [Child -> BOOLEAN]
      /\ reals' \in [Child -> {"settled", "starting", "stuck"}]
      /\ raced' \in BOOLEAN /\ (~raced' => ~raced /\ Settled(c))
    BY <1>0, <1>1, <1>p, <1>3 DEF StopService, TypeOK
<1>5. /\ services'[k] = NoChild
      /\ \A j \in Key : j # k => services'[j] = services[j] /\ services[j] # c
      /\ \A j \in Key : newServices[j] # c
      /\ \A j \in Key : /\ services[j] # NoChild => services[j] \in Child
                        /\ newServices[j] # NoChild => newServices[j] \in Child
    BY <1>0, <1>1, <1>p, <1>3 DEF LifeInv, TypeOK, MapsInv
<1>6. /\ pc'[r] \in {"entry", "hung"}
      /\ \A q \in Request : q # r => pc'[q] = pc[q]
      /\ Settled(c) => pc'[r] = "entry"
    BY <1>0, <1>1, <1>p DEF TypeOK, Settled, StopService, Filling
<1>7. /\ \A q \in Request : (Busy(q)' <=> q = r) /\ pc'[q] # "send"
      /\ Dealt(r)' = Dealt(r)
  <2>1. \A q \in Request : (Busy(q)' <=> q = r) /\ pc'[q] # "send"
    BY <1>6, <1>0, Holder DEF Busy
  <2> QED
    BY <1>0, <1>2, <2>1 DEF Dealt
<1>8. ~Live(c)' /\ \A d \in Child : d # c => (Live(d)' <=> Live(d))
    BY <1>4 DEF Live
<1>9. TypeOK'
  <2>1. /\ pc' \in [Request -> {"idle", "load", "lock", "entry", "send", "hung", "done"}]
        /\ services' \in [Key -> Child \cup {NoChild}]
    BY <1>0, <1>1 DEF TypeOK
  <2> QED
    BY <1>0, <1>2, <1>4, <2>1 DEF TypeOK
<1>10. mu = r
    BY <1>0, Holder
<1>11. MutexInv'
    BY <1>2, <1>7, <1>10, Holder DEF LifeInv, MutexInv
<1>12. MapsInv'
  <2>1. ASSUME NEW j \in Key, services'[j] # NoChild
        PROVE  /\ keyOf'[services'[j]] = j /\ run'[services'[j]] # "unused"
               /\ ~shutdown' => ~stopped'[services'[j]]
               /\ newServices'[j] = NoChild
    BY <1>2, <1>4, <1>5, <2>1 DEF LifeInv, MapsInv
  <2>2. ASSUME NEW j \in Key, newServices'[j] # NoChild
        PROVE  /\ keyOf'[newServices'[j]] = j /\ Live(newServices[j])'
               /\ \E i \in Dealt(r)' : config'[r][i].key = j
    BY <1>2, <1>5, <1>7, <1>8, <1>10, <2>2 DEF LifeInv, MapsInv
  <2> QED
    BY <1>2, <1>10, <2>1, <2>2 DEF MapsInv
<1>13. BirthInv'
    BY <1>2, <1>3, <1>4, <1>7 DEF LifeInv, BirthInv
<1>14. LiveInMap'
  <2>1. \A d \in Child : keyOf[d] \in Key
    BY <1>0 DEF TypeOK
  <2> QED
    BY <1>p, <1>2, <1>4, <1>5, <1>8, <2>1 DEF LifeInv, LiveInMap
<1>15. UnracedInv'
  <2> SUFFICES ASSUME ~raced' PROVE UnracedInv'
    BY DEF UnracedInv
  <2>1. ~raced /\ pc'[r] = "entry"
    BY <1>4, <1>6
  <2> QED
    BY <1>0, <1>2, <1>7, <2>1 DEF LifeInv, UnracedInv
<1>16. OneServicePerKey' /\ NoSendOnClosed'
    BY <1>2, <1>4, <1>7, <1>8 DEF LifeInv, OneServicePerKey, NoSendOnClosed
<1> QED
    BY <1>9, <1>11, <1>12, <1>13, <1>14, <1>15, <1>16 DEF LifeInv

-----------------------------------------------------------------------------
(* LifeInv holds at the start.                                              *)
LEMMA LifeInit == Init => LifeInv
<1> SUFFICES ASSUME Init PROVE LifeInv
    OBVIOUS
<1> USE DEF Init
<1>1. Len(<<>>) = 0 /\ DOMAIN <<>> = {}
    OBVIOUS
<1>2. \A r \in Request : pc[r] \in {"load", "idle"} /\ config[r] = <<>> /\ done[r] = 0
    OBVIOUS
<1>3. \A c \in Child : run[c] = "unused" /\ initial[c] = "none" /\ ~stopped[c]
    OBVIOUS
<1>4. \A k \in Key : services[k] = NoChild /\ newServices[k] = NoChild
    BY DEF NoServices
<1>5. TypeOK
  <2>1. \A r \in Request : done[r] <= Len(config[r])
    BY <1>1, <1>2
  <2>2. /\ pc \in [Request -> {"idle", "load", "lock", "entry", "send", "hung", "done"}]
        /\ config \in [Request -> Files \cup {<<>>}] /\ done \in [Request -> Nat]
    OBVIOUS
  <2>3. /\ keyOf \in [Child -> Key]
        /\ version \in [Child -> Version] /\ snapshot \in [Child -> Version]
    BY Names
  <2> QED
    BY <2>1, <2>2, <2>3 DEF TypeOK, NoServices
<1>6. MutexInv
    BY <1>2, Names DEF MutexInv, Busy
<1>7. MapsInv /\ BirthInv
    BY <1>2, <1>3, <1>4 DEF MapsInv, BirthInv
<1>8. LiveInMap /\ OneServicePerKey /\ NoSendOnClosed
    BY <1>2, <1>3 DEF LiveInMap, OneServicePerKey, NoSendOnClosed, Live
<1>9. UnracedInv
    BY <1>1, <1>2, <1>3, <1>4 DEF UnracedInv, Busy, HoldsApplied, Keys
<1> QED
    BY <1>5, <1>6, <1>7, <1>8, <1>9 DEF LifeInv

(* LifeInv depends on nothing but the variables.                            *)
LEMMA LifeStutter == LifeInv /\ UNCHANGED vars => LifeInv'
<1> SUFFICES ASSUME LifeInv, UNCHANGED vars PROVE LifeInv'
    OBVIOUS
<1> USE DEF vars, requestVars, serviceVars, poolVars, stopVars, LifeInv
<1>1. TypeOK'
    BY DEF TypeOK
<1>2. MutexInv' /\ MapsInv'
    BY DEF MutexInv, MapsInv, Busy, Live, Dealt
<1>3. BirthInv' /\ LiveInMap' /\ OneServicePerKey' /\ NoSendOnClosed'
    BY DEF BirthInv, Entry, LiveInMap, Live, OneServicePerKey, NoSendOnClosed
<1>4. UnracedInv'
    BY DEF UnracedInv, HoldsApplied, Busy, Dealt
<1> QED
    BY <1>1, <1>2, <1>3, <1>4

(* Every step keeps LifeInv.                                                *)
LEMMA LifeStep == DistinctKeys /\ LifeInv /\ [Next]_vars => LifeInv'
<1> SUFFICES ASSUME DistinctKeys, LifeInv, [Next]_vars PROVE LifeInv'
    OBVIOUS
<1>1. CASE UNCHANGED vars
    BY <1>1, LifeStutter
<1>2. CASE StopSignal
    BY <1>2, StopSignalKeeps
<1>3. CASE PoolNext
    BY <1>3, PoolKeeps, ServiceNextKeeps DEF PoolNext
<1>4. CASE StopNext
    BY <1>4, StopMutexKeeps, StopServicesKeeps, ClosePoolKeeps DEF StopNext
<1>5. ASSUME NEW r \in Rpc, Accept(r) PROVE LifeInv'
    BY <1>5, AcceptKeeps
<1>6. ASSUME NEW r \in Request, RequestNext(r) PROVE LifeInv'
  <2>1. CASE Load(r) \/ Lock(r)
    BY <2>1, LoadKeeps, LockKeeps
  <2>2. CASE Abort(r) \/ Replace(r) \/ Sweep(r)
    BY <2>2, AbortKeeps, ReplaceKeeps, SweepKeeps
  <2>3. CASE ReloadKnown(r) \/ ReloadHangs(r) \/ Create(r) \/ Add(r)
    BY <2>3, ReloadKnownKeeps, ReloadHangsKeeps, CreateKeeps, AddKeeps
  <2> QED
    BY <1>6, <2>1, <2>2, <2>3 DEF RequestNext
<1>7. ASSUME NEW c \in Child, ServiceNext(c) \/ RealStarts(c) \/ Collect(c) PROVE LifeInv'
    BY <1>7, ServiceNextKeeps, CollectKeeps
<1> QED
    BY <1>1, <1>2, <1>3, <1>4, <1>5, <1>6, <1>7 DEF Next

(* How the core, its services, the pool and its workers fit together        *)
(* (core.go, worker_pool), in every state, for files that name a service    *)
(* once.                                                                    *)
THEOREM LifeInvariant == DistinctKeys => (Spec => []LifeInv)
<1> SUFFICES ASSUME DistinctKeys PROVE Spec => []LifeInv
    OBVIOUS
<1>1. LifeInv /\ [Next]_vars => LifeInv'
    BY LifeStep
<1> QED
    BY <1>1, LifeInit, PTL DEF Spec

(* Core.Reload and Core.Stop, in any interleaving and with any number of    *)
(* requests: no two services that nobody has stopped have the same key,     *)
(* provided that no configuration file names a key twice.                   *)
THEOREM OneServicePerKeyTheorem == DistinctKeys => (Spec => []OneServicePerKey)
<1> SUFFICES ASSUME DistinctKeys PROVE Spec => []OneServicePerKey
    OBVIOUS
<1>1. LifeInv => OneServicePerKey
    BY DEF LifeInv
<1> QED
    BY <1>1, LifeInvariant, PTL

(* Between reloads the live services are exactly those of the map of        *)
(* Core, which are those of the file applied last with its settings, unless *)
(* two operations met in one of the windows that raced records.             *)
THEOREM ServicesFollowConfigTheorem == DistinctKeys => (Spec => []ServicesFollowConfig)
<1> SUFFICES ASSUME DistinctKeys PROVE Spec => []ServicesFollowConfig
    OBVIOUS
<1>1. LifeInv => ServicesFollowConfig
  <2> SUFFICES ASSUME LifeInv, mu = Free, ~raced
               PROVE  /\ \A c \in Child : Live(c) => services[keyOf[c]] = c
                      /\ HoldsApplied
    BY DEF ServicesFollowConfig
  <2>1. \A r \in Request : ~Busy(r)
    BY Names DEF LifeInv, MutexInv
  <2>2. \A k \in Key : newServices[k] = NoChild
    BY Names DEF LifeInv, MapsInv
  <2>3. HoldsApplied
    BY <2>1 DEF LifeInv, UnracedInv
  <2>4. ASSUME NEW c \in Child, Live(c) PROVE services[keyOf[c]] = c
    BY <2>2, <2>4, Names DEF LifeInv, LiveInMap, TypeOK
  <2> QED
    BY <2>3, <2>4
<1> QED
    BY <1>1, LifeInvariant, PTL

(* Pool.Add never sends on the channel that Pool.Close has closed, and Stop *)
(* closes it only when no live service is left, unless a race is recorded.  *)
THEOREM NoSendOnClosedTheorem == DistinctKeys => (Spec => []NoSendOnClosed)
<1> SUFFICES ASSUME DistinctKeys PROVE Spec => []NoSendOnClosed
    OBVIOUS
<1>1. LifeInv => NoSendOnClosed
    BY DEF LifeInv
<1> QED
    BY <1>1, LifeInvariant, PTL
=============================================================================
