------------------------------ MODULE StateSync ------------------------------
(***************************************************************************)
(* The state of the load balancer as the balancer polls it, and the reals   *)
(* that wait in it for their activation: internal/balancer (stater, State,  *)
(* LookupSubscription), Service.realActivationFunc and Real.waitActivation. *)
(*                                                                          *)
(* Each real has the goroutine of its Run and, unless it was found at once, *)
(* a watcher started by LookupSubscription.  The channel State.notify is    *)
(* replaced at every update; a watcher holds the one it got from Subscribe, *)
(* and all that matters is whether that one is closed by now.  A state maps *)
(* modules to services to reals; Lookup searches all modules, so a state is *)
(* the set of the reals in it.                                              *)
(***************************************************************************)
CONSTANTS
    RealKeys,   \* the reals, by key.Balancer
    Failed      \* the answer of a request that failed

ASSUME FailedAssumption == \A state \in SUBSET RealKeys : state # Failed

VARIABLES
    lb,         \* the reals in the load balancer
    known,      \* State.state
    stater,     \* "start", "first" (the initial request), "idle", "asked" or "off"
    answer,     \* of the request under way
    run,        \* of each real: "start", "waiting", "active" or "refused"
    watcher,    \* of each real: "none", "subscribe", "select", "notified" or "gone"
    notify,     \* the subscription of each real: "open", "sent" or "closed"
    cancelled,  \* the reals whose activation context is cancelled
    stopped,    \* the reals whose shutdown is signalled
    shutdown,   \* whether the balancer's is
    reported    \* history: every real that was ever known

staterVars == <<lb, known, stater, answer, reported>>
stopVars == <<stopped, shutdown>>
vars == <<staterVars, run, watcher, notify, cancelled, stopVars>>

Init ==
    /\ lb \in SUBSET RealKeys
    /\ known = {}
    /\ stater = "start"
    /\ answer = Failed
    /\ run = [r \in RealKeys |-> "start"]
    /\ watcher = [r \in RealKeys |-> "none"]
    /\ notify = [r \in RealKeys |-> "open"]
    /\ cancelled = {}
    /\ stopped = {}
    /\ shutdown = FALSE
    /\ reported = {}

-----------------------------------------------------------------------------
(* The load balancer and the poller. *)

(* Reals are configured in the load balancer by somebody else.              *)
Reconfigure(r) ==
    /\ lb' = IF r \in lb THEN lb \ {r} ELSE lb \cup {r}
    /\ UNCHANGED <<known, stater, answer, reported, run, watcher, notify,
                   cancelled, stopVars>>

(* Client.GetState, initially and at each tick.  A failed request and an    *)
(* answer with a key that cannot be converted are the same error.           *)
GetState(reply) ==
    /\ stater \in {"start", "idle"}
    /\ reply \in {lb, Failed}
    /\ answer' = reply
    /\ stater' = IF stater = "start" THEN "first" ELSE "asked"
    /\ UNCHANGED <<lb, known, reported, run, watcher, notify, cancelled, stopVars>>

(* Faulty variant: only a first notification, since the channel is not      *)
(* closed by later updates.                                                 *)
NotificationOnce ==
    [r \in RealKeys |-> IF watcher[r] = "select" /\ stater = "first" THEN "notified"
                        ELSE watcher[r]]

(* State.notification: whoever holds the present channel is woken up.       *)
Notification ==
    [r \in RealKeys |-> IF watcher[r] = "select" THEN "notified" ELSE watcher[r]]

(* State.Update, one section under stateMu.  The error of the initial       *)
(* request is only logged and the nil state stored; later errors skip it.   *)
Update ==
    /\ stater \in {"first", "asked"}
    /\ stater = "first" \/ answer # Failed
    /\ known' = IF answer = Failed THEN {} ELSE answer
    /\ reported' = reported \cup known'
    /\ watcher' = Notification
    /\ answer' = Failed
    /\ stater' = "idle"
    /\ UNCHANGED <<lb, run, notify, cancelled, stopVars>>

SkipUpdate ==
    /\ stater = "asked"
    /\ answer = Failed
    /\ stater' = "idle"
    /\ UNCHANGED <<lb, known, answer, reported, run, watcher, notify, cancelled,
                   stopVars>>

StaterExit ==
    /\ stater = "idle"
    /\ shutdown
    /\ stater' = "off"
    /\ UNCHANGED <<lb, known, answer, reported, run, watcher, notify, cancelled,
                   stopVars>>

-----------------------------------------------------------------------------
(* The goroutine of Real.Run. *)

(* The activation function returns, and waitActivation cancels its context. *)
Return(r, result) ==
    /\ run' = [run EXCEPT ![r] = result]
    /\ cancelled' = cancelled \cup {r}

(* LookupSubscription, up to the start of the watcher.                      *)
LookupSubscription(r) ==
    /\ run[r] = "start"
    /\ IF r \in known
       THEN Return(r, "active") /\ UNCHANGED watcher
       ELSE /\ run' = [run EXCEPT ![r] = "waiting"]
            /\ watcher' = [watcher EXCEPT ![r] = "subscribe"]
            /\ UNCHANGED cancelled
    /\ UNCHANGED <<staterVars, notify, stopVars>>

(* Faulty variant: a closed subscription counts as found.                   *)
ReceivedAny(r) == notify[r] \in {"sent", "closed"}

(* A value that was sent is received even if the channel is closed since.   *)
Received(r) == notify[r] = "sent"

(* realActivationFunc: its select takes either case if both are ready.      *)
Activated(r) ==
    /\ run[r] = "waiting"
    /\ Received(r)
    /\ Return(r, "active")
    /\ UNCHANGED <<staterVars, watcher, notify, stopVars>>

Refused(r) ==
    /\ run[r] = "waiting"
    /\ r \in cancelled \/ notify[r] = "closed"
    /\ Return(r, "refused")
    /\ UNCHANGED <<staterVars, watcher, notify, stopVars>>

-----------------------------------------------------------------------------
(* The watcher of LookupSubscription. *)

(* The operands of the select: the channel that is current now.             *)
Subscribe(r) ==
    /\ watcher[r] = "subscribe"
    /\ watcher' = [watcher EXCEPT ![r] = "select"]
    /\ UNCHANGED <<staterVars, run, notify, cancelled, stopVars>>

(* Faulty variant: the watcher gives up when the first update does not have *)
(* its real.                                                                *)
LookupGivesUp(r) ==
    /\ watcher[r] = "notified"
    /\ watcher' = [watcher EXCEPT ![r] = "gone"]
    /\ notify' = [notify EXCEPT ![r] = IF r \in known THEN "sent" ELSE "closed"]
    /\ UNCHANGED <<staterVars, run, cancelled, stopVars>>

(* State.Lookup after a notification.  If the real is not there the loop    *)
(* subscribes anew; an update in between is missed.                         *)
Lookup(r) ==
    /\ watcher[r] = "notified"
    /\ IF r \in known
       THEN /\ watcher' = [watcher EXCEPT ![r] = "gone"]
            /\ notify' = [notify EXCEPT ![r] = "sent"]
       ELSE /\ watcher' = [watcher EXCEPT ![r] = "subscribe"]
            /\ UNCHANGED notify
    /\ UNCHANGED <<staterVars, run, cancelled, stopVars>>

WatcherExit(r) ==
    /\ watcher[r] \in {"select", "notified"}
    /\ r \in cancelled \/ shutdown
    /\ watcher' = [watcher EXCEPT ![r] = "gone"]
    /\ notify' = [notify EXCEPT ![r] = "closed"]
    /\ UNCHANGED <<staterVars, run, cancelled, stopVars>>

-----------------------------------------------------------------------------
(* Stopping. *)

(* Real.Stop signals the shutdown of the real, at any time.                 *)
Stop(r) ==
    /\ r \notin stopped
    /\ stopped' = stopped \cup {r}
    /\ UNCHANGED <<staterVars, run, watcher, notify, cancelled, shutdown>>

(* Faulty variant: the context is cancelled only for a real that was        *)
(* stopped before it started to wait.                                       *)
CancelEarly(r) ==
    /\ r \in stopped \ cancelled
    /\ run[r] = "start"
    /\ cancelled' = cancelled \cup {r}
    /\ UNCHANGED <<staterVars, run, watcher, notify, stopVars>>

(* The goroutine of waitActivation that passes the shutdown of the real on  *)
(* to the context.                                                          *)
Cancel(r) ==
    /\ r \in stopped \ cancelled
    /\ cancelled' = cancelled \cup {r}
    /\ UNCHANGED <<staterVars, run, watcher, notify, stopVars>>

(* Balancer.Stop.  The application stops the core, and with it every real,  *)
(* before; a goroutine that the worker pool has not counted yet may still   *)
(* be about to start.                                                       *)
BalancerStop ==
    /\ stopped = RealKeys
    /\ ~shutdown
    /\ shutdown' = TRUE
    /\ UNCHANGED <<staterVars, run, watcher, notify, cancelled, stopped>>

-----------------------------------------------------------------------------
StaterNext == (\E reply \in {lb, Failed} : GetState(reply)) \/ Update \/ SkipUpdate \/ StaterExit

RunNext(r) == LookupSubscription(r) \/ Activated(r) \/ Refused(r)

WatcherNext(r) == Subscribe(r) \/ Lookup(r) \/ WatcherExit(r)

Next ==
    \/ StaterNext
    \/ \E r \in RealKeys : \/ RunNext(r) \/ WatcherNext(r) \/ Cancel(r)
                           \/ Reconfigure(r) \/ Stop(r)
    \/ BalancerStop

Spec == Init /\ [][Next]_vars

(* The ticker fires and not all requests fail; goroutines run; a select     *)
(* whose context is cancelled takes that case in the end, since Go chooses  *)
(* among ready cases at random.                                             *)
FairSpec ==
    /\ Spec
    /\ WF_vars(StaterNext)
    /\ SF_vars(GetState(lb))
    /\ \A r \in RealKeys :
          /\ WF_vars(RunNext(r))
          /\ WF_vars(WatcherNext(r))
          /\ SF_vars(WatcherExit(r))
          /\ WF_vars(Cancel(r))

-----------------------------------------------------------------------------
TypeOK ==
    /\ lb \in SUBSET RealKeys
    /\ known \in SUBSET RealKeys
    /\ stater \in {"start", "first", "idle", "asked", "off"}
    /\ answer \in (SUBSET RealKeys) \cup {Failed}
    /\ run \in [RealKeys -> {"start", "waiting", "active", "refused"}]
    /\ watcher \in [RealKeys -> {"none", "subscribe", "select", "notified", "gone"}]
    /\ notify \in [RealKeys -> {"open", "sent", "closed"}]
    /\ cancelled \in SUBSET RealKeys
    /\ stopped \in SUBSET RealKeys
    /\ shutdown \in BOOLEAN
    /\ reported \in SUBSET RealKeys

(* What a real finds in its subscription is true: a value only if its key   *)
(* was reported, a closed channel or a cancelled context only if it is      *)
(* stopped (or does not wait any more).                                     *)
SubscriptionInv(r) ==
    /\ notify[r] = "sent" => r \in reported
    /\ notify[r] = "closed" \/ r \in cancelled => r \in stopped \/ run[r] = "active"

(* The inductive invariant behind ImplementsActivation: the subscriptions   *)
(* tell the truth, a known state was reported, and the balancer is shut     *)
(* down only after all reals.                                               *)
SyncInv ==
    /\ TypeOK
    /\ known \subseteq reported
    /\ shutdown => stopped = RealKeys
    /\ \A r \in RealKeys : SubscriptionInv(r)

Phase == [r \in RealKeys |-> IF run[r] = "start" THEN "waiting" ELSE run[r]]

A == INSTANCE Activation WITH phase <- Phase

(* A real is activated only after the load balancer reported it, and gives  *)
(* up only when it is stopped, whatever updates, cancellations and lookups  *)
(* interleave (LookupSubscription, realActivationFunc and waitActivation).  *)
ImplementsActivation == A!Spec

(* A real that is in the load balancer for good and is not stopped is       *)
(* activated, although updates between a lookup and the next subscription   *)
(* are missed: every later update notifies anew.                            *)
PresentIsActivated ==
    \A r \in RealKeys :
        <>[](r \in lb /\ r \notin stopped) => <>(run[r] = "active")

(* A stopped real does not wait for ever, and its watcher does not outlive  *)
(* it: the pool of the service waits for the one, and the other would leak. *)
StopEndsWait ==
    \A r \in RealKeys :
        r \in stopped ~> /\ run[r] \in {"active", "refused"}
                         /\ watcher[r] \in {"none", "gone"}
=============================================================================
