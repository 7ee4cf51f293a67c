----------------------------- MODULE Activation -----------------------------
(***************************************************************************)
(* What a new real is promised: it waits until the load balancer has        *)
(* reported it, and then becomes active; it gives up only when it has been  *)
(* told to stop.  Implemented by StateSync.                                 *)
(***************************************************************************)
CONSTANT RealKeys

VARIABLES
    phase,      \* of each real: "waiting", "active" or "refused"
    reported,   \* the reals the load balancer has ever reported
    stopped     \* the reals told to stop

vars == <<phase, reported, stopped>>

Init ==
    /\ phase = [r \in RealKeys |-> "waiting"]
    /\ reported = {}
    /\ stopped = {}

Report ==
    /\ reported' \in {S \in SUBSET RealKeys : reported \subseteq S}
    /\ UNCHANGED <<phase, stopped>>

Stop(r) ==
    /\ stopped' = stopped \cup {r}
    /\ UNCHANGED <<phase, reported>>

Activate(r) ==
    /\ phase[r] = "waiting"
    /\ r \in reported
    /\ phase' = [phase EXCEPT ![r] = "active"]
    /\ UNCHANGED <<reported, stopped>>

Refuse(r) ==
    /\ phase[r] = "waiting"
    /\ r \in stopped
    /\ phase' = [phase EXCEPT ![r] = "refused"]
    /\ UNCHANGED <<reported, stopped>>

Next == Report \/ \E r \in RealKeys : Stop(r) \/ Activate(r) \/ Refuse(r)

Spec == Init /\ [][Next]_vars
=============================================================================
