---------------------------- MODULE Announcement ----------------------------
(***************************************************************************)
(* What the announcer promises: what BIRD announces in a group is what was  *)
(* ready there at one moment, all of it and nothing else, and each such     *)
(* state is taken and delivered before the next one is.  Once it is told to *)
(* stop, it withdraws group after group; what it still takes is ready then, *)
(* though perhaps not all of it, and services may still come and go.        *)
(* Implemented by Announcer.                                                *)
(***************************************************************************)
CONSTANTS Prefix, Group

VARIABLES
    ready,      \* of each group: the prefixes that ought to be announced
    goal,       \* what was taken last
    announced,  \* what is announced
    phase       \* "running", "stopping" or "closed"

vars == <<ready, goal, announced, phase>>

Nothing == [g \in Group |-> {}]

Init == ready = Nothing /\ goal = Nothing /\ announced = Nothing /\ phase = "running"

(* Reloads and health checks, which nobody waits for when the announcer stops. *)
Change ==
    /\ ready' \in [Group -> SUBSET Prefix]
    /\ UNCHANGED <<goal, announced, phase>>

Take ==
    /\ phase # "closed"
    /\ goal = announced
    /\ goal' \in [Group -> SUBSET Prefix]
    /\ \A g \in Group : goal'[g] \subseteq ready[g]
    /\ phase = "running" => goal' = ready
    /\ UNCHANGED <<ready, announced, phase>>

Deliver(g) ==
    /\ phase # "closed"
    /\ announced' = [announced EXCEPT ![g] = goal[g]]
    /\ UNCHANGED <<ready, goal, phase>>

Stop ==
    /\ phase = "running"
    /\ phase' = "stopping"
    /\ UNCHANGED <<ready, goal, announced>>

Withdraw(g) ==
    /\ phase = "stopping"
    /\ \E now \in SUBSET announced[g], left \in SUBSET goal[g] :
          /\ announced' = [announced EXCEPT ![g] = now]
          /\ goal' = [goal EXCEPT ![g] = left]
    /\ UNCHANGED <<ready, phase>>

Close ==
    /\ phase = "stopping"
    /\ phase' = "closed"
    /\ goal' = announced
    /\ UNCHANGED <<ready, announced>>

Next ==
    \/ Change \/ Take \/ Stop \/ Close
    \/ \E g \in Group : Deliver(g) \/ Withdraw(g)

Spec == Init /\ [][Next]_vars
=============================================================================
