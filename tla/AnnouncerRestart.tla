-------------------------- MODULE AnnouncerRestart --------------------------
(***************************************************************************)
(* The announcer together with BIRD restarts and the state requests they   *)
(* cause: Announcer.stateRequestHandler, one goroutine per group.  The     *)
(* handler reads the prefixes of its group and their statuses under two    *)
(* different locks and sends the answer with none, next to an updater that *)
(* flushes and sends on its own.                                           *)
(***************************************************************************)
EXTENDS Announcer

VARIABLES
    request,   \* external: a state request waits in the socket of the group
    handler,   \* where the group's handler goroutine is
    listed,    \* the handler's local prefixes, from GetPrefixes
    answer,    \* the listed prefixes that StatusFor found Ready
    dirty      \* auxiliary: an announce of the group changed since BIRD's
               \* start, that start found an earlier answer on its way, or the
               \* handler read a registry that lacks a ready prefix

handlerVars == <<request, handler, listed, answer, dirty>>
restartVars == <<vars, handlerVars>>

InitRestart ==
    /\ Init
    /\ request = [g \in Group |-> FALSE]
    /\ handler = [g \in Group |-> "listening"]
    /\ listed = [g \in Group |-> {}]
    /\ answer = [g \in Group |-> {}]
    /\ dirty = [g \in Group |-> FALSE]

-----------------------------------------------------------------------------
(* External: BIRD goes away and its announces with it ...                   *)
BirdStop(g) ==
    /\ birdUp[g]
    /\ birdUp' = [birdUp EXCEPT ![g] = FALSE]
    /\ announced' = [announced EXCEPT ![g] = {}]
    /\ UNCHANGED <<prefixVars, events, groupByPrefix, reloading, located, batch,
                   stopVars, handlerVars>>

(* ... and comes back, asking for the state of the group.  A request that   *)
(* is still queued is not queued twice: one answer after the start serves   *)
(* both.                                                                    *)
BirdStart(g) ==
    /\ ~birdUp[g]
    /\ birdUp' = [birdUp EXCEPT ![g] = TRUE]
    /\ request' = [request EXCEPT ![g] = TRUE]
    /\ dirty' = [dirty EXCEPT ![g] = handler[g] # "listening"]
    /\ UNCHANGED <<prefixVars, events, groupByPrefix, reloading, located, batch,
                   announced, stopVars, handler, listed, answer>>

-----------------------------------------------------------------------------
(* A ready prefix that ReloadServices has not put into the group registry   *)
(* yet: it was removed and added again while UpdateService held neither     *)
(* lock.                                                                    *)
Unlisted(g) == reloading /\ \E p \in Prefix : Effective(p, g) /\ groupByPrefix[p] # g

(* ListenStateRequest returns; after Client.Shutdown it fails instead and   *)
(* the handler ends.  GetPrefixes takes the lock of the group registry.     *)
ListPrefixes(g) ==
    /\ handler[g] = "listening"
    /\ request[g]
    /\ stop # "closed"
    /\ request' = [request EXCEPT ![g] = FALSE]
    /\ listed' = [listed EXCEPT ![g] = {p \in Prefix : groupByPrefix[p] = g}]
    /\ handler' = [handler EXCEPT ![g] = "listed"]
    /\ dirty' = [dirty EXCEPT ![g] = @ \/ Unlisted(g)]
    /\ UNCHANGED <<vars, answer>>

(* Faulty variant: every known prefix is taken for ready.                   *)
StatusForKnown(g) ==
    /\ handler[g] = "listed"
    /\ answer' = [answer EXCEPT ![g] = {p \in listed[g] : group[p] # NoGroup}]
    /\ handler' = [handler EXCEPT ![g] = "answering"]
    /\ UNCHANGED <<vars, request, listed, dirty>>

(* Prefixes.StatusFor: the status of the prefix, in whatever group it is    *)
(* by now; Unready for a prefix that is gone.                               *)
StatusFor(g) ==
    /\ handler[g] = "listed"
    /\ answer' = [answer EXCEPT
                    ![g] = {p \in listed[g] : group[p] # NoGroup /\ PrefixIsReady(p)}]
    /\ handler' = [handler EXCEPT ![g] = "answering"]
    /\ UNCHANGED <<vars, request, listed, dirty>>

(* Faulty variant: the statuses are collected but not sent.                 *)
AnswerDropped(g) ==
    /\ handler[g] = "answering"
    /\ handler' = [handler EXCEPT ![g] = "listening"]
    /\ listed' = [listed EXCEPT ![g] = {}]
    /\ answer' = [answer EXCEPT ![g] = {}]
    /\ UNCHANGED <<vars, request, dirty>>

Answer(g) ==
    /\ handler[g] = "answering"
    /\ ProcessBatch(g, answer[g], listed[g] \ answer[g])
    /\ handler' = [handler EXCEPT ![g] = "listening"]
    /\ listed' = [listed EXCEPT ![g] = {}]
    /\ answer' = [answer EXCEPT ![g] = {}]
    /\ UNCHANGED <<prefixVars, events, groupByPrefix, reloading, located, batch,
                   stopVars, request, dirty>>

-----------------------------------------------------------------------------
(* A step of the announcer itself; dirty records a change of what BIRD      *)
(* ought to announce.                                                       *)
AnnouncerStep ==
    /\ Next
    /\ dirty' = [g \in Group |->
                    dirty[g] \/ \E p \in Prefix : Effective(p, g) # Effective(p, g)']
    /\ UNCHANGED <<request, handler, listed, answer>>

NextRestart ==
    \/ AnnouncerStep
    \/ \E g \in Group : BirdStop(g)
    \/ \E g \in Group : BirdStart(g)
    \/ \E g \in Group : ListPrefixes(g)
    \/ \E g \in Group : StatusFor(g)
    \/ \E g \in Group : Answer(g)

(* The handler goroutine of every group keeps running, and so does the      *)
(* updater.                                                                 *)
RestartFairness ==
    /\ WF_restartVars(AnnouncerStep /\ Flush)
    /\ \A g \in Group :
          /\ WF_restartVars(AnnouncerStep /\ Send(g))
          /\ WF_restartVars(ListPrefixes(g))
          /\ WF_restartVars(StatusFor(g))
          /\ WF_restartVars(Answer(g))

SpecRestart == InitRestart /\ [][NextRestart]_restartVars
FairSpecRestart == SpecRestart /\ RestartFairness

-----------------------------------------------------------------------------
TypeOKRestart ==
    /\ TypeOK
    /\ request \in [Group -> BOOLEAN]
    /\ handler \in [Group -> {"listening", "listed", "answering"}]
    /\ listed \in [Group -> SUBSET Prefix]
    /\ answer \in [Group -> SUBSET Prefix]
    /\ dirty \in [Group -> BOOLEAN]

InSync(g) == announced[g] = {p \in Prefix : Effective(p, g)}

(* Nothing is on its way to BIRD for group g.                               *)
Settled(g) ==
    /\ birdUp[g] /\ ~request[g] /\ handler[g] = "listening"
    /\ \A k \in Pending(events) \cup Pending(batch) : k[2] # g

(* A restart heals the group: whatever was lost before, BIRD is in sync     *)
(* once the state request is answered and the pending events are sent,      *)
(* unless a prefix changed its readiness after BIRD came back, an answer    *)
(* read before that was still to be sent, or the request fell between the   *)
(* two locks of a reload that adds a prefix an update made ready already.   *)
RestartHeals ==
    \A g \in Group :
        stop = "no" /\ Settled(g) /\ ~dirty[g] => InSync(g)

(* A state request is answered in the end: BIRD gets in sync with the       *)
(* prefixes unless they change again or it goes away again.                 *)
RestartLeadsToSync ==
    \A g \in Group :
        (birdUp[g] /\ ~dirty[g])
            ~> (InSync(g) \/ dirty[g] \/ ~birdUp[g] \/ stop # "no")

(* "updating external announcer state acording to the internal one"         *)
(* (Announcer.Run): with everything sent, BIRD announces no prefix that is  *)
(* not ready.                                                               *)
SettledNotStale ==
    \A g \in Group :
        stop = "no" /\ Settled(g) => announced[g] \subseteq {p \in Prefix : Effective(p, g)}

-----------------------------------------------------------------------------
(* The inductive invariant behind RestartHeals, for stable groups.          *)

(* The last thing recorded for a prefix is its readiness, and only a change *)
(* is recorded: an event behind a batch that is still under way is the      *)
(* opposite of it.                                                          *)
EventsAgree(p, g) ==
    LET pending == events[<<p, g>>]
    IN  /\ pending = Ready => Effective(p, g)
        /\ pending = Unready => ~Effective(p, g)
        /\ batch[<<p, g>>] = Ready =>
              pending = (IF Effective(p, g) THEN NoEvent ELSE Unready)
        /\ batch[<<p, g>>] = Unready =>
              pending = (IF Effective(p, g) THEN Ready ELSE NoEvent)

(* But for a reload under way, the group registry has the known prefixes.   *)
Registered == ~reloading => groupByPrefix = group

(* All groups in use come from configurations.                              *)
AllConfigured ==
    /\ GroupsConfigured
    /\ \A p \in Prefix : groupByPrefix[p] # NoGroup => Configured(p, groupByPrefix[p])
    /\ \A g \in Group : \A p \in listed[g] : Configured(p, g)

(* The handler is going to announce p in g.                                 *)
Underway(p, g) ==
    \/ request[g]
    \/ handler[g] = "listed" /\ p \in listed[g]
    \/ handler[g] = "answering" /\ p \in answer[g]

(* As long as the group is not dirty, the handler's answer is right, and    *)
(* where the updater has nothing to send BIRD announces what is ready, or   *)
(* the handler is going to.                                                 *)
CleanInv(g) ==
    /\ handler[g] = "answering" => answer[g] = {p \in listed[g] : Effective(p, g)}
    /\ birdUp[g] =>
          \A p \in Prefix :
              events[<<p, g>>] = NoEvent /\ batch[<<p, g>>] = NoEvent =>
                  /\ p \in announced[g] => Effective(p, g)
                  /\ Effective(p, g) => p \in announced[g] \/ Underway(p, g)

HealInv ==
    /\ TypeOKRestart /\ UnknownIsClean /\ Registered /\ AllConfigured
    /\ stop = "no" =>
          \A g \in Group :
              /\ ~birdUp[g] => announced[g] = {}
              /\ \A p \in Prefix : EventsAgree(p, g)
              /\ ~dirty[g] => CleanInv(g)
=============================================================================
