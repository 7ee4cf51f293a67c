--------------------------- MODULE EventRegistry ---------------------------
(***************************************************************************)
(* The generic event registry of internal/utils/event_registry and the     *)
(* three Merge methods its values have in this program.                    *)
(*                                                                         *)
(* A registry is the Go map events: a total function from keys to values   *)
(* in which NoEvent stands for "the key is not in the map".  A Merge       *)
(* method returns (result, remove); here it returns the value that is in   *)
(* the map afterwards, NoEvent when remove is true.  Every operation of    *)
(* the registry holds its mutex for its whole duration, so each operator   *)
(* is one atomic step of whoever calls it.                                 *)
(***************************************************************************)
EXTENDS Integers

CONSTANT NoEvent

(* PrefixStatus of internal/announcer/prefix.go. *)
Ready == "Ready"
Unready == "Unready"
PrefixStatus == {Ready, Unready}

(* ServiceStatus of internal/announcer/prefix.go. *)
ServiceEnabled == "ServiceEnabled"
ServiceDisabled == "ServiceDisabled"
ServiceStatus == {ServiceEnabled, ServiceDisabled}

ASSUME NoEventAssumption == NoEvent \notin PrefixStatus \cup ServiceStatus

-----------------------------------------------------------------------------
(* Two different statuses cancel each other: the pending one is removed    *)
(* and the new one is not recorded either.                                 *)
PrefixStatusMerge(status, newStatus) ==
    IF status # newStatus THEN NoEvent ELSE newStatus

ServiceStatusMerge(status, newStatus) ==
    IF status # newStatus THEN NoEvent ELSE newStatus

-----------------------------------------------------------------------------
EmptyRegistry(K) == [k \in K |-> NoEvent]

(* What the map holds for a key after Store of value, given what it held    *)
(* and what Merge makes of the two.                                         *)
Stored(old, value, merged) ==
    IF old = NoEvent THEN value ELSE merged

StoredPrefix(old, value) == Stored(old, value, PrefixStatusMerge(old, value))

StoredService(old, value) == Stored(old, value, ServiceStatusMerge(old, value))

(* Process: the events the processor accepted are removed, the others stay. *)
Processed(events, accepted) ==
    [k \in DOMAIN events |-> IF k \in accepted THEN NoEvent ELSE events[k]]

Pending(events) == {k \in DOMAIN events : events[k] # NoEvent}
=============================================================================
