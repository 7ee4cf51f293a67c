---------------------------- MODULE MCLifecycle ----------------------------
(* Instances of Lifecycle: two services, one of which comes and goes, and   *)
(* whose settings change.                                                   *)
EXTENDS Lifecycle

CONSTANTS svc1, svc2, srv1, srv2, rpc1

Item(k, v) == [key |-> k, version |-> v]

MCFiles == {<<Item(svc1, 1)>>, <<Item(svc1, 2), Item(svc2, 1)>>, <<>>}

(* They meet the hypothesis of the theorems of LifecycleProofs.             *)
ASSUME MCDistinctKeys == Files = MCFiles => DistinctKeys

(* A file that names a service twice: OneServicePerKey fails.               *)
RepeatedFiles == {<<Item(svc1, 1), Item(svc1, 2)>>}
=============================================================================
