----------------------------- MODULE MCStateSync -----------------------------
(* One real that comes and goes in the load balancer, next to the poller.   *)
(* Reals meet only in the updates, which treat each one alike.              *)
EXTENDS StateSync

CONSTANT real1
=============================================================================
