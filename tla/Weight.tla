------------------------------- MODULE Weight -------------------------------
(* internal/types/weight: the weight of a real and the damped approach to a *)
(* weight a check reports.                                                  *)
EXTENDS Integers

Omitted == -1

(* What a keepalived configuration or a check response may yield: parsing   *)
(* maps everything that is not a natural number to Omitted.                 *)
Weights == Nat \cup {Omitted}

SmallerOf(x, y) == IF x < y THEN x ELSE y
LargerOf(x, y) == IF x > y THEN x ELSE y

(* The step towards the reported weight: coeff percent of the old one, at   *)
(* least 1.  Both operands are natural, so \div is Go's division.           *)
Step(old, coeff) ==
    IF (old * coeff) \div 100 = 0 THEN 1 ELSE (old * coeff) \div 100

(* weight.Recalculate(old, coeff) *)
Recalculate(weight, old, coeff) ==
    CASE weight < 0 /\ old < 0 -> Omitted
      [] weight < 0 /\ old >= 0 -> old
      [] weight >= 0 /\ old < 0 -> weight
      [] weight >= 0 /\ old >= 0 /\ coeff = 0 -> weight
      [] weight >= 0 /\ old >= 0 /\ coeff # 0 /\ weight > old ->
             SmallerOf(old + Step(old, coeff), weight)
      [] OTHER -> LargerOf(old - Step(old, coeff), weight)

(* Weight.Uint32, the weight in a request to the load balancer.  The weights *)
(* of the models stay below 2^32, where the conversion would wrap.           *)
Uint32(weight) == IF weight < 0 THEN 0 ELSE weight
=============================================================================
