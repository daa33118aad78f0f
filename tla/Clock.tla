------------------------------- MODULE Clock -------------------------------
(* The time the request path of the resolver reads, in ticks.              *)
EXTENDS Naturals

CONSTANT Horizon  \* bound on the time a behaviour lasts

ASSUME HorizonAssumption == Horizon \in Nat

VARIABLE now

Tick == now < Horizon /\ now' = now + 1
=============================================================================
