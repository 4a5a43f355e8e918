------------------------------- MODULE WallClock -------------------------------
(* The clock that the handlers of one server read. *)
EXTENDS Naturals

CONSTANT MaxTime   \* bound on the clock

ASSUME ClockAssumption == MaxTime \in Nat

VARIABLE now

Tick == now < MaxTime /\ now' = now + 1
===============================================================================
