---------------------------- MODULE MCDeliveries ----------------------------
(* Small instances of Deliveries: one order, its couriers and a few         *)
(* handlers at once.  Couriers and contexts are interchangeable.            *)
EXTENDS Deliveries, TLC

CONSTANTS o1, r1, k1, k2, h1, h2

(* The full course is explored from an order that is ready, its reservation *)
(* confirmed; an earlier status only lengthens the course.                  *)
ReadyInit ==
  /\ DeliveryInit
  /\ \A o \in Orders : status[o] = "READY" /\ reservation[o] = "CONFIRMED"

ReadySpec == ReadyInit /\ [][DeliveryNext]_deliveryVars

SymmetricHands == Permutations({k1, k2}) \cup Permutations({h1, h2})
=============================================================================
