---------------------------- MODULE OrderStatus ----------------------------
(***************************************************************************)
(* The status vocabularies and transition tables that the API and the      *)
(* mobile application share (packages/contracts), and the predicates the   *)
(* services read them through.  No state: every other module extends or    *)
(* instantiates this one.                                                   *)
(***************************************************************************)

ORDER_STATUSES ==
  {"PENDING", "CONFIRMED", "PREPARING", "READY", "OUT_FOR_DELIVERY",
   "DELIVERED", "CANCELLED"}

\* The table of allowed order transitions; DELIVERED and CANCELLED are final.
ORDER_TRANSITIONS ==
  [s \in ORDER_STATUSES |->
     CASE s = "PENDING"          -> {"CONFIRMED", "CANCELLED"}
       [] s = "CONFIRMED"        -> {"PREPARING", "CANCELLED"}
       [] s = "PREPARING"        -> {"READY", "CANCELLED"}
       [] s = "READY"            -> {"OUT_FOR_DELIVERY", "CANCELLED"}
       [] s = "OUT_FOR_DELIVERY" -> {"DELIVERED", "READY", "CANCELLED"}
       [] OTHER                  -> {}]

canTransition(from, to) == to \in ORDER_TRANSITIONS[from]

\* The nominal course of an order: a cancellation interrupts it.
ORDER_PROGRESS_STEPS == ORDER_STATUSES \ {"CANCELLED"}

CLIENT_CANCELLABLE_STATUSES == {"PENDING", "CONFIRMED", "PREPARING", "READY"}

isCancellableByClient(s) == s \in CLIENT_CANCELLABLE_STATUSES

isCancellableByManager(s) == s \notin {"DELIVERED", "CANCELLED", "OUT_FOR_DELIVERY"}

\* The next status a manager may set from s: a set with at most one member.
managerActionFor(s) ==
  CASE s = "PENDING"   -> {"CONFIRMED"}
    [] s = "CONFIRMED" -> {"PREPARING"}
    [] s = "PREPARING" -> {"READY"}
    [] OTHER           -> {}

\* Statuses in which the goods of the order are still set aside for it.
STOCK_HELD_STATUSES == ORDER_STATUSES \ {"DELIVERED", "CANCELLED"}

-----------------------------------------------------------------------------
(* Deliveries.                                                             *)

DELIVERY_STATUSES ==
  {"UNASSIGNED", "ASSIGNED", "ACCEPTED", "IN_TRANSIT", "ARRIVED", "OTP_VERIFIED",
   "DELIVERED", "FAILED"}

\* The only way back is a failed run that the office hands out again.
DELIVERY_TRANSITIONS ==
  [s \in DELIVERY_STATUSES |->
     CASE s = "UNASSIGNED"   -> {"ASSIGNED"}
       [] s = "ASSIGNED"     -> {"ACCEPTED", "UNASSIGNED"}
       [] s = "ACCEPTED"     -> {"IN_TRANSIT", "FAILED"}
       [] s = "IN_TRANSIT"   -> {"ARRIVED", "FAILED"}
       [] s = "ARRIVED"      -> {"OTP_VERIFIED", "FAILED"}
       [] s = "OTP_VERIFIED" -> {"DELIVERED"}
       [] s = "FAILED"       -> {"ASSIGNED"}
       [] OTHER              -> {}]

canTransitionDelivery(from, to) == to \in DELIVERY_TRANSITIONS[from]

\* Closing a run does not belong to the courier.
COURIER_SETTABLE == {"ACCEPTED", "IN_TRANSIT", "ARRIVED", "FAILED"}
=============================================================================
