----------------------------- MODULE Deliveries -----------------------------
(***************************************************************************)
(* The delivery of an order (DeliveriesService) and the four-digit code    *)
(* that closes it (DeliveryOtpService), composed with the order row of      *)
(* OrderLifecycle: the order follows the run of its courier.                *)
(*                                                                          *)
(* A delivery row is written by its primary key, with no condition on its  *)
(* status; the row lock makes a second writer wait for the first to commit. *)
(* A transaction that reads the order before it writes it is two steps,     *)
(* because READ COMMITTED lets another request commit in between; so is the *)
(* issue of a code, whose UPDATE cannot see a code not committed yet.       *)
(*                                                                          *)
(* The codes of a delivery are kept in the order of their creation; nothing *)
(* deletes them.                                                            *)
(***************************************************************************)
EXTENDS OrderLifecycle, Sequences, FiniteSets

CONSTANTS
  Couriers,     \* the couriers
  Hands,        \* the contexts that run a handler of DeliveriesService
  MaxAttempts,  \* DELIVERY_OTP_CONFIG.maxAttempts
  MaxResends,   \* DELIVERY_OTP_CONFIG.maxResends
  MaxCodes      \* bound: codes issued for one delivery

NoCourier == "NoCourier"
ASSUME NoCourierAssumption == NoCourier \notin Couriers
ASSUME MaxAttemptsAssumption == MaxAttempts \in Nat
ASSUME MaxResendsAssumption == MaxResends \in Nat
ASSUME MaxCodesAssumption == MaxCodes \in Nat
ASSUME HandsAssumption == IsFiniteSet(Hands)

VARIABLES
  delivery,     \* the delivery row of each order; "NONE" before it exists
  closureMode,  \* delivery.closureMode
  otp,          \* the codes of each delivery: "ACTIVE", "USED" or "INVALID", with their attempts
  accepted,     \* history: verifications that answered yes, per order
  hand          \* the handlers: what each wants (to), what it has read (sees, code)

runVars == <<delivery, closureMode, otp, accepted, hand>>
deliveryVars == <<vars, runVars>>

Free == [at |-> "idle", order |-> NoOrder, courier |-> NoCourier, to |-> "NONE",
         sees |-> "NONE", code |-> 0]

\* Before any delivery, no order is on the road or delivered.
DeliveryInit ==
  /\ Init
  /\ \A o \in Orders : status[o] \notin {"OUT_FOR_DELIVERY", "DELIVERED"}
  /\ delivery = [o \in Orders |-> [status |-> "NONE", courier |-> NoCourier]]
  /\ closureMode = [o \in Orders |-> "NONE"]
  /\ otp = [o \in Orders |-> <<>>]
  /\ accepted = [o \in Orders |-> 0]
  /\ hand = [h \in Hands |-> Free]

-----------------------------------------------------------------------------
(* Contexts and rows.                                                      *)

Moves(h, at) == hand' = [hand EXCEPT ![h].at = at]
Leaves(h) == hand' = [hand EXCEPT ![h] = Free]
Enters(h, at, o, k, to, sees) ==
  /\ hand[h].at = "idle"
  /\ hand' = [hand EXCEPT ![h] = [at |-> at, order |-> o, courier |-> k, to |-> to,
                                  sees |-> sees, code |-> 0]]

\* No other transaction holds the lock of the delivery row.
Unlocked(h) ==
  \A g \in Hands \ {h} :
    ~ (hand[g].at \in {"updateCommit", "closeCommit"} /\ hand[g].order = hand[h].order)

tables == <<delivery, closureMode, otp, accepted>>

\* The order goes to s unless it already is there or, as seen, cancelled.
orderFollows(o, s, seen) ==
  IF seen \notin {s, "CANCELLED"}
    THEN updateStatusOf(o, s)
    ELSE UNCHANGED <<status, returned, revived>>

ActiveCodes(o) == {i \in DOMAIN otp[o] : otp[o][i].state = "ACTIVE"}

LatestActive(o) == CHOOSE i \in ActiveCodes(o) : \A j \in ActiveCodes(o) : j <= i

-----------------------------------------------------------------------------
(* assign.                                                                 *)

REASSIGNABLE == {"UNASSIGNED", "ASSIGNED", "FAILED"}

\* The order and its delivery are read; only a cancelled order is refused.
Assign(h, o, k) ==
  /\ status[o] # "CANCELLED"
  /\ delivery[o].status \in REASSIGNABLE \cup {"NONE"}
  /\ Enters(h, "assign", o, k, "NONE", delivery[o].status)
  /\ UNCHANGED <<vars, tables>>

(* A row that existed is claimed by a conditional update; otherwise one is  *)
(* created, which the unique index on the order refuses to a second caller. *)
AssignClaim(h) ==
  LET o == hand[h].order IN
  /\ hand[h].at = "assign"
  /\ Unlocked(h)
  /\ IF hand[h].sees = "NONE"
       THEN delivery[o].status = "NONE"
       ELSE delivery[o].status \in REASSIGNABLE
  /\ delivery' = [delivery EXCEPT ![o] = [status |-> "ASSIGNED", courier |-> hand[h].courier]]
  /\ Leaves(h)
  /\ UNCHANGED <<vars, closureMode, otp, accepted>>

-----------------------------------------------------------------------------
(* updateStatus.                                                           *)

\* Faulty variant: the courier may set any status of the table.
CourierUpdateAnything(h, o, k, s) ==
  /\ delivery[o].status # "NONE"
  /\ delivery[o].courier = k
  /\ canTransitionDelivery(delivery[o].status, s) \/ s = "DELIVERED"
  /\ Enters(h, "update", o, k, s, "NONE")
  /\ UNCHANGED <<vars, tables>>

\* The courier of the run asks for the next status of the table.
CourierUpdate(h, o, k, s) ==
  /\ delivery[o].status # "NONE"
  /\ delivery[o].courier = k
  /\ s \in COURIER_SETTABLE
  /\ canTransitionDelivery(delivery[o].status, s)
  /\ Enters(h, "update", o, k, s, "NONE")
  /\ UNCHANGED <<vars, tables>>

\* In the transaction: the delivery row is locked, the order is read.
UpdateReads(h) ==
  /\ hand[h].at = "update"
  /\ Unlocked(h)
  /\ hand' = [hand EXCEPT ![h].at = "updateCommit", ![h].sees = status[hand[h].order]]
  /\ UNCHANGED <<vars, tables>>

\* What the order becomes when the delivery reaches s: nothing for the others.
ORDER_STATUS_FOR_DELIVERY(s) ==
  CASE s \in {"IN_TRANSIT", "ARRIVED"} -> {"OUT_FOR_DELIVERY"}
    [] s = "DELIVERED" -> {"DELIVERED"}
    [] s = "FAILED" -> {"READY"}
    [] OTHER -> {}

\* The delivery and the order that follows it are written together.
UpdateCommits(h) ==
  LET o == hand[h].order
      s == hand[h].to IN
  /\ hand[h].at = "updateCommit"
  /\ delivery' = [delivery EXCEPT ![o].status = s]
  /\ IF ORDER_STATUS_FOR_DELIVERY(s) = {}
       THEN UNCHANGED <<status, returned, revived>>
       ELSE \E next \in ORDER_STATUS_FOR_DELIVERY(s) : orderFollows(o, next, hand[h].sees)
  /\ IF s = "IN_TRANSIT" THEN Moves(h, "issue") ELSE Leaves(h)
  /\ UNCHANGED <<reservation, req, closureMode, otp, accepted>>

-----------------------------------------------------------------------------
(* The code.                                                               *)

\* resendOtp: the run is on its way and the codes are not exhausted.
Resend(h, o) ==
  /\ delivery[o].status \in {"IN_TRANSIT", "ARRIVED"}
  /\ Len(otp[o]) <= MaxResends
  /\ Enters(h, "issue", o, NoCourier, "NONE", "NONE")
  /\ UNCHANGED <<vars, tables>>

\* issue: the UPDATE that invalidates sees the codes committed by now.
IssueInvalidates(h) ==
  /\ hand[h].at = "issue"
  /\ hand' = [hand EXCEPT ![h].at = "issueCommit", ![h].code = Len(otp[hand[h].order])]
  /\ UNCHANGED <<vars, tables>>

NewCode == [state |-> "ACTIVE", attempts |-> 0]

Invalidated(code) == IF code.state = "ACTIVE" THEN [code EXCEPT !.state = "INVALID"] ELSE code

IssueCommits(h) ==
  LET o == hand[h].order IN
  /\ hand[h].at = "issueCommit"
  /\ Len(otp[o]) < MaxCodes
  /\ otp' = [otp EXCEPT ![o] =
               Append([i \in DOMAIN @ |-> IF i <= hand[h].code THEN Invalidated(@[i]) ELSE @[i]],
                      NewCode)]
  /\ Leaves(h)
  /\ UNCHANGED <<vars, delivery, closureMode, accepted>>

\* verifyOtp: the courier has arrived and enters four digits.
Verify(h, o, k) ==
  /\ delivery[o].status = "ARRIVED"
  /\ delivery[o].courier = k
  /\ Enters(h, "verify", o, k, "NONE", "NONE")
  /\ UNCHANGED <<vars, tables>>

\* The latest usable code is read and compared: right or wrong digits.
VerifyReads(h) ==
  LET o == hand[h].order
      i == LatestActive(o) IN
  /\ hand[h].at = "verify"
  /\ delivery[o].courier = hand[h].courier
  /\ ActiveCodes(o) # {}
  /\ otp[o][i].attempts < MaxAttempts
  /\ \E point \in {"consume", "countFailure"} :
       hand' = [hand EXCEPT ![h].at = point, ![h].code = i]
  /\ UNCHANGED <<vars, tables>>

\* Wrong digits: the failure is counted, then reported.
CountFailure(h) ==
  /\ hand[h].at = "countFailure"
  /\ otp' = [otp EXCEPT ![hand[h].order][hand[h].code].attempts = @ + 1]
  /\ Leaves(h)
  /\ UNCHANGED <<vars, delivery, closureMode, accepted>>

\* Faulty variant: the code is consumed without looking at it again.
ConsumeBlindly(h) ==
  /\ hand[h].at = "consume"
  /\ otp' = [otp EXCEPT ![hand[h].order][hand[h].code].state = "USED"]
  /\ accepted' = [accepted EXCEPT ![hand[h].order] = @ + 1]
  /\ Moves(h, "close")
  /\ UNCHANGED <<vars, delivery, closureMode>>

\* Right digits: the conditional update lets one request through.
Consume(h) ==
  /\ hand[h].at = "consume"
  /\ otp[hand[h].order][hand[h].code].state = "ACTIVE"
  /\ otp' = [otp EXCEPT ![hand[h].order][hand[h].code].state = "USED"]
  /\ accepted' = [accepted EXCEPT ![hand[h].order] = @ + 1]
  /\ Moves(h, "close")
  /\ UNCHANGED <<vars, delivery, closureMode>>

-----------------------------------------------------------------------------
(* Closing.                                                                *)

\* In the closing transaction: the delivery row is locked, the order read.
CloseReads(h) ==
  /\ hand[h].at = "close"
  /\ Unlocked(h)
  /\ hand' = [hand EXCEPT ![h].at = "closeCommit", ![h].sees = status[hand[h].order]]
  /\ UNCHANGED <<vars, tables>>

CloseCommits(h) ==
  LET o == hand[h].order IN
  /\ hand[h].at = "closeCommit"
  /\ delivery' = [delivery EXCEPT ![o].status = "DELIVERED"]
  /\ closureMode' = [closureMode EXCEPT ![o] = "CLIENT_OTP"]
  /\ orderFollows(o, "DELIVERED", hand[h].sees)
  /\ Moves(h, "finalise")
  /\ UNCHANGED <<reservation, req, otp, accepted>>

\* closeManually: the manager reads the order and its delivery, once.
ManagerCloses(h, o) ==
  /\ delivery[o].status \in {"IN_TRANSIT", "ARRIVED"}
  /\ Enters(h, "override", o, NoCourier, "NONE", status[o])
  /\ UNCHANGED <<vars, tables>>

\* Codes still usable lapse and the run is closed on what was read.
OverrideCommits(h) ==
  LET o == hand[h].order IN
  /\ hand[h].at = "override"
  /\ Unlocked(h)
  /\ otp' = [otp EXCEPT ![o] = [i \in DOMAIN @ |-> Invalidated(@[i])]]
  /\ delivery' = [delivery EXCEPT ![o].status = "DELIVERED"]
  /\ closureMode' = [closureMode EXCEPT ![o] = "MANAGER_OVERRIDE"]
  /\ orderFollows(o, "DELIVERED", hand[h].sees)
  /\ Moves(h, "finalise")
  /\ UNCHANGED <<reservation, req, accepted>>

\* `finaliser`: an open reservation can no longer be released.
siteFinaliser(o) ==
  reservation' =
    [reservation EXCEPT ![o] = IF @ \in {"RESERVED", "CONFIRMED"} THEN "FINALISED" ELSE @]

\* The call to the site; when it does not answer a warning is logged.
Finalise(h) ==
  /\ hand[h].at = "finalise"
  /\ siteFinaliser(hand[h].order) \/ UNCHANGED reservation
  /\ Leaves(h)
  /\ UNCHANGED <<status, returned, revived, req, tables>>

(* A check of the handler fails (the code's hour is over, the last code is   *)
(* less than a minute old), or the process stops: nothing more is written.  *)
HandAbandons(h) ==
  /\ hand[h].at # "idle"
  /\ Leaves(h)
  /\ UNCHANGED <<vars, tables>>

-----------------------------------------------------------------------------
HandEnters(h) ==
  \E o \in Orders :
    \/ Resend(h, o) \/ ManagerCloses(h, o)
    \/ \E k \in Couriers : Assign(h, o, k) \/ Verify(h, o, k)
    \/ \E k \in Couriers, s \in DELIVERY_STATUSES : CourierUpdate(h, o, k, s)

HandStep(h) ==
  \/ AssignClaim(h) \/ UpdateReads(h) \/ UpdateCommits(h)
  \/ IssueInvalidates(h) \/ IssueCommits(h)
  \/ VerifyReads(h) \/ CountFailure(h) \/ Consume(h)
  \/ CloseReads(h) \/ CloseCommits(h) \/ OverrideCommits(h) \/ Finalise(h)

DeliveryNext ==
  \/ Next /\ UNCHANGED runVars
  \/ \E h \in Hands : HandEnters(h) \/ HandStep(h) \/ HandAbandons(h)

DeliverySpec == DeliveryInit /\ [][DeliveryNext]_deliveryVars

-----------------------------------------------------------------------------
(* Properties.                                                             *)

UsedCodes(o) == {i \in DOMAIN otp[o] : otp[o][i].state = "USED"}

(* "Un livreur ne peut donc jamais déclarer une commande livrée": an order   *)
(* is delivered, and its reservation finalised, only after a code of its own *)
(* was consumed or a manager closed the run, whatever the couriers send.     *)
DeliveredOnlyByCodeOrManager ==
  \A o \in Orders :
    /\ status[o] = "DELIVERED" \/ reservation[o] = "FINALISED" => closureMode[o] # "NONE"
    /\ closureMode[o] = "CLIENT_OTP" => UsedCodes(o) # {}

(* "Deux requêtes simultanées avec le bon code ne valident qu'une seule      *)
(* fois": every positive verification consumed a code of its own.  The limit *)
(* of attempts is read before the failure is counted, so parallel requests   *)
(* may pass it, but only by one failure for each other request.             *)
CodesHoldTheirLimits ==
  \A o \in Orders :
    /\ accepted[o] = Cardinality(UsedCodes(o))
    /\ \A i \in DOMAIN otp[o] :
         otp[o][i].attempts <= MaxAttempts + (Cardinality(Hands) - 1)
=============================================================================
