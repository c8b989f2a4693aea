------------------------------- MODULE Screens -------------------------------
(***************************************************************************)
(* One order seen from the screens of the application: which buttons each   *)
(* screen offers for what it shows, which of them the server accepts, and    *)
(* what the order, its payment and its delivery become.  A screen may show   *)
(* an old state: somebody else has acted since it was refreshed.  Each       *)
(* handler is one step here; their interleavings are in the other modules.   *)
(***************************************************************************)
EXTENDS OrderStatus, Access, FiniteSets

CONSTANTS
  Couriers,      \* the active couriers
  Declarations,  \* the transfers the customer may declare
  ScreenNames    \* the screens that may be open while the others move the order

VARIABLES
  row,       \* the rows of the database: order, payment, declarations, delivery
  screen     \* the screen that is open, and what it shows

screenVars == <<row, screen>>

Nobody == "nobody"
NoDelivery == "NONE"

Screens == {"commande", "paiement", "file", "gestion", "paiements", "course"}

ASSUME ScreenAssumption ==
  /\ IsFiniteSet(Couriers) /\ Nobody \notin Couriers
  /\ Declarations # {}
  /\ ScreenNames \subseteq Screens

MANAGER_QUEUE_STATUSES == {"PENDING", "CONFIRMED", "PREPARING", "READY"}
awaitsCourierAssignment(s) == s = "READY"
REASSIGNABLE == {"UNASSIGNED", "ASSIGNED", "FAILED"}
UNDERWAY == {"IN_TRANSIT", "ARRIVED"}
CLOSED == {"DELIVERED", "FAILED"}
RESUMABLE == {"PENDING", "AWAITING_CONFIRMATION", "EXPIRED"}

\* The order has just been placed.
ScreenInit ==
  /\ \E method \in {"MOBILE_MONEY", "DIRECT_MOBILE_MONEY", "CASH_ON_DELIVERY"} :
       row = [order |-> "PENDING", method |-> method, payment |-> "PENDING",
              declaration |-> [t \in Declarations |-> "NONE"],
              delivery |-> NoDelivery, courier |-> Nobody, code |-> FALSE]
  /\ \E s \in ScreenNames : screen = [of |-> s, view |-> row]

-----------------------------------------------------------------------------
(* What the screens offer.  A request names the handler it reaches.        *)

Press(do, arg) == [do |-> do, arg |-> arg]
When(condition, request) == IF condition THEN {request} ELSE {}

\* app/commandes/[reference]: cancel, resume the payment, ask for the code again.
OrderButtons(v) ==
  When(isCancellableByClient(v.order), Press("cancel", "CANCELLED"))
    \cup When(v.method = "MOBILE_MONEY" /\ v.payment \in RESUMABLE, Press("initiate", ""))
    \cup When(v.order = "OUT_FOR_DELIVERY", Press("resendOtp", ""))

\* app/paiement/[reference]: declare a transfer.
TransferButtons(v) ==
  IF v.method = "DIRECT_MOBILE_MONEY" /\ v.payment # "SUCCEEDED"
  THEN {Press("declare", t) : t \in Declarations} ELSE {}

hasCourier(v) == v.courier # Nobody /\ v.delivery # "FAILED"

\* Faulty variant: a ready order waits for its next status, not for a courier.
managerAdvanceAlways(v) ==
  {Press("updateOrderStatus", next) : next \in ORDER_TRANSITIONS[v.order] \ {"CANCELLED"}}

managerAdvance(v) ==
  IF awaitsCourierAssignment(v.order) /\ ~ hasCourier(v)
  THEN {Press("assign", c) : c \in Couriers}
  ELSE {Press("updateOrderStatus", next) : next \in managerActionFor(v.order)}

\* app/gestion: the queue lists what is to be prepared.
QueueButtons(v) == IF v.order \in MANAGER_QUEUE_STATUSES THEN managerAdvance(v) ELSE {}

\* app/gestion/[reference]: the order is looked for in that queue.
canClose(v) == v.order = "OUT_FOR_DELIVERY"
ManagerButtons(v) ==
  IF v.order \in MANAGER_QUEUE_STATUSES
  THEN managerAdvance(v)
         \cup When(isCancellableByManager(v.order), Press("updateOrderStatus", "CANCELLED"))
         \cup When(canClose(v), Press("closeManually", ""))
  ELSE {}

\* app/gestion/paiements: the declarations that wait, and those already decided.
DeclarationButtons(v) ==
  UNION {When(v.declaration[t] # "NONE" /\ v.payment \notin {"SUCCEEDED", "REJECTED"}, Press("CONFIRM", t))
           \cup When(v.declaration[t] # "NONE", Press("REJECT", t)) : t \in Declarations}

NEXT_ACTION ==
  [s \in DELIVERY_STATUSES |->
     CASE s = "ASSIGNED" -> {"ACCEPTED"}
       [] s = "ACCEPTED" -> {"IN_TRANSIT"}
       [] s = "IN_TRANSIT" -> {"ARRIVED"}
       [] OTHER -> {}]

\* app/tournee/[id], on the phone of the courier whose run it is.
RunButtons(v) ==
  IF v.delivery = NoDelivery THEN {}
  ELSE {Press("updateStatus", next) : next \in NEXT_ACTION[v.delivery]}
         \cup When(v.delivery = "ARRIVED", Press("verifyOtp", ""))
         \cup When(v.delivery \notin CLOSED \cup {"ASSIGNED"}, Press("updateStatus", "FAILED"))

\* The runs of the list of the courier; those that are over are listed on demand.
listMine(v) == v.courier # Nobody /\ v.delivery \notin CLOSED

\* What the card of the run tells him to collect at the door: "PAID" is no status
\* of a payment, so the words stay whatever the payment becomes.
toCollect(v) == listMine(v) /\ v.method = "CASH_ON_DELIVERY" /\ v.payment # "PAID"

\* Whom the customer is told to expect the next move of, by the status of the payment.
PAYMENT_STATUS_PRESENTATION(s) ==
  CASE s \in {"DECLARED_BY_CUSTOMER", "UNDER_REVIEW"} -> "AGRIM"
    [] s \in {"SUCCEEDED", "REFUNDED"}                -> "AUCUN"
    [] OTHER                                          -> "CLIENT"

Buttons(s, v) ==
  CASE s = "commande"  -> OrderButtons(v)
    [] s = "paiement"  -> TransferButtons(v)
    [] s = "file"      -> QueueButtons(v)
    [] s = "gestion"   -> ManagerButtons(v)
    [] s = "paiements" -> DeclarationButtons(v)
    [] s = "course"    -> RunButtons(v)

\* The courier of the view presses; the server looks for his own delivery.
Presser(s, v) == IF s = "course" THEN v.courier ELSE Nobody

-----------------------------------------------------------------------------
(* The handlers.                                                           *)

Cancelled(r) == [r EXCEPT !.order = "CANCELLED"]

\* The guard of each handler, on the rows as they are.
Accepts(r, who, b) ==
  CASE b.do = "cancel" -> isCancellableByClient(r.order)
    [] b.do = "initiate" ->
         /\ r.method = "MOBILE_MONEY" /\ r.payment # "SUCCEEDED"
         /\ r.order # "CANCELLED"
    [] b.do = "resendOtp" -> r.delivery \in UNDERWAY
    [] b.do = "declare" ->
         /\ r.order # "CANCELLED" /\ r.payment # "SUCCEEDED"
         /\ r.declaration[b.arg] = "NONE"
    [] b.do = "updateOrderStatus" ->
         /\ canTransition(r.order, b.arg)
         /\ IF b.arg = "CANCELLED" THEN isCancellableByManager(r.order)
            ELSE b.arg \in managerActionFor(r.order)
    [] b.do = "assign" -> r.order # "CANCELLED" /\ r.delivery \in REASSIGNABLE \cup {NoDelivery}
    [] b.do = "closeManually" -> r.delivery \in UNDERWAY
    [] b.do \in {"CONFIRM", "REJECT"} -> r.payment # "SUCCEEDED"
    [] b.do = "updateStatus" ->
         /\ r.courier = who
         /\ b.arg \in COURIER_SETTABLE /\ canTransitionDelivery(r.delivery, b.arg)
    [] b.do = "verifyOtp" -> r.courier = who /\ r.delivery = "ARRIVED" /\ r.code

\* Faulty variant: a failed attempt leaves the order on the road.
ORDER_STATUS_WHILE_RUNNING(s) ==
  CASE s \in UNDERWAY -> {"OUT_FOR_DELIVERY"} [] s = "DELIVERED" -> {"DELIVERED"} [] OTHER -> {}

ORDER_STATUS_FOR_DELIVERY(s) ==
  CASE s \in UNDERWAY   -> {"OUT_FOR_DELIVERY"}
    [] s = "DELIVERED" -> {"DELIVERED"}
    [] s = "FAILED"    -> {"READY"}
    [] OTHER           -> {}

\* The delivery moves, and takes the order along unless it is cancelled.
Delivers(r, s) ==
  [r EXCEPT !.delivery = s,
            !.code = IF s = "IN_TRANSIT" THEN TRUE ELSE IF s \in CLOSED THEN FALSE ELSE @,
            !.order = IF @ = "CANCELLED" \/ ORDER_STATUS_FOR_DELIVERY(s) = {} THEN @
                      ELSE CHOOSE next \in ORDER_STATUS_FOR_DELIVERY(s) : TRUE]

\* What the handler leaves in the rows.
Handled(r, b) ==
  CASE b.do = "cancel" -> Cancelled(r)
    [] b.do = "initiate" -> [r EXCEPT !.payment = "AWAITING_CONFIRMATION"]
    [] b.do = "resendOtp" -> [r EXCEPT !.code = TRUE]
    [] b.do = "declare" ->
         [r EXCEPT !.payment = "DECLARED_BY_CUSTOMER", !.declaration[b.arg] = "DECLARED"]
    [] b.do = "updateOrderStatus" -> [r EXCEPT !.order = b.arg]
    [] b.do = "assign" -> [r EXCEPT !.delivery = "ASSIGNED", !.courier = b.arg]
    [] b.do = "closeManually" -> Delivers(r, "DELIVERED")
    [] b.do = "CONFIRM" ->
         [r EXCEPT !.payment = "SUCCEEDED", !.declaration[b.arg] = "ACCEPTED",
                   !.order = IF @ = "PENDING" THEN "CONFIRMED" ELSE @]
    [] b.do = "REJECT" -> [r EXCEPT !.payment = "REJECTED", !.declaration[b.arg] = "REJECTED"]
    [] b.do = "updateStatus" -> Delivers(r, b.arg)
    [] b.do = "verifyOtp" -> Delivers(r, "DELIVERED")

-----------------------------------------------------------------------------
(* Steps.                                                                  *)

\* A button of the open screen, whatever the order has become since; on success
\* the queries of the screen are invalidated, an error leaves the view as it is.
PressButton ==
  \E b \in Buttons(screen.of, screen.view) :
    IF Accepts(row, Presser(screen.of, screen.view), b)
    THEN row' = Handled(row, b) /\ screen' = [screen EXCEPT !.view = row']
    ELSE UNCHANGED screenVars

\* Somebody else presses a button of a screen that shows the order as it is.
PressElsewhere ==
  \E s \in Screens : \E b \in Buttons(s, row) :
    /\ Accepts(row, Presser(s, row), b)
    /\ row' = Handled(row, b)
    /\ UNCHANGED screen

\* The screen is refreshed, or another is opened.
OpenScreen ==
  /\ \E s \in ScreenNames : screen' = [of |-> s, view |-> row]
  /\ UNCHANGED row

\* The aggregator settles the payment (PaymentsService).
PaymentSettles ==
  /\ row.method = "MOBILE_MONEY" /\ row.payment \in {"PENDING", "AWAITING_CONFIRMATION"}
  /\ \/ row' = [row EXCEPT !.payment = "SUCCEEDED",
                           !.order = IF @ = "PENDING" THEN "CONFIRMED" ELSE @]
     \/ \E says \in {"FAILED", "EXPIRED"} :
          row' = [row EXCEPT !.payment = says,
                             !.order = IF @ \in STOCK_HELD_STATUSES THEN "CANCELLED" ELSE @]
  /\ UNCHANGED screen

\* The code expires, or its attempts run out.
CodeIsSpent ==
  /\ row.code
  /\ row' = [row EXCEPT !.code = FALSE]
  /\ UNCHANGED screen

ScreenNext == PressButton \/ PressElsewhere \/ OpenScreen \/ PaymentSettles \/ CodeIsSpent

ScreenSpec == ScreenInit /\ [][ScreenNext]_screenVars

-----------------------------------------------------------------------------
(* Properties.                                                             *)

\* The code may be wrong or spent; a payment may be resumed on a cancelled order.
Uncertain == {"verifyOtp", "initiate"}

\* The group of screens each of them belongs to, and the customers who may open it.
SpaceOf(s) == CASE s = "commande" -> "commandes" [] s = "course" -> "tournee" [] OTHER -> "gestion"
Visitors(s) == IF s = "commande" THEN {"CLIENT"} ELSE Spaces(SpaceOf(s))

\* Whoever is told to pay, or to wait for AGRIM, may count on a button.
SomebodyCanAct(r) ==
  LET next == PAYMENT_STATUS_PRESENTATION(r.payment) IN
  r.method = "DIRECT_MOBILE_MONEY" =>
    /\ next = "CLIENT" => TransferButtons(r) # {}
    /\ next = "AGRIM" => \E b \in DeclarationButtons(r) :
                          b.do = "CONFIRM" /\ Accepts(r, Nobody, b)

(* What the staff, the courier and the customer are offered, on a screen     *)
(* that is up to date, the server accepts, from every role that may open the *)
(* screen: the tables of the buttons, the guards of the handlers and the     *)
(* roles of the routes, written in as many places, agree in every state the  *)
(* order, its payment and its delivery reach together.  A run that calls for *)
(* its courier is in his list, nothing paid is collected at the door, and    *)
(* whoever the payment is said to wait for has a button to move it.         *)
ButtonsWork ==
  /\ ScreensReachTheirRoutes
  /\ \A s \in {"commande", "file", "gestion", "course"} : \A b \in Buttons(s, row) :
       /\ \A who \in Visitors(s) : canActivate(Identity(who, b.do), b.do)
       /\ b.do \notin Uncertain => Accepts(row, Presser(s, row), b)
  /\ RunButtons(row) # {} => listMine(row)
  /\ toCollect(row) => row.payment # "SUCCEEDED"
  /\ SomebodyCanAct(row)

(* The order follows its delivery: it is on the road exactly while a courier *)
(* is, and delivered exactly when he has delivered, however stale the        *)
(* screens that moved either; only a cancelled order leaves it.             *)
OrderFollowsItsDelivery ==
  row.order # "CANCELLED" =>
    /\ row.order = "OUT_FOR_DELIVERY" <=> row.delivery \in UNDERWAY
    /\ row.order = "DELIVERED" <=> row.delivery = "DELIVERED"

(* What the screens offer and what the rows reach hold together: a button    *)
(* that works on an order that had drifted from its delivery would have the  *)
(* person act on something that is not there.                               *)
ScreensAndRowsAgree == ButtonsWork /\ OrderFollowsItsDelivery
=============================================================================
