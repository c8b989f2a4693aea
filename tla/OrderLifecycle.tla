--------------------------- MODULE OrderLifecycle ---------------------------
(***************************************************************************)
(* The order row of apps/api and the requests of the two people who move   *)
(* it from a screen: the customer, who cancels (OrdersService.cancel), and *)
(* the manager, who advances or cancels (ManagementService).               *)
(*                                                                          *)
(* Every handler reads the row in one database round trip, decides on what *)
(* it read, and writes in a later transaction; several requests are served *)
(* at the same time, so a request context is a small state machine and the *)
(* contexts interleave.  PostgreSQL runs READ COMMITTED: a transaction     *)
(* whose only effect on the row is one UPDATE is one step, and the WHERE   *)
(* of that UPDATE is evaluated on the row as it is at that step.           *)
(*                                                                          *)
(* The stock of an order is held by the web site, an external service, as  *)
(* a reservation; orders older than the reservation service, and the local *)
(* stock mode, have none ("NONE"): their goods go back inside the          *)
(* cancelling transaction.                                                 *)
(***************************************************************************)
EXTENDS Naturals, OrderStatus

CONSTANTS
  Orders,      \* the orders
  Requests,    \* the request contexts of the API: how many requests run at once
  Advancers,   \* the contexts among them that may serve a manager's "advance"
  MaxReturns   \* bound: no new cancellation of an order whose goods came back this often

ASSUME AdvancersAssumption == Advancers \subseteq Requests
ASSUME MaxReturnsAssumption == MaxReturns \in Nat

NoOrder == "NoOrder"
NoStatus == "NoStatus"
ASSUME NoOrderAssumption == NoOrder \notin Orders

VARIABLES
  status,       \* order.status
  returned,     \* ANNULATION movements of the order in the stock journal
  revived,      \* history: writes that took the order out of CANCELLED
  reservation,  \* the reservation of the order at the web site
  req           \* the request contexts

orderVars == <<status, returned, revived, reservation>>
vars == <<status, returned, revived, reservation, req>>

\* The states of a reservation at the site.
RESERVATION_STATES ==
  {"NONE", "RESERVED", "CONFIRMED", "RELEASED", "EXPIRED", "FINALISED"}

Idle == [at |-> "idle", order |-> NoOrder, target |-> NoStatus]

\* A request between two database or network calls of its handler.
Context ==
  [at : {"idle", "cancelTxn", "advanceTxn", "releaseCall"},
   order : Orders \cup {NoOrder},
   target : ORDER_STATUSES \cup {NoStatus}]

TypeOK ==
  /\ status \in [Orders -> ORDER_STATUSES]
  /\ returned \in [Orders -> Nat]
  /\ revived \in [Orders -> Nat]
  /\ reservation \in [Orders -> RESERVATION_STATES]
  /\ req \in [Requests -> Context]

(* Orders exist already: they may stand anywhere on their nominal course,  *)
(* and their reservation is confirmed, or still counting down because the  *)
(* confirmation after creation failed, or absent.                          *)
Init ==
  /\ status \in [Orders -> ORDER_PROGRESS_STEPS]
  /\ returned = [o \in Orders |-> 0]
  /\ revived = [o \in Orders |-> 0]
  /\ reservation \in [Orders -> {"NONE", "RESERVED", "CONFIRMED"}]
  /\ req = [r \in Requests |-> Idle]

-----------------------------------------------------------------------------
(* Writes of the order row, shared with the modules that extend this one.  *)

\* Faulty variant: the switch forgets the WHERE on the status.
cancelWithoutCondition(o) ==
  /\ status' = [status EXCEPT ![o] = "CANCELLED"]
  /\ returned' = [returned EXCEPT ![o] = @ + 1]
  /\ UNCHANGED revived

\* The conditional switch of cancelOrderAndReleaseStock, when it wins.
cancelOrderAndReleaseStock(o) ==
  /\ status[o] \in STOCK_HELD_STATUSES
  /\ status' = [status EXCEPT ![o] = "CANCELLED"]
  /\ returned' = [returned EXCEPT ![o] = @ + 1]
  /\ UNCHANGED revived

\* order.update({ data: { status } }) with no condition on the row.
updateStatusOf(o, s) ==
  /\ status' = [status EXCEPT ![o] = s]
  /\ revived' = [revived EXCEPT ![o] = IF status[o] = "CANCELLED" THEN @ + 1 ELSE @]
  /\ UNCHANGED returned

-----------------------------------------------------------------------------
(* The web site.                                                           *)

\* `liberer`: a reservation that is not settled goes back to the shelf.
siteLiberer(o) ==
  reservation' =
    [reservation EXCEPT ![o] = IF @ \in {"RESERVED", "CONFIRMED"} THEN "RELEASED" ELSE @]

\* The countdown of a reservation nobody confirmed reaches its end.
SiteExpires(o) ==
  /\ reservation[o] = "RESERVED"
  /\ reservation' = [reservation EXCEPT ![o] = "EXPIRED"]
  /\ UNCHANGED <<status, returned, revived, req>>

-----------------------------------------------------------------------------
(* Requests.                                                               *)

Starts(r, at, o, s) == req' = [req EXCEPT ![r] = [at |-> at, order |-> o, target |-> s]]

Ends(r) == req' = [req EXCEPT ![r] = Idle]

\* Faulty variant: the reservation is released before the order is cancelled.
ClientCancelReleasingFirst(r, o) ==
  /\ req[r].at = "idle"
  /\ returned[o] < MaxReturns
  /\ isCancellableByClient(status[o])
  /\ siteLiberer(o)
  /\ Starts(r, "cancelTxn", o, NoStatus)
  /\ UNCHANGED <<status, returned, revived>>

\* OrdersService.cancel up to the transaction: the status read decides.
ClientCancel(r, o) ==
  /\ req[r].at = "idle"
  /\ returned[o] < MaxReturns
  /\ isCancellableByClient(status[o])
  /\ Starts(r, "cancelTxn", o, NoStatus)
  /\ UNCHANGED orderVars

\* ManagementService.updateOrderStatus asked for CANCELLED, up to cancelOrder.
ManagerCancel(r, o) ==
  /\ req[r].at = "idle"
  /\ returned[o] < MaxReturns
  /\ canTransition(status[o], "CANCELLED")
  /\ isCancellableByManager(status[o])
  /\ Starts(r, "cancelTxn", o, NoStatus)
  /\ UNCHANGED orderVars

\* Faulty variant: the manager's action is not looked up, any status may follow.
ManagerAdvanceAnywhere(r, o, s) ==
  /\ r \in Advancers
  /\ req[r].at = "idle"
  /\ s \in ORDER_PROGRESS_STEPS
  /\ Starts(r, "advanceTxn", o, s)
  /\ UNCHANGED orderVars

\* updateOrderStatus asked for anything else, up to its transaction.
ManagerAdvance(r, o, s) ==
  /\ r \in Advancers
  /\ req[r].at = "idle"
  /\ canTransition(status[o], s)
  /\ s \in managerActionFor(status[o])
  /\ Starts(r, "advanceTxn", o, s)
  /\ UNCHANGED orderVars

(* The cancelling transaction wins: the order is cancelled, its goods are   *)
(* returned, and the reservation, if there is one, is released next.       *)
CancelWins(r) ==
  LET o == req[r].order IN
  /\ req[r].at = "cancelTxn"
  /\ cancelOrderAndReleaseStock(o)
  /\ IF reservation[o] = "NONE" THEN Ends(r) ELSE Starts(r, "releaseCall", o, NoStatus)
  /\ UNCHANGED reservation

\* `released: false`: someone else settled the order; 409, nothing written.
CancelLoses(r) ==
  /\ req[r].at = "cancelTxn"
  /\ status[req[r].order] \notin STOCK_HELD_STATUSES
  /\ Ends(r)
  /\ UNCHANGED orderVars

\* releaseReservation: the site answers and has released.
ReleaseSucceeds(r) ==
  /\ req[r].at = "releaseCall"
  /\ siteLiberer(req[r].order)
  /\ Ends(r)
  /\ UNCHANGED <<status, returned, revived>>

\* The site does not answer: a warning is logged, nothing retries.
ReleaseFails(r) ==
  /\ req[r].at = "releaseCall"
  /\ Ends(r)
  /\ UNCHANGED orderVars

\* The manager's transaction: an unconditional update of the row.
AdvanceTxn(r) ==
  /\ req[r].at = "advanceTxn"
  /\ updateStatusOf(req[r].order, req[r].target)
  /\ Ends(r)
  /\ UNCHANGED reservation

\* The process is recycled, or the database refuses: the request is gone.
Abandoned(r) ==
  /\ req[r].at # "idle"
  /\ Ends(r)
  /\ UNCHANGED orderVars

Starting(r) ==
  \E o \in Orders :
    \/ ClientCancel(r, o)
    \/ ManagerCancel(r, o)
    \/ \E s \in ORDER_STATUSES : ManagerAdvance(r, o, s)

Serving(r) ==
  CancelWins(r) \/ CancelLoses(r) \/ ReleaseSucceeds(r) \/ ReleaseFails(r) \/ AdvanceTxn(r)

Next ==
  \/ \E o \in Orders : SiteExpires(o)
  \/ \E r \in Requests : Starting(r) \/ Serving(r) \/ Abandoned(r)

Spec == Init /\ [][Next]_vars

-----------------------------------------------------------------------------
(* Properties.                                                             *)

Cancellations(o) == IF status[o] = "CANCELLED" THEN 1 ELSE 0

(* The goods of an order went back exactly as many times as the order      *)
(* entered CANCELLED: a double tap on "Annuler", or a customer and a        *)
(* manager cancelling together, return them once, because the conditional  *)
(* UPDATE of cancelOrderAndReleaseStock has a single winner.               *)
StockReturnedOncePerCancellation ==
  \A o \in Orders : returned[o] = revived[o] + Cancellations(o)

(* The site is only ever told to release the reservation of an order whose *)
(* cancellation is already committed: the loser of a race releases nothing *)
(* and no handler calls the site before its transaction.                   *)
ReleaseFollowsCancellation ==
  \A o \in Orders :
    reservation[o] = "RELEASED" => status[o] = "CANCELLED" \/ revived[o] > 0

(* "Bascule la commande en CANCELLED et rend son stock, une seule fois":    *)
(* over its whole life an order's goods go back to the shelf at most once. *)
ReturnedAtMostOnce == \A o \in Orders : returned[o] <= 1

Contract == INSTANCE OrderContract
  WITH Orders <- Orders, status <- status, returned <- returned

(* The handlers implement the order contract: every status change is in    *)
(* the shared table and goods move only with a cancellation.               *)
ImplementsOrderContract == Contract!Spec
=============================================================================
