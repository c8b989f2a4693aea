--------------------------- MODULE OrderPlacement ---------------------------
(***************************************************************************)
(* The creation of an order while the web site owns the stock:              *)
(* OrdersService.create, which the guest checkout calls too, the checkout  *)
(* screen of the mobile application that calls it, and the web site that    *)
(* reserves, confirms and releases the goods.                               *)
(*                                                                          *)
(* The same attempt may be served twice at once: the application gives up  *)
(* after fifteen seconds and sends its idempotency key again.  Every call   *)
(* to the site takes place outside the database transaction, and its answer *)
(* may be lost although the site has done the work.                         *)
(*                                                                          *)
(* A purchase is one unit of one product.  OrderLifecycle takes over once   *)
(* the order exists.                                                        *)
(***************************************************************************)
EXTENDS Integers, FiniteSets

CONSTANTS
  Customers,  \* customers at the checkout screen, one purchase each
  Requests,   \* the contexts that run OrdersService.create
  Stock,      \* units on the shelf of the site
  MaxUses,    \* promoCode.maxUses of the one promotion code
  MaxKeys     \* bound: idempotency keys a customer's screen draws

NoCustomer == "NoCustomer"
NoRequest == "NoRequest"
ASSUME CustomersAssumption == NoCustomer \notin Customers
ASSUME RequestsAssumption == NoRequest \notin Requests
ASSUME StockAssumption == Stock \in Nat
ASSUME MaxUsesAssumption == MaxUses \in Nat
ASSUME MaxKeysAssumption == MaxKeys \in Nat \ {0}

Keys == Customers \X (1..MaxKeys)

VARIABLES
  screen,       \* the checkout screen of each customer
  request,      \* the contexts of the handler
  orders,       \* keys of the orders in the database
  discounted,   \* keys of the orders created with the code's discount
  used,         \* promoCode.usedCount
  redemptions,  \* keys of the orders in promo_code_redemptions
  reservation,  \* the site's reservation of each key
  disturbed     \* history: keys of a failed transaction, a lost confirmation or a dead process

database == <<orders, discounted, used, redemptions>>
vars == <<screen, request, database, reservation, disturbed>>

Idle == [at |-> "idle", customer |-> NoCustomer, n |-> 0, code |-> FALSE, answer |-> "NONE"]

\* n: the ordinal of the attempt's key; code: a discount is asked for, then granted.
RequestContext ==
  [at : {"idle", "replay", "check", "reserve", "create", "compensate", "confirm", "redeem",
         "answer"},
   customer : Customers \cup {NoCustomer},
   n : 0..MaxKeys,
   code : BOOLEAN,
   answer : {"NONE", "order", "refused", "error"}]

\* n: the ordinal of the key in use, sent up to MaxKeys; awaits: the request it waits for.
Screen == [n : Nat \ {0}, awaits : Requests \cup {NoRequest}, done : BOOLEAN]

RESERVATION_STATES == {"NONE", "RESERVED", "CONFIRMED", "RELEASED", "EXPIRED"}

PlacementTypeOK ==
  /\ screen \in [Customers -> Screen]
  /\ request \in [Requests -> RequestContext]
  /\ orders \subseteq Keys
  /\ discounted \subseteq orders
  /\ used \in 0..MaxUses
  /\ redemptions \subseteq orders
  /\ reservation \in [Keys -> RESERVATION_STATES]
  /\ disturbed \subseteq Keys

Init ==
  /\ screen = [c \in Customers |-> [n |-> 1, awaits |-> NoRequest, done |-> FALSE]]
  /\ request = [r \in Requests |-> Idle]
  /\ orders = {}
  /\ discounted = {}
  /\ used = 0
  /\ redemptions = {}
  /\ reservation = [k \in Keys |-> "NONE"]
  /\ disturbed = {}

-----------------------------------------------------------------------------
(* The site.                                                               *)

Held(k) == reservation[k] \in {"RESERVED", "CONFIRMED"}
Shelf == Stock - Cardinality({k \in Keys : Held(k)})

\* A key that holds goods is answered `rejeu` and takes nothing more.
Grants(k) == Held(k) \/ Shelf > 0

siteReserver(k) ==
  reservation' = IF Held(k) THEN reservation ELSE [reservation EXCEPT ![k] = "RESERVED"]
siteLiberer(k) ==
  reservation' = IF Held(k) THEN [reservation EXCEPT ![k] = "RELEASED"] ELSE reservation
siteConfirmer(k) ==
  reservation' = IF reservation[k] = "RESERVED"
                   THEN [reservation EXCEPT ![k] = "CONFIRMED"]
                   ELSE reservation

Key(r) == <<request[r].customer, request[r].n>>
InFlight(k) == \E r \in Requests : request[r].at # "idle" /\ Key(r) = k

\* Thirty minutes, which no request lasts, after a reservation nothing confirmed.
SiteExpires(k) ==
  /\ reservation[k] = "RESERVED"
  /\ ~ InFlight(k)
  /\ reservation' = [reservation EXCEPT ![k] = "EXPIRED"]
  /\ UNCHANGED <<screen, request, database, disturbed>>

-----------------------------------------------------------------------------
(* The checkout screen.                                                    *)

\* The order is sent, with or without the promotion code.
Submit(c, r) ==
  /\ screen[c].awaits = NoRequest
  /\ ~ screen[c].done
  /\ screen[c].n <= MaxKeys
  /\ request[r].at = "idle"
  /\ \E code \in BOOLEAN :
       request' = [request EXCEPT ![r] = [at |-> "replay", customer |-> c, n |-> screen[c].n,
                                          code |-> code, answer |-> "NONE"]]
  /\ screen' = [screen EXCEPT ![c].awaits = r]
  /\ UNCHANGED <<database, reservation, disturbed>>

\* No answer in time, or no network: the key is kept.
GiveUp(c) ==
  /\ screen[c].awaits # NoRequest
  /\ screen' = [screen EXCEPT ![c].awaits = NoRequest]
  /\ UNCHANGED <<request, database, reservation, disturbed>>

\* The key survives an error 5xx; a refusal 4xx draws another.
AnswerArrives(r) ==
  LET c == request[r].customer IN
  /\ request[r].at = "answer"
  /\ request' = [request EXCEPT ![r] = Idle]
  /\ screen' = IF screen[c].awaits # r THEN screen
               ELSE [screen EXCEPT ![c] =
                       [n |-> @.n + (IF request[r].answer = "refused" THEN 1 ELSE 0),
                        awaits |-> NoRequest,
                        done |-> request[r].answer = "order"]]
  /\ UNCHANGED <<database, reservation, disturbed>>

-----------------------------------------------------------------------------
(* OrdersService.create.                                                   *)

Moves(r, at) == request' = [request EXCEPT ![r].at = at]
Answers(r, a) == request' = [request EXCEPT ![r].at = "answer", ![r].answer = a]

\* The order of the key is returned as it is; nothing is confirmed again.
Replay(r) ==
  /\ request[r].at = "replay"
  /\ IF Key(r) \in orders THEN Answers(r, "order") ELSE Moves(r, "check")
  /\ UNCHANGED <<screen, database, reservation, disturbed>>

\* evaluatePromoCode: quota of the code, then one use per telephone number.
CodeAllowed(c) == used < MaxUses /\ ~ \E k \in redemptions : k[1] = c

(* The catalogue refuses (withdrawn, short), the delivery grid is unknown,  *)
(* the promotion code is refused, or everything is in order.                *)
Check(r) ==
  /\ request[r].at = "check"
  /\ \/ Answers(r, "refused")
     \/ Answers(r, "error")
     \/ (request[r].code => CodeAllowed(request[r].customer)) /\ Moves(r, "reserve")
  /\ UNCHANGED <<screen, database, reservation, disturbed>>

ReserveGranted(r) ==
  /\ request[r].at = "reserve"
  /\ Grants(Key(r))
  /\ siteReserver(Key(r))
  /\ Moves(r, "create")
  /\ UNCHANGED <<screen, database, disturbed>>

ReserveRefused(r) ==
  /\ request[r].at = "reserve"
  /\ ~ Grants(Key(r))
  /\ Answers(r, "refused")
  /\ UNCHANGED <<screen, database, reservation, disturbed>>

\* No answer from the site, which may have taken the goods or not: the order is refused.
ReserveUnavailable(r) ==
  /\ request[r].at = "reserve"
  /\ (Grants(Key(r)) /\ siteReserver(Key(r))) \/ UNCHANGED reservation
  /\ Answers(r, "error")
  /\ UNCHANGED <<screen, database, disturbed>>

\* The transaction: counter, journal, order and payment, all or nothing.
Create(r) ==
  /\ request[r].at = "create"
  /\ Key(r) \notin orders
  /\ orders' = orders \cup {Key(r)}
  /\ discounted' = IF request[r].code THEN discounted \cup {Key(r)} ELSE discounted
  /\ Moves(r, "confirm")
  /\ UNCHANGED <<screen, used, redemptions, reservation, disturbed>>

\* Faulty variant: the loser of the race gives the goods back.
CreateLosesReleasing(r) ==
  /\ request[r].at = "create"
  /\ Key(r) \in orders
  /\ Moves(r, "compensate")
  /\ UNCHANGED <<screen, database, reservation, disturbed>>

\* Faulty variant: the loser of the race records its discount on the winner's order.
CreateLosesRedeeming(r) ==
  /\ request[r].at = "create"
  /\ Key(r) \in orders
  /\ IF request[r].code THEN Moves(r, "redeem") ELSE Answers(r, "order")
  /\ UNCHANGED <<screen, database, reservation, disturbed>>

\* The unique key refuses a second order: the first one is returned, nothing is undone.
CreateLoses(r) ==
  /\ request[r].at = "create"
  /\ Key(r) \in orders
  /\ Answers(r, "order")
  /\ UNCHANGED <<screen, database, reservation, disturbed>>

\* Any other failure of the transaction, whatever another request did with the key.
CreateFails(r) ==
  /\ request[r].at = "create"
  /\ Moves(r, "compensate")
  /\ disturbed' = disturbed \cup {Key(r)}
  /\ UNCHANGED <<screen, database, reservation>>

Compensate(r) ==
  /\ request[r].at = "compensate"
  /\ siteLiberer(Key(r)) \/ UNCHANGED reservation
  /\ Answers(r, "error")
  /\ UNCHANGED <<screen, database, disturbed>>

\* A discount is recorded before the answer; an account's notification may fail first.
Confirmed(r) ==
  \/ IF request[r].code THEN Moves(r, "redeem") ELSE Answers(r, "order")
  \/ Answers(r, "error")

Confirm(r) ==
  /\ request[r].at = "confirm"
  /\ siteConfirmer(Key(r))
  /\ Confirmed(r)
  /\ UNCHANGED <<screen, database, disturbed>>

\* No answer: the failure is logged and the order stands.
ConfirmUnavailable(r) ==
  /\ request[r].at = "confirm"
  /\ siteConfirmer(Key(r)) \/ UNCHANGED reservation
  /\ disturbed' = disturbed \cup {Key(r)}
  /\ Confirmed(r)
  /\ UNCHANGED <<screen, database>>

\* recordRedemption: the use is counted while one is left, then traced.
countUse == used' = IF used < MaxUses THEN used + 1 ELSE used

Redeem(r) ==
  /\ request[r].at = "redeem"
  /\ countUse
  /\ \/ redemptions' = redemptions \cup {Key(r)}
     \/ UNCHANGED redemptions
  /\ Answers(r, "order")
  /\ UNCHANGED <<screen, orders, discounted, reservation, disturbed>>

\* The database fails before the count; the error is swallowed.
RedeemFails(r) ==
  /\ request[r].at = "redeem"
  /\ Answers(r, "order")
  /\ UNCHANGED <<screen, database, reservation, disturbed>>

\* The process is recycled, and the connection of the application with it.
Dies(r) ==
  LET c == request[r].customer IN
  /\ request[r].at \notin {"idle", "answer"}
  /\ request' = [request EXCEPT ![r] = Idle]
  /\ screen' = IF screen[c].awaits = r THEN [screen EXCEPT ![c].awaits = NoRequest] ELSE screen
  /\ disturbed' = disturbed \cup {Key(r)}
  /\ UNCHANGED <<database, reservation>>

Serves(r) ==
  \/ Replay(r) \/ Check(r)
  \/ ReserveGranted(r) \/ ReserveRefused(r) \/ ReserveUnavailable(r)
  \/ Create(r) \/ CreateLoses(r) \/ CreateFails(r) \/ Compensate(r)
  \/ Confirm(r) \/ ConfirmUnavailable(r) \/ Redeem(r) \/ RedeemFails(r)

Next ==
  \/ \E c \in Customers, r \in Requests : Submit(c, r)
  \/ \E c \in Customers : GiveUp(c)
  \/ \E r \in Requests : AnswerArrives(r) \/ Serves(r) \/ Dies(r)
  \/ \E k \in Keys : SiteExpires(k)

Spec == Init /\ [][Next]_vars

-----------------------------------------------------------------------------
(* Properties.                                                             *)

(* No order is created on goods the site never granted: a site that does    *)
(* not answer refuses the order, even if an earlier attempt of the key was  *)
(* let through (OrdersService.create after reserveStock).                   *)
OrderOnlyOnGrantedStock == \A k \in orders : reservation[k] # "NONE"

(* Whatever retries race on its key, an order keeps its goods unless a      *)
(* transaction failed on that key, a process died over it or its            *)
(* confirmation was lost: the loser of the race leaves the reservation it   *)
(* shares with the winner alone, and the countdown is stopped in time.      *)
UndisturbedSaleKeepsItsGoods == \A k \in orders : Held(k) \/ k \in disturbed

(* The uses counted on the promotion code are orders that were billed with  *)
(* its discount, each once, however often the order was sent again.         *)
UsesAreSales == used <= Cardinality(discounted)

=============================================================================
