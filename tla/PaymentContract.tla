-------------------------- MODULE PaymentContract --------------------------
(***************************************************************************)
(* What the payment of an order promises, whichever way the customer pays  *)
(* (PaymentsService, DirectPaymentsService): it is decided once, from an   *)
(* open state, and is taken back only by being opened again; it is decided *)
(* "paid" on money that was found for that very order, which is not let go *)
(* while the payment stands; it is decided "unpaid" together with the      *)
(* return of the goods; and none of this disturbs another order.           *)
(***************************************************************************)
EXTENDS Naturals

CONSTANT Orders

VARIABLES
  outcome,   \* "undecided", "paid" or "unpaid", of each order
  money,     \* the orders money was found for
  held,      \* the orders that hold goods
  decisions  \* how many times each order was decided

contractVars == <<outcome, money, held, decisions>>

Init ==
  /\ outcome = [o \in Orders |-> "undecided"]
  /\ money = {}
  /\ held \subseteq Orders
  /\ decisions = [o \in Orders |-> 0]

MoneyComes(o) ==
  /\ money' = money \cup {o}
  /\ UNCHANGED <<outcome, held, decisions>>

\* A transfer that was found is looked at again: not while it pays for the order.
MoneyGoes(o) ==
  /\ outcome[o] # "paid"
  /\ money' = money \ {o}
  /\ UNCHANGED <<outcome, held, decisions>>

\* The order moves for reasons of its own.
OrderMoves(o) ==
  /\ held' \in {held \cup {o}, held \ {o}}
  /\ UNCHANGED <<outcome, money, decisions>>

Decide(o, result) ==
  /\ outcome[o] = "undecided"
  /\ outcome' = [outcome EXCEPT ![o] = result]
  /\ decisions' = [decisions EXCEPT ![o] = @ + 1]

\* A paid order is confirmed, even if its goods had gone back.
Pay(o) ==
  /\ Decide(o, "paid")
  /\ money' = money \cup {o}
  /\ held' \in {held, held \cup {o}}

GiveUp(o) ==
  /\ Decide(o, "unpaid")
  /\ held' = held \ {o}
  /\ UNCHANGED money

Reopen(o) ==
  /\ outcome[o] # "undecided"
  /\ outcome' = [outcome EXCEPT ![o] = "undecided"]
  /\ money' \in {money, money \ {o}}
  /\ UNCHANGED <<held, decisions>>

Next ==
  \E o \in Orders :
    MoneyComes(o) \/ MoneyGoes(o) \/ OrderMoves(o) \/ Pay(o) \/ GiveUp(o) \/ Reopen(o)

Spec == Init /\ [][Next]_contractVars
=============================================================================
