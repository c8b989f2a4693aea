--------------------------- MODULE ShelfContract ---------------------------
(***************************************************************************)
(* What a shelf owned by this application promises, whatever transactions  *)
(* share it: the goods of a key leave it at once, all of them or none, and *)
(* once; they come back at once, and once; a stock never goes below zero.  *)
(***************************************************************************)
EXTENDS Integers

CONSTANTS
  Variants,  \* the variants on the shelf
  Keys,      \* the purchases
  Cart       \* Cart[k][v]: the quantity of v in purchase k

VARIABLES
  shelf,     \* the stock of each variant
  purchase   \* "none", "PENDING" (its goods are out) or "CANCELLED" (they came back)

shelfVars == <<shelf, purchase>>

Init ==
  /\ shelf \in [Variants -> Nat]
  /\ purchase = [k \in Keys |-> "none"]

Sell(k) ==
  /\ purchase[k] = "none"
  /\ \A v \in Variants : shelf[v] >= Cart[k][v]
  /\ shelf' = [v \in Variants |-> shelf[v] - Cart[k][v]]
  /\ purchase' = [purchase EXCEPT ![k] = "PENDING"]

Return(k) ==
  /\ purchase[k] = "PENDING"
  /\ shelf' = [v \in Variants |-> shelf[v] + Cart[k][v]]
  /\ purchase' = [purchase EXCEPT ![k] = "CANCELLED"]

\* A person counts the shelf: one stock changes.
Count(v) ==
  /\ shelf'[v] \in Nat
  /\ shelf' = [shelf EXCEPT ![v] = shelf'[v]]
  /\ UNCHANGED purchase

Next ==
  \/ \E k \in Keys : Sell(k) \/ Return(k)
  \/ \E v \in Variants : Count(v)

Spec == Init /\ [][Next]_shelfVars
=============================================================================
