--------------------------- MODULE OrderContract ---------------------------
(***************************************************************************)
(* What an order promises its customer and the warehouse, whatever service *)
(* moves it: its status follows the shared transition table, and its goods *)
(* go back to the shelf exactly when, and only when, it is cancelled.      *)
(***************************************************************************)
EXTENDS Naturals, OrderStatus

CONSTANT Orders

VARIABLES
  status,    \* the status of each order
  returned   \* how many times the goods of each order went back to the shelf

contractVars == <<status, returned>>

Init ==
  /\ status \in [Orders -> ORDER_PROGRESS_STEPS]
  /\ returned = [o \in Orders |-> 0]

Advance(o) ==
  \E s \in ORDER_TRANSITIONS[status[o]] \ {"CANCELLED"} :
    /\ status' = [status EXCEPT ![o] = s]
    /\ UNCHANGED returned

Cancel(o) ==
  /\ canTransition(status[o], "CANCELLED")
  /\ status' = [status EXCEPT ![o] = "CANCELLED"]
  /\ returned' = [returned EXCEPT ![o] = @ + 1]

Next == \E o \in Orders : Advance(o) \/ Cancel(o)

Spec == Init /\ [][Next]_contractVars
=============================================================================
