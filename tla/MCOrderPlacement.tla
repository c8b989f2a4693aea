-------------------------- MODULE MCOrderPlacement --------------------------
(* Small instances of the purchase: two purchases on the last goods, and     *)
(* what comes before them, which shares no state with them: the price of the *)
(* cart, the cart of the telephone, the zones of the delivery, the numbers    *)
(* to pay to.  Each initial state wakes one of the five, and the others keep *)
(* one initial state for the whole behaviour.                               *)
EXTENDS OrderPlacement, Billing, Cart, DeliveryGrid, PaymentMethods, TLC

CONSTANTS c1, c2, r1, r2, v1, v2, format, j1, j2, q1, q2, m1, m2, l1

VARIABLE focus

SymmetricContexts == Permutations(Requests) \cup Permutations(Customers) \cup Permutations(Instances)

MCBasket == v1 :> 2 @@ v2 :> 1
MCDiscounts ==
  {[type |-> "PERCENT", value |-> 50, minOrderTotal |-> 0, perPhone |-> 1, appliesTo |-> {v2}],
   [type |-> "FIXED", value |-> 4, minOrderTotal |-> 5, perPhone |-> 0, appliesTo |-> {}]}
MCtextOf ==
  q1 :> [chosen |-> "bouake", ends |-> ""] @@ q2 :> [chosen |-> "bouake", ends |-> "abidjan"]
MCgridOf ==
  <<[zones |-> <<"abidjan">>, zoneParDefaut |-> "autre"],
    [zones |-> <<"abidjan", "bouake">>, zoneParDefaut |-> "autre"]>>

\* Components with several initial states keep this one while another is awake.
BillingAsleep ==
  /\ stockMode = "local" /\ promoCode.rule.type = "FIXED"
  /\ \A v \in Variants : article[v].price = 1 /\ ~ article[v].shown
CartAsleep == \A v \in Formats : shown[v] = 0

PurchaseInit ==
  /\ focus \in {"placement", "billing", "cart", "grid", "methods"}
  /\ Init /\ GridInit /\ MethodsInit
  /\ BillingInit /\ (IF focus = "billing" THEN OnSale ELSE BillingAsleep)
  /\ CartInit /\ (focus # "cart" => CartAsleep)

PurchaseNext ==
  \/ /\ focus = "placement" /\ Next
     /\ UNCHANGED <<focus, billingVars, cartVars, gridVars, methodVars>>
  \/ /\ focus = "billing" /\ BillingNext
     /\ UNCHANGED <<focus, vars, cartVars, gridVars, methodVars>>
  \/ /\ focus = "cart" /\ CartNext
     /\ UNCHANGED <<focus, vars, billingVars, gridVars, methodVars>>
  \/ /\ focus = "grid" /\ GridNext
     /\ UNCHANGED <<focus, vars, billingVars, cartVars, methodVars>>
  \/ /\ focus = "methods" /\ MethodsNext
     /\ UNCHANGED <<focus, vars, billingVars, cartVars, gridVars>>

purchaseVars == <<focus, vars, billingVars, cartVars, gridVars, methodVars>>

PurchaseSpec == PurchaseInit /\ [][PurchaseNext]_purchaseVars
=============================================================================
