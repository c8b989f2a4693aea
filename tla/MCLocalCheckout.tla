-------------------------- MODULE MCLocalCheckout --------------------------
(* Three carts over two variants: one takes both, the others one each.     *)
EXTENDS LocalCheckout, TLC

CONSTANTS k1, k2, k3, w1, w2, w3

Carts == k1 :> <<1, 1>> @@ k2 :> <<1, 0>> @@ k3 :> <<0, 1>>
TwoAndOne == <<2, 1>>
=============================================================================
