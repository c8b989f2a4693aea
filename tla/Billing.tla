------------------------------- MODULE Billing -------------------------------
(***************************************************************************)
(* What a cart costs.  Three readers price it: the quote shown before the    *)
(* order (CartQuoteService), the checkout of the local stock                *)
(* (CheckoutService) and the order whose stock the site holds               *)
(* (OrdersService).  The back office, the promotions, the promotion codes    *)
(* and the site's prices change what they read; the functions are evaluated  *)
(* in every state the services can reach.                                   *)
(***************************************************************************)
EXTENDS Integers, FiniteSets, FiniteSetsExt

CONSTANTS
  Variants,
  Amounts,        \* prices, in francs
  Basket,         \* quantity of each variant of the cart
  Discounts,      \* the codes the back office may create: PromoCode records
  SiteRemises,    \* volume discounts the site may grant
  MaxPriceEdits   \* bound: edits of the back office and of the site

ASSUME BillingBounds ==
  /\ Amounts \subseteq Nat \ {0} /\ SiteRemises \subseteq Nat
  /\ IsFiniteSet(Variants) /\ Basket \in [Variants -> Nat \ {0}]
  /\ \A rule \in Discounts : rule.perPhone \in Nat
  /\ MaxPriceEdits \in Nat

VARIABLES
  stockMode,   \* STOCK_MODE: "site" or "local"
  article,     \* productVariant: price, crossed-out price (0: none), isAvailable and its product's isActive
  promotion,   \* the last promotion of each variant (price 0: none)
  promoCode,   \* the promotion code (isActive: published, within its dates and quota),
               \* and how often the telephone of the cart, that of a guest, has used it
  siteShop,    \* the site: answers or not, its prices, what it still sells, its discount and its own code
  priceEdits   \* number of edits

billingVars == <<stockMode, article, promotion, promoCode, siteShop, priceEdits>>

NoPromotion == [price |-> 0, active |-> FALSE, window |-> "open"]
Windows == {"coming", "open", "over"}
NoCode == "no code"

BillingInit ==
  /\ stockMode \in {"site", "local"}
  /\ \E p \in Amounts, onSale \in BOOLEAN :
       /\ article = [v \in Variants |-> [price |-> p, crossed |-> 0, isAvailable |-> onSale, shown |-> onSale]]
       /\ siteShop = [up |-> TRUE, price |-> [v \in Variants |-> p], crossed |-> [v \in Variants |-> 0],
                  vendable |-> Variants, remise |-> 0, knowsOther |-> FALSE]
  /\ promotion = [v \in Variants |-> NoPromotion]
  /\ \E rule \in Discounts : promoCode = [rule |-> rule, isActive |-> FALSE, usedByPhone |-> 0]
  /\ priceEdits = 0

Edit == priceEdits < MaxPriceEdits /\ priceEdits' = priceEdits + 1

-----------------------------------------------------------------------------
(* The back office.  The catalogue is written here only when the stock is   *)
(* held here (assertWritesAllowed).                                        *)

assertWritesAllowed == stockMode = "local"

\* updateVariant: any price, whatever the promotion.
updateVariant(v, p, available) ==
  /\ Edit /\ assertWritesAllowed
  /\ article' = [article EXCEPT ![v].price = p, ![v].isAvailable = available]
  /\ UNCHANGED <<stockMode, promotion, promoCode, siteShop>>

\* updateProduct and deleteProduct: a product taken off takes its variants with
\* it; shown again, they stay off sale.
updateProduct(v, shown) ==
  /\ Edit /\ assertWritesAllowed
  /\ article' = [article EXCEPT ![v].shown = shown, ![v].isAvailable = @ /\ shown]
  /\ UNCHANGED <<stockMode, promotion, promoCode, siteShop>>

\* A promotion below the price of now replaces the one that was active.
createPromotion(v, p, window) ==
  /\ Edit /\ assertWritesAllowed
  /\ p < article[v].price
  /\ promotion' = [promotion EXCEPT ![v] = [price |-> p, active |-> TRUE, window |-> window]]
  /\ UNCHANGED <<stockMode, article, promoCode, siteShop>>

\* It is stopped or taken up again, without a look at the price.
updatePromotion(v, active) ==
  /\ Edit /\ assertWritesAllowed
  /\ promotion[v].price # 0
  /\ promotion' = [promotion EXCEPT ![v].active = active]
  /\ UNCHANGED <<stockMode, article, promoCode, siteShop>>

promotionWindowMoves(v) ==
  /\ promotion[v].price # 0 /\ promotion[v].window # "over"
  /\ promotion' = [promotion EXCEPT ![v].window = IF @ = "coming" THEN "open" ELSE "over"]
  /\ UNCHANGED <<stockMode, article, promoCode, siteShop, priceEdits>>

\* A code is created inactive; update and deactivate publish it or not.
updatePromoCode(active) ==
  /\ Edit
  /\ promoCode' = [promoCode EXCEPT !.isActive = active]
  /\ UNCHANGED <<stockMode, article, promotion, siteShop>>

recordRedemption ==
  /\ promoCode.isActive /\ promoCode.usedByPhone = 0
  /\ promoCode' = [promoCode EXCEPT !.usedByPhone = 1]
  /\ UNCHANGED <<stockMode, article, promotion, siteShop, priceEdits>>

\* The catalogue of the site, its calculator, and its reachability (external).
SiteChanges ==
  /\ Edit
  /\ \/ \E v \in Variants, p \in Amounts, c \in Amounts \cup {0} :
          /\ c = 0 \/ c > p
          /\ siteShop' = [siteShop EXCEPT !.price[v] = p, !.crossed[v] = c]
     \/ \E v \in Variants : siteShop' = [siteShop EXCEPT !.vendable = @ \ {v}]
     \/ \E r \in SiteRemises, knows \in BOOLEAN :
          siteShop' = [siteShop EXCEPT !.remise = r, !.knowsOther = knows]
     \/ siteShop' = [siteShop EXCEPT !.up = ~ @]
  /\ UNCHANGED <<stockMode, article, promotion, promoCode>>

\* The synchronisation copies the site's price.
upsertVariantPrice(v) ==
  /\ siteShop.up
  /\ article' = [article EXCEPT ![v].price = siteShop.price[v], ![v].crossed = siteShop.crossed[v],
                                ![v].isAvailable = v \in siteShop.vendable]
  /\ UNCHANGED <<stockMode, promotion, promoCode, siteShop, priceEdits>>

BillingNext ==
  \/ \E v \in Variants :
       \/ \E p \in Amounts, available \in BOOLEAN : updateVariant(v, p, available)
       \/ \E shown \in BOOLEAN : updateProduct(v, shown)
       \/ \E p \in Amounts, w \in Windows : createPromotion(v, p, w)
       \/ \E active \in BOOLEAN : updatePromotion(v, active)
       \/ promotionWindowMoves(v)
       \/ upsertVariantPrice(v)
  \/ \E active \in BOOLEAN : updatePromoCode(active)
  \/ recordRedemption
  \/ SiteChanges

BillingSpec == BillingInit /\ [][BillingNext]_billingVars

-----------------------------------------------------------------------------
(* Prices of the lines.                                                     *)

promotionActive(v) == promotion[v].active /\ promotion[v].window = "open"

prixEffectif ==
  [v \in Variants |->
     IF promotionActive(v) /\ promotion[v].price < article[v].price THEN promotion[v].price
     ELSE article[v].price]

\* Faulty variant: the checkout bills the price without its promotion.
checkoutPriceBase == [v \in Variants |-> article[v].price]

\* The transaction of the checkout takes the promotion as it is.
checkoutPrice ==
  [v \in Variants |-> IF promotionActive(v) THEN promotion[v].price ELSE article[v].price]

\* OrdersService: the site's price; the site silent, the crossed-out price.
sitePrice ==
  [v \in Variants |->
     IF siteShop.up THEN siteShop.price[v]
     ELSE IF article[v].crossed > article[v].price THEN article[v].crossed
     ELSE article[v].price]

OnSale == \A v \in Variants : article[v].isAvailable /\ article[v].shown

subtotalOf(price) ==
  LET worth == [v \in Variants |-> price[v] * Basket[v]]
  IN  MapThenSumSet(LAMBDA v : worth[v], Variants)

computeCartTotals(subtotal, remise) ==
  subtotal - (IF remise > subtotal THEN subtotal ELSE remise)

-----------------------------------------------------------------------------
(* Promotion codes: "agrim" is the code of the back office, "other" one that *)
(* only the site may know.                                                 *)

TypedCodes == {NoCode, "agrim", "other"}

Least(a, b) == IF a < b THEN a ELSE b

\* The value of the code on a cart, 0 where evaluatePromoCode refuses it; the uses
\* of a number are counted when it is given, spelled as the redemptions spell it.
evaluatePromoCode(price, recognised) ==
  LET rule == promoCode.rule
      subtotal == subtotalOf(price)
      targeted == {v \in Variants : rule.appliesTo = {} \/ v \in rule.appliesTo}
      base == MapThenSumSet(LAMBDA v : price[v] * Basket[v], targeted)
      raw == IF rule.type = "PERCENT" THEN (base * rule.value) \div 100 ELSE rule.value
  IN IF /\ promoCode.isActive
        /\ recognised /\ rule.perPhone # 0 => promoCode.usedByPhone < rule.perPhone
        /\ subtotal >= rule.minOrderTotal
        /\ targeted # {}
     THEN Least(raw, subtotal)
     ELSE 0

\* The siteShop's calculator, asked without the code when it is one of ours.
remiseSite(typed) ==
  IF ~ siteShop.up THEN 0
  ELSE siteShop.remise + (IF typed = "other" /\ siteShop.knowsOther THEN 1 ELSE 0)

\* A code nobody recognised: the site silent, or neither discount nor code in
\* its answer.
remiseNonReconnue(typed) ==
  typed = "other" /\ (~ siteShop.up \/ (remiseSite(typed) = 0 /\ ~ siteShop.knowsOther))

resolveRemise(price, typed, recognised) ==
  LET ours == IF typed = "agrim" THEN evaluatePromoCode(price, recognised) ELSE 0 IN
  IF (typed = "agrim" /\ ours = 0) \/ remiseNonReconnue(typed)
  THEN [status |-> "refused", remise |-> 0]
  ELSE [status |-> "ok", remise |-> Least(remiseSite(typed) + ours, subtotalOf(price))]

-----------------------------------------------------------------------------
(* The three readers: a total, or a refusal.                               *)

Refused == [status |-> "refused", total |-> 0]

Total(price, remise) ==
  [status |-> "ok", total |-> computeCartTotals(subtotalOf(price), remise)]

\* CartQuoteService.quote: no quote of what is off sale; the telephone may be left
\* out, or be sent as it was typed.
quote(typed, recognised) ==
  LET remise == resolveRemise(prixEffectif, typed, recognised) IN
  IF ~ OnSale \/ remise.status = "refused" THEN Refused ELSE Total(prixEffectif, remise.remise)

\* CheckoutService.create: the discount is resolved first, on its own prices,
\* and with the number of a guest only.
checkout(typed, guest) ==
  LET remise == resolveRemise(prixEffectif, typed, guest) IN
  IF ~ OnSale \/ remise.status = "refused" THEN Refused ELSE Total(checkoutPrice, remise.remise)

\* OrdersService.create, with the guest's normalised number or the account's: also
\* refused when the site no longer sells a line.
orderAtTheSite(typed) ==
  LET remise == resolveRemise(sitePrice, typed, TRUE) IN
  IF ~ OnSale \/ (siteShop.up /\ siteShop.vendable # Variants) \/ remise.status = "refused"
  THEN Refused ELSE Total(sitePrice, remise.remise)

bill(typed, guest) ==
  IF stockMode = "local" THEN checkout(typed, guest) ELSE orderAtTheSite(typed)

-----------------------------------------------------------------------------
(* Properties.                                                             *)

PromotionsUndercut == \A v \in Variants : promotionActive(v) => promotion[v].price <= article[v].price

PhoneUsedUp == promoCode.rule.perPhone # 0 /\ promoCode.usedByPhone >= promoCode.rule.perPhone

\* Whether the order itself counts the uses of the customer's number.
BillKnowsPhone(guest) == stockMode = "site" \/ guest

CopyIsFresh ==
  /\ siteShop.up /\ siteShop.vendable = Variants
  /\ \A v \in Variants : article[v].price = siteShop.price[v]

Apart(a, b) == IF a > b THEN a - b ELSE b - a

\* By how much the price the site bills is away from the price that was quoted.
CopyError == Apart(subtotalOf(sitePrice), subtotalOf(prixEffectif))

(* The total announced is the total billed, and what is refused to one is   *)
(* refused to the other: in the stock held here while every promotion       *)
(* undercuts its price, at the site while the copy of its prices is fresh.  *)
(* One code escapes this, one the number has used up, which is granted by   *)
(* whichever of the two does not recognise the number and refused by the    *)
(* other.  A copy that is out of date moves the bill of a cart that the     *)
(* site sells by no more than the error on its prices, and refuses no code  *)
(* that was not refused (CartQuoteService, CheckoutService, OrdersService). *)
BillIsTheQuote ==
  \A typed \in TypedCodes, guest, recognised \in BOOLEAN :
    LET billed == bill(typed, guest)
        quoted == quote(typed, recognised)
    IN /\ (IF stockMode = "local" THEN PromotionsUndercut ELSE CopyIsFresh) =>
            \/ billed = quoted
            \/ typed = "agrim" /\ PhoneUsedUp /\ recognised # BillKnowsPhone(guest)
       /\ /\ stockMode = "site" /\ typed # "agrim"
          /\ siteShop.up => siteShop.vendable = Variants
          => billed.status = quoted.status /\ Apart(billed.total, quoted.total) <= CopyError
=============================================================================
