---------------------------- MODULE GuestPurchase ----------------------------
(***************************************************************************)
(* A purchase without an account, paid by a transfer: the technical profile  *)
(* GuestCheckoutService makes for each attempt and removes when another      *)
(* attempt of the same key has made the order; the temporary access the      *)
(* answer carries, which the telephone puts in its vault and shows the        *)
(* payment with.  The order itself is made in OrderPlacement, and the        *)
(* declarations of its transfer are decided in DirectPayments.              *)
(***************************************************************************)
EXTENDS Naturals

CONSTANTS
  Attempts,     \* requests that reach the server, each with a profile of its own
  Purchases     \* idempotency keys the telephone may draw, and the orders they name

NoOne == "nobody"

ASSUME GuestAssumption == NoOne \notin Attempts \cup Purchases

VARIABLES
  profile,     \* the technical profile of each attempt
  sale,        \* the order of each key: none, or its owner and its payment
  attempt,     \* the handlers under way
  phone,       \* the screen, its key, the answer it waits for, what it shows
  vault,       \* the access to each payment on the telephone
  drawn,       \* keys already drawn
  kept,        \* history: orders whose access reached the vault
  abandoned    \* history: attempts that died, or failed beside one that succeeded

guestVars == <<profile, sale, attempt, phone, vault, drawn, kept, abandoned>>

NoSale == [owner |-> NoOne, payment |-> "none"]
made(k) == sale[k] # NoSale
Owners == {sale[k].owner : k \in {p \in Purchases : made(p)}}

\* Nothing is shown of a payment until it was read.
Screen(at, key) == [at |-> at, key |-> key, waits |-> NoOne, access |-> "unread", view |-> "unknown"]

GuestInit ==
  /\ profile = [a \in Attempts |-> "none"]
  /\ sale = [k \in Purchases |-> NoSale]
  /\ attempt = [a \in Attempts |-> [at |-> "idle", key |-> NoOne]]
  /\ phone = Screen("closed", NoOne)
  /\ vault = [k \in Purchases |-> "none"]
  /\ drawn = {} /\ kept = {} /\ abandoned = {}

PAYMENT_IN_FLIGHT == {"PENDING", "DECLARED_BY_CUSTOMER"}

-----------------------------------------------------------------------------
(* The server: GuestCheckoutService.create.                                *)

Moves(a, from, to) ==
  /\ attempt[a].at = from
  /\ attempt' = [attempt EXCEPT ![a].at = to]

\* findGuestReplay: the order of the key is answered at once.
FindReplay(a) ==
  /\ Moves(a, "asked", IF made(attempt[a].key) THEN "answered" ELSE "checked")
  /\ UNCHANGED <<profile, sale, phone, vault, drawn, kept, abandoned>>

CreateProfile(a) ==
  /\ Moves(a, "checked", "profiled")
  /\ profile' = [profile EXCEPT ![a] = "exists"]
  /\ UNCHANGED <<sale, phone, vault, drawn, kept, abandoned>>

\* OrdersService.create answers the order of the key, made now or before.
OrderCreated(a) ==
  LET k == attempt[a].key IN
  /\ Moves(a, "profiled", "created")
  /\ sale' = IF made(k) THEN sale ELSE [sale EXCEPT ![k] = [owner |-> a, payment |-> "PENDING"]]
  /\ UNCHANGED <<profile, phone, vault, drawn, kept, abandoned>>

\* It throws: refused, or made by a commit whose answer was lost.
OrderThrows(a) ==
  LET k == attempt[a].key IN
  /\ Moves(a, "profiled", "thrown")
  /\ \/ UNCHANGED sale
     \/ ~ made(k) /\ sale' = [sale EXCEPT ![k] = [owner |-> a, payment |-> "PENDING"]]
  /\ UNCHANGED <<profile, phone, vault, drawn, kept, abandoned>>

\* Faulty variant: whoever did not make the order first is removed with its profile.
RemovesLast(a) ==
  /\ Moves(a, "created", "answered")
  /\ profile' = [profile EXCEPT ![sale[attempt[a].key].owner] = "deleted"]
  /\ UNCHANGED <<sale, phone, vault, drawn, kept, abandoned>>

\* The profile carries no delivery when another attempt owns the order.
OwnerRead(a) ==
  /\ Moves(a, "created", "answered")
  /\ profile' = IF sale[attempt[a].key].owner # a THEN [profile EXCEPT ![a] = "deleted"] ELSE profile
  /\ UNCHANGED <<sale, phone, vault, drawn, kept, abandoned>>

\* An order of the key, whoever made it, keeps the profile.
CleansUp(a) ==
  LET k == attempt[a].key IN
  /\ Moves(a, "thrown", "failed")
  /\ IF made(k)
     THEN /\ abandoned' = abandoned \cup ({a} \ {sale[k].owner})
          /\ UNCHANGED profile
     ELSE profile' = [profile EXCEPT ![a] = "deleted"] /\ UNCHANGED abandoned
  /\ UNCHANGED <<sale, phone, vault, drawn, kept>>

\* The process is recycled, or the profile could not be removed.
AttemptDies(a) ==
  /\ attempt[a].at \notin {"idle", "ended"}
  /\ attempt' = [attempt EXCEPT ![a].at = "ended"]
  /\ abandoned' = IF profile[a] = "exists" THEN abandoned \cup {a} ELSE abandoned
  /\ UNCHANGED <<profile, sale, phone, vault, drawn, kept>>

\* The staff decides the declaration (DirectPayments).
StaffDecides(k) ==
  /\ sale[k].payment = "DECLARED_BY_CUSTOMER"
  /\ \E decision \in {"SUCCEEDED", "REJECTED"} : sale' = [sale EXCEPT ![k].payment = decision]
  /\ UNCHANGED <<profile, attempt, phone, vault, drawn, kept, abandoned>>

-----------------------------------------------------------------------------
(* The telephone: app/commande.                                            *)

\* The screen draws a key when it opens; what was shown before is left.
OpenForm(k) ==
  /\ phone.at # "form" /\ k \notin drawn
  /\ phone' = Screen("form", k)
  /\ drawn' = drawn \cup {k}
  /\ UNCHANGED <<profile, sale, attempt, vault, kept, abandoned>>

Submit(a) ==
  /\ phone.at = "form" /\ phone.waits = NoOne
  /\ attempt[a].at = "idle"
  /\ attempt' = [attempt EXCEPT ![a] = [at |-> "asked", key |-> phone.key]]
  /\ phone' = [phone EXCEPT !.waits = a]
  /\ UNCHANGED <<profile, sale, vault, drawn, kept, abandoned>>

\* Without an answer in time the key is kept: the next press is a retry.
GiveUp ==
  /\ phone.waits # NoOne
  /\ phone' = [phone EXCEPT !.waits = NoOne]
  /\ UNCHANGED <<profile, sale, attempt, vault, drawn, kept, abandoned>>

AnswerArrives(a) ==
  /\ phone.waits = a
  /\ Moves(a, "answered", "ended")
  /\ phone' = Screen("saving", phone.key)
  /\ UNCHANGED <<profile, sale, vault, drawn, kept, abandoned>>

\* A refusal (4xx) draws another key, a failure of the server does not.
FailureArrives(a) ==
  /\ phone.waits = a
  /\ Moves(a, "failed", "ended")
  /\ \/ phone' = Screen("form", phone.key) /\ UNCHANGED drawn
     \/ \E k \in Purchases \ drawn : phone' = Screen("form", k) /\ drawn' = drawn \cup {k}
  /\ UNCHANGED <<profile, sale, vault, kept, abandoned>>

\* saveGuestPaymentAccess, before the cart is cleared and the payment shown.
AccessSaved ==
  /\ phone.at = "saving"
  /\ vault' = [vault EXCEPT ![phone.key] = "valid"]
  /\ kept' = kept \cup {phone.key}
  /\ phone' = Screen("paiement", phone.key)
  /\ UNCHANGED <<profile, sale, attempt, drawn, abandoned>>

SaveFails ==
  /\ phone.at = "saving"
  /\ phone' = Screen("form", phone.key)
  /\ UNCHANGED <<profile, sale, attempt, vault, drawn, kept, abandoned>>

\* The screen is left, or the application killed; no screen leads back to it.
Leaves ==
  /\ phone.at # "closed"
  /\ phone' = Screen("closed", NoOne)
  /\ UNCHANGED <<profile, sale, attempt, vault, drawn, kept, abandoned>>

-----------------------------------------------------------------------------
(* The telephone: app/paiement and app/confirmation.                       *)

getGuestPaymentAccess ==
  /\ phone.at \in {"paiement", "confirmation"} /\ phone.access = "unread"
  /\ phone' = [phone EXCEPT !.access = vault[phone.key]]
  /\ UNCHANGED <<profile, sale, attempt, vault, drawn, kept, abandoned>>

\* assertValid: the access of this order, issued less than 45 minutes ago.
assertValid == phone.access = "valid"

\* useGuestPaymentStatus asks again while the payment may move by itself.
PaymentRead ==
  /\ phone.at \in {"paiement", "confirmation"} /\ assertValid
  /\ phone.view \in PAYMENT_IN_FLIGHT \cup {"unknown"}
  /\ phone' = [phone EXCEPT !.view = sale[phone.key].payment]
  /\ UNCHANGED <<profile, sale, attempt, vault, drawn, kept, abandoned>>

\* submitDeclaration, then the payment is read again.
Declares ==
  /\ phone.at = "paiement" /\ assertValid
  /\ phone.view # "SUCCEEDED" /\ sale[phone.key].payment # "SUCCEEDED"
  /\ sale' = [sale EXCEPT ![phone.key].payment = "DECLARED_BY_CUSTOMER"]
  /\ phone' = [phone EXCEPT !.view = "DECLARED_BY_CUSTOMER"]
  /\ UNCHANGED <<profile, attempt, vault, drawn, kept, abandoned>>

\* The confirmation shows what the payment screen has read.
ShowsConfirmation ==
  /\ phone.at = "paiement" /\ phone.view = "SUCCEEDED"
  /\ phone' = [phone EXCEPT !.at = "confirmation", !.access = "unread"]
  /\ UNCHANGED <<profile, sale, attempt, vault, drawn, kept, abandoned>>

clearGuestPaymentAccess ==
  /\ phone.at = "confirmation" /\ phone.view = "SUCCEEDED"
  /\ vault[phone.key] # "none"
  /\ vault' = [vault EXCEPT ![phone.key] = "none"]
  /\ UNCHANGED <<profile, sale, attempt, phone, drawn, kept, abandoned>>

AccessExpires(k) ==
  /\ vault[k] = "valid"
  /\ vault' = [vault EXCEPT ![k] = "expired"]
  /\ phone' = IF phone.key = k /\ assertValid THEN [phone EXCEPT !.access = "expired"] ELSE phone
  /\ UNCHANGED <<profile, sale, attempt, drawn, kept, abandoned>>

GuestNext ==
  \/ \E a \in Attempts :
       \/ FindReplay(a) \/ CreateProfile(a) \/ OrderCreated(a) \/ OrderThrows(a) \/ OwnerRead(a)
       \/ CleansUp(a) \/ AttemptDies(a)
       \/ Submit(a) \/ AnswerArrives(a) \/ FailureArrives(a)
  \/ \E k \in Purchases : StaffDecides(k) \/ OpenForm(k) \/ AccessExpires(k)
  \/ GiveUp \/ AccessSaved \/ SaveFails \/ Leaves
  \/ getGuestPaymentAccess \/ PaymentRead \/ Declares \/ ShowsConfirmation \/ clearGuestPaymentAccess

GuestSpec == GuestInit /\ [][GuestNext]_guestVars

-----------------------------------------------------------------------------
(* Properties.                                                             *)

(* However many times a guest presses, and whatever is lost between him and   *)
(* the server: an order never loses the profile it hangs on, and no profile  *)
(* is left behind but by a process that died or an attempt that failed beside *)
(* one that succeeded; the telephone keeps the access to a payment until it   *)
(* has seen it confirmed, and says it is only when it is.                   *)
GuestPurchaseIsKept ==
  /\ \A k \in Purchases : made(k) => profile[sale[k].owner] = "exists"
  /\ \A a \in Attempts :
       attempt[a].at \in {"answered", "failed", "ended"} /\ profile[a] = "exists" =>
         a \in Owners \cup abandoned
  /\ \A k \in kept : sale[k].payment # "SUCCEEDED" => vault[k] # "none"
  /\ phone.view = "SUCCEEDED" => sale[phone.key].payment = "SUCCEEDED"
=============================================================================
