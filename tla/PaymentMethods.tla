--------------------------- MODULE PaymentMethods ---------------------------
(***************************************************************************)
(* The numbers customers transfer their money to: rows of                    *)
(* paymentMethodConfig that administrators write (PaymentMethodsService),     *)
(* the list of them on the telephone, the number an order is made with        *)
(* (resolve-method, OrdersService.create) and the one the payment screen      *)
(* shows (DirectPaymentsService.instructions).  What is paid, declared and    *)
(* examined afterwards is in DirectPayments.                                 *)
(***************************************************************************)
EXTENDS Naturals

CONSTANTS
  MethodCodes,   \* technical codes of the methods
  Numbers,       \* numbers that may be typed
  Managers,      \* administrators
  Buyers,        \* telephones, each with one cart and one idempotency key
  MaxWrites      \* bound: writes of the configuration

Cash == "CASH_ON_DELIVERY"
NoNumber == 0

ASSUME MethodsAssumption ==
  MaxWrites \in Nat /\ {Cash, "none"} \cap MethodCodes = {} /\ NoNumber \notin Numbers

VARIABLES
  config,     \* the rows, by code
  upsert,     \* the upsert of each administrator, between its read and its write
  writes,     \* writes begun
  wallet,      \* each telephone: its list of methods, the code pressed, its request, its screen
  bought,     \* the order of each telephone: method, number of its row
  official,  \* history: numbers meant for customers, by code
  exposed,   \* history: numbers on their way to a method that somebody else then published
  retouched,  \* history: numbers written on a method that was withdrawn, by code
  unanswered  \* history: telephones a press of which was not answered

methodVars == <<config, upsert, writes, wallet, bought, official, exposed, retouched, unanswered>>

NoMethod == [exists |-> FALSE, number |-> NoNumber, isActive |-> FALSE]
NoUpsert == [at |-> "idle", code |-> Cash, number |-> NoNumber, isActive |-> "unsaid",
             existing |-> FALSE, public |-> FALSE]
NoPurchase == [method |-> "none", number |-> NoNumber]
\* A code or an operator that is left out is the empty set.
InCash == [paymentMethod |-> Cash, code |-> {}, provider |-> {}]
ByTransfer(c) == [InCash EXCEPT !.paymentMethod = "DIRECT_MOBILE_MONEY", !.code = {c}]
Shopping ==
  [at |-> "shopping", list |-> {}, chosen |-> Cash, request |-> InCash, code |-> Cash,
   resolved |-> NoNumber, goes |-> "none", shown |-> NoNumber]

MethodsInit ==
  /\ config = [c \in MethodCodes |-> NoMethod]
  /\ upsert = [m \in Managers |-> NoUpsert]
  /\ writes = 0
  /\ wallet = [b \in Buyers |-> Shopping]
  /\ bought = [b \in Buyers |-> NoPurchase]
  /\ official = [c \in MethodCodes |-> {}]
  /\ exposed = [c \in MethodCodes |-> {}]
  /\ retouched = [c \in MethodCodes |-> {}]
  /\ unanswered = {}

-----------------------------------------------------------------------------
(* The administration.                                                      *)

\* upsert reads whether the code exists; the form may leave isActive unsaid.  public:
\* what the method is when it is sent.
upsertReads(m) ==
  /\ upsert[m].at = "idle" /\ writes < MaxWrites
  /\ writes' = writes + 1
  /\ \E c \in MethodCodes, n \in Numbers, said \in {"unsaid", "yes", "no"} :
       upsert' = [upsert EXCEPT ![m] =
         [at |-> "read", code |-> c, number |-> n, isActive |-> said,
          existing |-> config[c].exists, public |-> config[c].isActive]]
  /\ UNCHANGED <<config, wallet, bought, official, exposed, retouched, unanswered>>

\* Faulty variant: a method is published as soon as it is created.
createPublished(u) == [exists |-> TRUE, number |-> u.number, isActive |-> u.isActive # "no"]

\* A method created without more is not published.
createMethod(u) == [exists |-> TRUE, number |-> u.number, isActive |-> u.isActive = "yes"]

updateMethod(u, row) ==
  [exists |-> TRUE, number |-> u.number,
   isActive |-> IF u.isActive = "unsaid" THEN row.isActive ELSE u.isActive = "yes"]

\* What an administrator publishes, or corrects while it is public.
Meant(u) == u.isActive = "yes" \/ (u.isActive = "unsaid" /\ u.public)

\* The upserts that are on their way to c, and say nothing of its publication.
OnTheirWay(c) ==
  {m \in Managers : upsert[m].at = "read" /\ upsert[m].code = c
                     /\ upsert[m].isActive = "unsaid" /\ ~ upsert[m].public}

\* Two creations of one code: the second violates its unicity.
upsertWrites(m) ==
  LET u   == upsert[m]
      row == config[u.code]
      new == IF u.existing THEN updateMethod(u, row) ELSE createMethod(u) IN
  /\ u.at = "read"
  /\ upsert' = [upsert EXCEPT ![m] = NoUpsert]
  /\ IF ~ u.existing /\ row.exists THEN UNCHANGED <<config, official, exposed, retouched>>
     ELSE /\ config' = [config EXCEPT ![u.code] = new]
          /\ official' = [official EXCEPT ![u.code] = @ \cup {n \in {u.number} : Meant(u)}]
          /\ retouched' = [retouched EXCEPT ![u.code] = @ \cup {n \in {u.number} : u.existing /\ ~ Meant(u)}]
          /\ exposed' = [exposed EXCEPT ![u.code] =
               @ \cup {upsert[o].number : o \in {o \in OnTheirWay(u.code) : u.isActive = "yes"}}]
  /\ UNCHANGED <<writes, wallet, bought, unanswered>>

\* A method is never deleted.
deactivate(c) ==
  /\ config[c].isActive /\ writes < MaxWrites
  /\ writes' = writes + 1
  /\ config' = [config EXCEPT ![c].isActive = FALSE]
  /\ UNCHANGED <<upsert, wallet, bought, official, exposed, retouched, unanswered>>

-----------------------------------------------------------------------------
(* The telephone.                                                           *)

listActive == {c \in MethodCodes : config[c].isActive}

\* The list is read, and read again while the screen is open.
usePaymentMethods(b) ==
  /\ wallet[b].at = "shopping"
  /\ wallet' = [wallet EXCEPT ![b].list = listActive]
  /\ UNCHANGED <<config, upsert, writes, bought, official, exposed, retouched, unanswered>>

setMethodCode(b) ==
  /\ wallet[b].at = "shopping"
  /\ \E c \in wallet[b].list \cup {Cash} : wallet' = [wallet EXCEPT ![b].chosen = c]
  /\ UNCHANGED <<config, upsert, writes, bought, official, exposed, retouched, unanswered>>

\* A choice the list has lost is no choice: cash is what the screen shows as selected.
selectedMethod(b) == IF wallet[b].chosen \in wallet[b].list THEN wallet[b].chosen ELSE Cash

submitOrder(b) ==
  /\ wallet[b].at = "shopping"
  /\ LET c == selectedMethod(b) IN
     wallet' = [wallet EXCEPT ![b].at = "sent", ![b].request = IF c = Cash THEN InCash ELSE ByTransfer(c)]
  /\ UNCHANGED <<config, upsert, writes, bought, official, exposed, retouched, unanswered>>

\* An application installed before the aggregator was left: its operator, or a card.
submitFormerOrder(b) ==
  /\ wallet[b].at = "shopping"
  /\ \E asked \in {"MOBILE_MONEY", "CARD"}, operator \in {{}} \cup {{c} : c \in MethodCodes} :
       wallet' = [wallet EXCEPT ![b].at = "sent",
            ![b].request = [paymentMethod |-> asked, code |-> {}, provider |-> operator]]
  /\ UNCHANGED <<config, upsert, writes, bought, official, exposed, retouched, unanswered>>

\* The screen goes where the method it sent leads, whatever order it was answered with.
onOrderAnswered(b) ==
  /\ wallet[b].at = "placed"
  /\ wallet' = [wallet EXCEPT
       ![b] = [Shopping EXCEPT !.at = "done"],
       ![b].goes = CASE wallet[b].request.paymentMethod = Cash -> "confirmation"
                     [] wallet[b].request.paymentMethod = "DIRECT_MOBILE_MONEY" -> "paiement"
                     [] OTHER -> "elsewhere"]
  /\ UNCHANGED <<config, upsert, writes, bought, official, exposed, retouched, unanswered>>

\* The answer or the request is lost: the same key is kept for the next press.
answerLost(b) ==
  /\ wallet[b].at \in {"sent", "placed"}
  /\ wallet' = [wallet EXCEPT ![b].at = "shopping", ![b].request = InCash,
                           ![b].code = Cash, ![b].resolved = NoNumber]
  /\ unanswered' = unanswered \cup {b}
  /\ UNCHANGED <<config, upsert, writes, bought, official, exposed, retouched>>

-----------------------------------------------------------------------------
(* The server: the order and the instructions of its payment.               *)

\* What the order will be paid by: cash, a code, or nothing that is known.
normalizeOrderPayment(request) ==
  CASE request.paymentMethod = Cash -> {Cash}
    [] request.paymentMethod = "DIRECT_MOBILE_MONEY" -> request.code
    [] request.paymentMethod = "MOBILE_MONEY" ->
         IF request.code # {} THEN request.code ELSE request.provider
    [] OTHER -> {}

\* The order of the key is answered as it was made.
replayed(b) ==
  /\ wallet[b].at = "sent" /\ bought[b] # NoPurchase
  /\ wallet' = [wallet EXCEPT ![b].at = "placed"]
  /\ UNCHANGED <<config, upsert, writes, bought, official, exposed, retouched, unanswered>>

\* Otherwise the method is looked for among those that are public.
Payable(request) == normalizeOrderPayment(request) \cap (listActive \cup {Cash})

resolveOrderPaymentMethod(b) ==
  /\ wallet[b].at = "sent" /\ bought[b] = NoPurchase
  /\ \E c \in Payable(wallet[b].request) :
       wallet' = [wallet EXCEPT ![b].at = "resolved", ![b].code = c,
                                ![b].resolved = IF c = Cash THEN NoNumber ELSE config[c].number]
  /\ UNCHANGED <<config, upsert, writes, bought, official, exposed, retouched, unanswered>>

\* PAYMENT_METHOD_UNAVAILABLE, PAYMENT_METHOD_UNSUPPORTED: nothing was written.
refused(b) ==
  /\ wallet[b].at = "sent" /\ bought[b] = NoPurchase
  /\ Payable(wallet[b].request) = {}
  /\ wallet' = [wallet EXCEPT ![b].at = "shopping", ![b].request = InCash]
  /\ UNCHANGED <<config, upsert, writes, bought, official, exposed, retouched, unanswered>>

\* Method and number are written on the order's payment.
createOrder(b) ==
  /\ wallet[b].at = "resolved"
  /\ bought' = [bought EXCEPT ![b] =
       [method |-> wallet[b].code, number |-> wallet[b].resolved]]
  /\ wallet' = [wallet EXCEPT ![b].at = "placed"]
  /\ UNCHANGED <<config, upsert, writes, official, exposed, retouched, unanswered>>

\* The row of the method as it is now, withdrawn or not.
resolveMethod(c) == config[c].number

\* An order paid otherwise has no instructions.
instructions(b) ==
  /\ wallet[b].goes = "paiement" /\ bought[b].method # Cash
  /\ wallet' = [wallet EXCEPT ![b].shown = resolveMethod(bought[b].method)]
  /\ UNCHANGED <<config, upsert, writes, bought, official, exposed, retouched, unanswered>>

MethodsNext ==
  \/ \E m \in Managers : upsertReads(m) \/ upsertWrites(m)
  \/ \E c \in MethodCodes : deactivate(c)
  \/ \E b \in Buyers :
       \/ usePaymentMethods(b) \/ setMethodCode(b) \/ submitOrder(b) \/ onOrderAnswered(b)
       \/ submitFormerOrder(b) \/ answerLost(b) \/ replayed(b) \/ resolveOrderPaymentMethod(b)
       \/ refused(b) \/ createOrder(b) \/ instructions(b)

MethodsSpec == MethodsInit /\ [][MethodsNext]_methodVars

-----------------------------------------------------------------------------
(* Properties.                                                             *)

(* The number an order is made with was published under its code by an      *)
(* administrator, or corrected by one while it was public, even if it has   *)
(* been withdrawn since.  The one way around: his upsert was on its way to   *)
(* a method that was not public, saying nothing of it, when somebody else    *)
(* published the method.  The number the screen then shows is one of those,  *)
(* or was written on the method while it was withdrawn.  And a customer      *)
(* whose every press was answered is led to the screen of the method of the  *)
(* order: after a lost answer the same key may bring back the order of       *)
(* another choice (PaymentMethodsService.upsert, resolveOrderPaymentMethod). *)
NumbersAreOfficial ==
  \A b \in Buyers :
    LET c == bought[b].method IN
    /\ c \in MethodCodes =>
         /\ bought[b].number \in official[c] \cup exposed[c]
         /\ wallet[b].shown \in official[c] \cup retouched[c] \cup {NoNumber}
    /\ wallet[b].goes \in {"paiement", "confirmation"} /\ b \notin unanswered =>
         (wallet[b].goes = "paiement" <=> c \in MethodCodes)
=============================================================================
