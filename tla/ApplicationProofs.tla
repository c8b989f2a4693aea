------------------------- MODULE ApplicationProofs -------------------------
(***************************************************************************)
(* What PaymentMethods, QueryCache, GuestPurchase, Cart, CustomerTracking, *)
(* CourierTracking, AddressBook, Referrals and PasswordResets guarantee    *)
(* for any number of methods, administrators, telephones, accounts,        *)
(* queries, purchases, formats, couriers, points, addresses and password   *)
(* handlers, and for any reward, threshold and limit of attempts.          *)
(*                                                                         *)
(* ConfigInv says that what is public was meant to be, UpsertInv that what *)
(* an administrator found exists to this day, WalletInv what each          *)
(* telephone may hold at each point of its purchase. ScreensInv says which *)
(* answers a screen may still receive. PhoneInv and SaleInv tie what a     *)
(* telephone keeps of a purchase without account to the sale. KeptInv says *)
(* where the lines of a cart are, in memory or on the disk, at each stage  *)
(* of the application. SinceInv says that the measures of an attempt are   *)
(* of one courier, AnswersInv that no answer goes back along the road.     *)
(* RoadInv orders what the telephone of a courier keeps, sends and has     *)
(* been told. AgesInv, OwnInv and ChoiceInv say how the rows of an address *)
(* book are told apart, and what a request has read that still holds.      *)
(* ReferralInv says that no circle of accounts refers itself, what a       *)
(* closing order has written, and that credits add up to the rewards paid. *)
(* GuessesOK spreads the handlers of a code over its counts: each wrong    *)
(* guess leaves a new spread behind.                                       *)
(***************************************************************************)
EXTENDS PaymentMethods, QueryCache, GuestPurchase, Cart, CustomerTracking, AddressBook,
        CourierTracking, Referrals, PasswordResets, SetSums, FiniteSetTheorems,
        SequenceTheorems, WellFoundedInduction, TLAPS

-----------------------------------------------------------------------------
(* The payment methods.                                                    *)

AnyNumber == Numbers \cup {NoNumber}
AnyCode == MethodCodes \cup {Cash}
MethodRow == [exists : BOOLEAN, number : AnyNumber, isActive : BOOLEAN]
UpsertRecord ==
  [at : {"idle", "read"}, code : AnyCode, number : AnyNumber,
   isActive : {"unsaid", "yes", "no"}, existing : BOOLEAN, public : BOOLEAN]
RequestRecord ==
  [paymentMethod : {Cash, "DIRECT_MOBILE_MONEY", "MOBILE_MONEY", "CARD"},
   code : SUBSET MethodCodes, provider : SUBSET MethodCodes]
WalletRecord ==
  [at : {"shopping", "sent", "resolved", "placed", "done"}, list : SUBSET MethodCodes,
   chosen : AnyCode, request : RequestRecord, code : AnyCode, resolved : AnyNumber,
   goes : {"none", "confirmation", "paiement", "elsewhere"}, shown : AnyNumber]
PurchaseRecord == [method : AnyCode \cup {"none"}, number : AnyNumber]

MethodsTypeOK ==
  /\ config \in [MethodCodes -> MethodRow]
  /\ upsert \in [Managers -> UpsertRecord]
  /\ wallet \in [Buyers -> WalletRecord]
  /\ bought \in [Buyers -> PurchaseRecord]
  /\ official \in [MethodCodes -> SUBSET AnyNumber]
  /\ exposed \in [MethodCodes -> SUBSET AnyNumber]
  /\ retouched \in [MethodCodes -> SUBSET AnyNumber]

ConfigInv ==
  \A c \in MethodCodes :
    /\ config[c].isActive => config[c].number \in official[c] \cup exposed[c]
    /\ exposed[c] # {} => official[c] # {}
    /\ official[c] # {} => config[c].exists /\ config[c].number \in official[c] \cup retouched[c]

UpsertInv ==
  \A m \in Managers :
    upsert[m].at = "read" =>
      /\ upsert[m].code \in MethodCodes
      /\ upsert[m].existing => config[upsert[m].code].exists
      /\ upsert[m].isActive = "unsaid" /\ ~ upsert[m].public =>
           (config[upsert[m].code].isActive => upsert[m].number \in exposed[upsert[m].code])

\* The method an order may have when it answers a request of this application.
Leads(paymentMethod, method) ==
  /\ paymentMethod = Cash => method = Cash
  /\ paymentMethod = "DIRECT_MOBILE_MONEY" => method \in MethodCodes

\* What a telephone holds of numbers.
Held(b) ==
  LET w == wallet[b] IN
  /\ w.at = "resolved" /\ w.code # Cash => w.resolved \in official[w.code] \cup exposed[w.code]
  /\ bought[b].method \in MethodCodes =>
       bought[b].number \in official[bought[b].method] \cup exposed[bought[b].method]
  /\ w.shown # NoNumber =>
       /\ bought[b].method \in MethodCodes
       /\ w.shown \in official[bought[b].method] \cup retouched[bought[b].method]

\* How far its purchase is, while no answer was lost.
Course(b) ==
  LET w == wallet[b] IN
  /\ bought[b].method = "none" => bought[b] = NoPurchase
  /\ w.at # "done" => w.goes = "none" /\ w.shown = NoNumber
  /\ w.at \in {"placed", "done"} => bought[b].method # "none"
  /\ w.at = "resolved" => Leads(w.request.paymentMethod, w.code)
  /\ b \notin unanswered =>
       /\ w.at \in {"shopping", "sent", "resolved"} => bought[b] = NoPurchase
       /\ w.at = "placed" => Leads(w.request.paymentMethod, bought[b].method)
       /\ w.goes = "paiement" => bought[b].method \in MethodCodes
       /\ w.goes = "confirmation" => bought[b].method = Cash

MethodsIInv ==
  /\ MethodsTypeOK
  /\ ConfigInv
  /\ UpsertInv
  /\ \A b \in Buyers : Held(b)
  /\ \A b \in Buyers : Course(b)

-----------------------------------------------------------------------------
(* The administration.                                                      *)

LEMMA InitHolds == MethodsInit => MethodsIInv
BY MethodsAssumption
   DEF MethodsInit, MethodsIInv, MethodsTypeOK, ConfigInv, UpsertInv, Held, Course, MethodRow,
       UpsertRecord, WalletRecord, RequestRecord, PurchaseRecord, AnyNumber, AnyCode,
       NoMethod, NoUpsert, NoPurchase, Shopping, InCash

(* The numbers that are public or retouched only grow: what the telephones  *)
(* hold of them stays held.                                                *)
LEMMA HistoryGrows ==
  ASSUME MethodsIInv, UNCHANGED <<wallet, bought, unanswered>>,
         \A c \in MethodCodes : /\ official[c] \subseteq official'[c]
                                /\ exposed[c] \subseteq exposed'[c]
                                /\ retouched[c] \subseteq retouched'[c]
  PROVE  (\A b \in Buyers : Held(b)') /\ (\A b \in Buyers : Course(b)')
<1>1. ASSUME NEW b \in Buyers PROVE Held(b)'
  <2>1. Held(b) /\ wallet[b].code \in MethodCodes \cup {Cash}
    BY <1>1 DEF MethodsIInv, MethodsTypeOK, WalletRecord, AnyCode
  <2> QED
    BY <2>1 DEF Held
<1>2. ASSUME NEW b \in Buyers PROVE Course(b)'
  BY <1>2 DEF MethodsIInv, Course
<1> QED
  BY <1>1, <1>2

LEMMA UpsertReadsKeeps ==
  ASSUME MethodsIInv, NEW m \in Managers, upsertReads(m)
  PROVE  MethodsIInv'
<1>1. PICK c \in MethodCodes, n \in Numbers, said \in {"unsaid", "yes", "no"} :
        upsert' = [upsert EXCEPT ![m] =
          [at |-> "read", code |-> c, number |-> n, isActive |-> said,
           existing |-> config[c].exists, public |-> config[c].isActive]]
  BY DEF upsertReads
<1>2. UNCHANGED <<config, wallet, bought, official, exposed, retouched, unanswered>>
  BY DEF upsertReads
<1>3. MethodsTypeOK'
  BY <1>1, <1>2 DEF MethodsIInv, MethodsTypeOK, MethodRow, UpsertRecord, AnyNumber, AnyCode
<1>4. ConfigInv'
  BY <1>2 DEF MethodsIInv, ConfigInv
<1>5. UpsertInv'
  BY <1>1, <1>2 DEF MethodsIInv, MethodsTypeOK, UpsertInv
<1>6. (\A b \in Buyers : Held(b)') /\ (\A b \in Buyers : Course(b)')
  BY <1>2, HistoryGrows
<1> QED
  BY <1>3, <1>4, <1>5, <1>6 DEF MethodsIInv

LEMMA UpsertWritesKeeps ==
  ASSUME MethodsIInv, NEW m \in Managers, upsertWrites(m)
  PROVE  MethodsIInv'
<1> DEFINE u == upsert[m]
           c == upsert[m].code
           new == IF upsert[m].existing THEN updateMethod(upsert[m], config[upsert[m].code])
                  ELSE createMethod(upsert[m])
           meant == Meant(upsert[m])
           others == {upsert[o].number : o \in {o \in OnTheirWay(upsert[m].code) : upsert[m].isActive = "yes"}}
<1>1. /\ u \in UpsertRecord /\ u.at = "read" /\ c \in MethodCodes
      /\ u.existing => config[c].exists
      /\ config[c] \in MethodRow
  BY DEF upsertWrites, MethodsIInv, MethodsTypeOK, UpsertInv
<1>2. UNCHANGED <<wallet, bought, unanswered>> /\ upsert' = [upsert EXCEPT ![m] = NoUpsert]
  BY DEF upsertWrites
<1>3. CASE ~ u.existing /\ config[c].exists
  <2>1. UNCHANGED <<config, official, exposed, retouched>>
    BY <1>3 DEF upsertWrites
  <2>2. MethodsTypeOK'
    BY <1>2, <2>1 DEF MethodsIInv, MethodsTypeOK, NoUpsert, UpsertRecord, AnyNumber, AnyCode
  <2>3. ConfigInv' /\ UpsertInv'
    BY <1>2, <2>1 DEF MethodsIInv, MethodsTypeOK, ConfigInv, UpsertInv, NoUpsert
  <2>4. (\A b \in Buyers : Held(b)') /\ (\A b \in Buyers : Course(b)')
    BY <1>2, <2>1, HistoryGrows
  <2> QED
    BY <2>2, <2>3, <2>4 DEF MethodsIInv
<1>4. CASE u.existing \/ ~ config[c].exists
  <2>1. /\ config' = [config EXCEPT ![c] = new]
        /\ official' = [official EXCEPT ![c] = @ \cup {n \in {u.number} : meant}]
        /\ retouched' = [retouched EXCEPT ![c] = @ \cup {n \in {u.number} : u.existing /\ ~ meant}]
        /\ exposed' = [exposed EXCEPT ![c] = @ \cup others]
    BY <1>4, <1>1 DEF upsertWrites, UpsertRecord, MethodRow
  <2>2. new \in MethodRow /\ new.exists = TRUE /\ new.number = u.number
    BY <1>1 DEF updateMethod, createMethod, MethodRow, UpsertRecord
  <2>3. new.isActive => meant \/ u.number \in exposed[c]
    <3>1. UpsertInv
      BY DEF MethodsIInv
    <3>2. u.isActive = "unsaid" /\ ~ u.public => (config[c].isActive => u.number \in exposed[c])
      BY <1>1, <3>1 DEF UpsertInv
    <3> QED
      BY <1>1, <1>4, <3>2 DEF updateMethod, createMethod, Meant, MethodRow, UpsertRecord
  <2>4. MethodsTypeOK'
    <3>1. u.number \in AnyNumber /\ others \subseteq AnyNumber
      BY <1>1 DEF UpsertRecord, OnTheirWay, MethodsIInv, MethodsTypeOK
    <3> HIDE DEF new, meant, others
    <3> QED
      BY <1>1, <1>2, <2>1, <2>2, <3>1 DEF MethodsIInv, MethodsTypeOK, NoUpsert, UpsertRecord, AnyNumber, AnyCode
  <2>5. ConfigInv'
    <3>1. ASSUME NEW d \in MethodCodes, d # c
          PROVE  /\ config'[d] = config[d] /\ official'[d] = official[d]
                 /\ exposed'[d] = exposed[d] /\ retouched'[d] = retouched[d]
      BY <2>1, <3>1 DEF MethodsIInv, MethodsTypeOK
    <3>2. /\ config'[c] = new
          /\ official'[c] = official[c] \cup {n \in {u.number} : meant}
          /\ retouched'[c] = retouched[c] \cup {n \in {u.number} : u.existing /\ ~ meant}
          /\ exposed[c] \subseteq exposed'[c] /\ exposed'[c] = exposed[c] \cup others
      BY <1>1, <2>1 DEF MethodsIInv, MethodsTypeOK
    <3>3. ~ u.existing => official[c] = {}
      BY <1>1, <1>4 DEF MethodsIInv, ConfigInv
    <3>4. config'[c].isActive => config'[c].number \in official'[c] \cup exposed'[c]
      BY <2>2, <2>3, <3>2
    <3>5. official'[c] # {} => config'[c].exists /\ config'[c].number \in official'[c] \cup retouched'[c]
      BY <2>2, <3>2, <3>3
    <3>6. exposed'[c] # {} => official'[c] # {}
      <4>1. others # {} => meant
        BY DEF Meant
      <4>2. exposed[c] # {} => official[c] # {}
        BY <1>1 DEF MethodsIInv, ConfigInv
      <4> HIDE DEF others, meant
      <4> QED
        BY <3>2, <4>1, <4>2
    <3> QED
      BY <3>1, <3>4, <3>5, <3>6 DEF MethodsIInv, ConfigInv
  <2>6. UpsertInv'
    <3>1. \A d \in MethodCodes : config[d].exists => config'[d].exists
      BY <2>1, <2>2 DEF MethodsIInv, MethodsTypeOK
    <3>2. ASSUME NEW o \in Managers, upsert'[o].at = "read"
          PROVE  o # m /\ upsert'[o] = upsert[o] /\ upsert[o].code \in MethodCodes
      BY <1>2, <3>2 DEF MethodsIInv, MethodsTypeOK, UpsertInv, NoUpsert
    <3>3. ASSUME NEW o \in Managers, o # m, upsert[o].at = "read", upsert[o].isActive = "unsaid",
                 ~ upsert[o].public, config'[upsert[o].code].isActive
          PROVE  upsert[o].number \in exposed'[upsert[o].code]
      <4> DEFINE d == upsert[o].code
      <4>1. d \in MethodCodes /\ (config[d].isActive => upsert[o].number \in exposed[d])
        BY <3>3 DEF MethodsIInv, UpsertInv
      <4>2. CASE d # c \/ config[c].isActive
        BY <2>1, <3>3, <4>1, <4>2 DEF MethodsIInv, MethodsTypeOK
      <4>3. CASE d = c /\ ~ config[c].isActive
        <5>1. new.isActive
          BY <1>1, <2>1, <3>3, <4>3 DEF MethodsIInv, MethodsTypeOK
        <5>2. u.isActive = "yes"
          BY <1>1, <4>3, <5>1 DEF updateMethod, createMethod, UpsertRecord, MethodRow
        <5>3. upsert[o].number \in others
          BY <3>3, <4>3, <5>2 DEF OnTheirWay
        <5> HIDE DEF others
        <5> QED
          BY <1>1, <2>1, <4>3, <5>3 DEF MethodsIInv, MethodsTypeOK
      <4> QED
        BY <4>2, <4>3
    <3> QED
      BY <3>1, <3>2, <3>3 DEF MethodsIInv, UpsertInv
  <2>7. (\A b \in Buyers : Held(b)') /\ (\A b \in Buyers : Course(b)')
    <3>1. \A d \in MethodCodes : /\ official[d] \subseteq official'[d]
                                  /\ exposed[d] \subseteq exposed'[d]
                                  /\ retouched[d] \subseteq retouched'[d]
      BY <2>1 DEF MethodsIInv, MethodsTypeOK
    <3> QED
      BY <1>2, <3>1, HistoryGrows
  <2> QED
    BY <2>4, <2>5, <2>6, <2>7 DEF MethodsIInv
<1> QED
  BY <1>3, <1>4, <1>1 DEF UpsertRecord, MethodRow

LEMMA DeactivateKeeps ==
  ASSUME MethodsIInv, NEW c \in MethodCodes, deactivate(c)
  PROVE  MethodsIInv'
<1>1. /\ config' = [config EXCEPT ![c].isActive = FALSE]
      /\ UNCHANGED <<upsert, wallet, bought, official, exposed, retouched, unanswered>>
  BY DEF deactivate
<1>2. /\ config' \in [MethodCodes -> MethodRow]
      /\ \A d \in MethodCodes :
           /\ config'[d].exists = config[d].exists /\ config'[d].number = config[d].number
           /\ config'[d].isActive => config[d].isActive
  BY <1>1 DEF MethodsIInv, MethodsTypeOK, MethodRow
<1>3. MethodsTypeOK'
  BY <1>1, <1>2 DEF MethodsIInv, MethodsTypeOK
<1>4. ConfigInv'
  BY <1>1, <1>2 DEF MethodsIInv, ConfigInv
<1>5. UpsertInv'
  BY <1>1, <1>2 DEF MethodsIInv, UpsertInv
<1>6. (\A b \in Buyers : Held(b)') /\ (\A b \in Buyers : Course(b)')
  BY <1>1, HistoryGrows
<1> QED
  BY <1>3, <1>4, <1>5, <1>6 DEF MethodsIInv

-----------------------------------------------------------------------------
(* The telephones and their orders.                                        *)

(* A step that leaves the configuration alone and moves one telephone has    *)
(* only that telephone to answer for.                                      *)
LEMMA OneTelephone ==
  ASSUME MethodsIInv, NEW b \in Buyers, UNCHANGED <<config, upsert, official, exposed, retouched>>,
         wallet' \in [Buyers -> WalletRecord], bought' \in [Buyers -> PurchaseRecord],
         \A q \in Buyers \ {b} : wallet'[q] = wallet[q] /\ bought'[q] = bought[q],
         \A q \in Buyers \ {b} : q \in unanswered' <=> q \in unanswered,
         Held(b)', Course(b)'
  PROVE  MethodsIInv'
<1>1. MethodsTypeOK' /\ ConfigInv' /\ UpsertInv'
  BY DEF MethodsIInv, MethodsTypeOK, ConfigInv, UpsertInv
<1>2. ASSUME NEW q \in Buyers PROVE Held(q)'
  BY <1>2 DEF MethodsIInv, Held
<1>3. ASSUME NEW q \in Buyers PROVE Course(q)'
  BY <1>3 DEF MethodsIInv, Course
<1> QED
  BY <1>1, <1>2, <1>3 DEF MethodsIInv

LEMMA ShoppingKeeps ==
  ASSUME MethodsIInv, NEW b \in Buyers, usePaymentMethods(b) \/ setMethodCode(b)
  PROVE  MethodsIInv'
<1>1. /\ UNCHANGED <<config, upsert, official, exposed, retouched, bought, unanswered>>
      /\ \E list \in SUBSET MethodCodes, c \in AnyCode :
           wallet' = [wallet EXCEPT ![b] = [wallet[b] EXCEPT !.list = list, !.chosen = c]]
  <2>1. wallet \in [Buyers -> WalletRecord]
    BY DEF MethodsIInv, MethodsTypeOK
  <2>2. CASE usePaymentMethods(b)
    <3>1. wallet' = [wallet EXCEPT ![b] = [wallet[b] EXCEPT !.list = listActive, !.chosen = wallet[b].chosen]]
      BY <2>1, <2>2 DEF usePaymentMethods, WalletRecord
    <3>2. listActive \in SUBSET MethodCodes /\ wallet[b].chosen \in AnyCode
      BY <2>1 DEF listActive, WalletRecord
    <3> QED
      BY <2>2, <3>1, <3>2 DEF usePaymentMethods
  <2>3. CASE setMethodCode(b)
    <3>1. PICK c \in wallet[b].list \cup {Cash} : wallet' = [wallet EXCEPT ![b].chosen = c]
      BY <2>3 DEF setMethodCode
    <3>2. wallet' = [wallet EXCEPT ![b] = [wallet[b] EXCEPT !.list = wallet[b].list, !.chosen = c]]
      BY <2>1, <3>1 DEF WalletRecord
    <3>3. wallet[b].list \in SUBSET MethodCodes /\ c \in AnyCode
      BY <2>1 DEF WalletRecord, AnyCode
    <3> QED
      BY <2>3, <3>2, <3>3 DEF setMethodCode
  <2> QED
    BY <2>2, <2>3
<1>2. wallet' \in [Buyers -> WalletRecord] /\ bought' \in [Buyers -> PurchaseRecord]
  BY <1>1 DEF MethodsIInv, MethodsTypeOK, WalletRecord
<1>3. Held(b)' /\ Course(b)'
  BY <1>1 DEF MethodsIInv, MethodsTypeOK, WalletRecord, Held, Course
<1>4. \A q \in Buyers \ {b} : wallet'[q] = wallet[q] /\ bought'[q] = bought[q]
  BY <1>1 DEF MethodsIInv, MethodsTypeOK
<1> QED
  BY <1>1, <1>2, <1>3, <1>4, OneTelephone

LEMMA SubmitKeeps ==
  ASSUME MethodsIInv, NEW b \in Buyers, submitOrder(b) \/ submitFormerOrder(b)
  PROVE  MethodsIInv'
<1>1. /\ UNCHANGED <<config, upsert, official, exposed, retouched, bought, unanswered>>
      /\ wallet[b].at = "shopping"
      /\ \E r \in RequestRecord :
           wallet' = [wallet EXCEPT ![b] = [wallet[b] EXCEPT !.at = "sent", !.request = r]]
  <2>1. wallet \in [Buyers -> WalletRecord]
    BY DEF MethodsIInv, MethodsTypeOK
  <2>2. CASE submitOrder(b)
    <3>1. selectedMethod(b) = Cash \/ selectedMethod(b) \in MethodCodes
      BY <2>1 DEF selectedMethod, WalletRecord
    <3>2. InCash \in RequestRecord /\ \A c \in MethodCodes : ByTransfer(c) \in RequestRecord
      BY DEF InCash, ByTransfer, RequestRecord
    <3>3. PICK r \in RequestRecord :
            wallet' = [wallet EXCEPT ![b].at = "sent", ![b].request = r]
      BY <2>2, <3>1, <3>2 DEF submitOrder
    <3> QED
      BY <2>1, <2>2, <3>3 DEF submitOrder, WalletRecord
  <2>3. CASE submitFormerOrder(b)
    <3>1. PICK asked \in {"MOBILE_MONEY", "CARD"}, operator \in {{}} \cup {{c} : c \in MethodCodes} :
            wallet' = [wallet EXCEPT ![b].at = "sent",
              ![b].request = [paymentMethod |-> asked, code |-> {}, provider |-> operator]]
      BY <2>3 DEF submitFormerOrder
    <3>2. [paymentMethod |-> asked, code |-> {}, provider |-> operator] \in RequestRecord
      BY DEF RequestRecord
    <3> QED
      BY <2>1, <2>3, <3>1, <3>2 DEF submitFormerOrder, WalletRecord
  <2> QED
    BY <2>2, <2>3
<1>2. wallet' \in [Buyers -> WalletRecord] /\ bought' \in [Buyers -> PurchaseRecord]
  <2>1. PICK r \in RequestRecord :
          wallet' = [wallet EXCEPT ![b] = [wallet[b] EXCEPT !.at = "sent", !.request = r]]
    BY <1>1
  <2>2. wallet[b] \in WalletRecord
    BY DEF MethodsIInv, MethodsTypeOK
  <2>3. [wallet[b] EXCEPT !.at = "sent", !.request = r] \in WalletRecord
    BY <2>2 DEF WalletRecord
  <2> QED
    BY <1>1, <2>1, <2>3 DEF MethodsIInv, MethodsTypeOK
<1>3. Held(b)' /\ Course(b)'
  BY <1>1 DEF MethodsIInv, MethodsTypeOK, WalletRecord, Held, Course
<1>4. \A q \in Buyers \ {b} : wallet'[q] = wallet[q] /\ bought'[q] = bought[q]
  BY <1>1 DEF MethodsIInv, MethodsTypeOK
<1> QED
  BY <1>1, <1>2, <1>3, <1>4, OneTelephone

LEMMA AnsweredKeeps ==
  ASSUME MethodsIInv, NEW b \in Buyers, onOrderAnswered(b)
  PROVE  MethodsIInv'
<1> DEFINE goes ==
      CASE wallet[b].request.paymentMethod = Cash -> "confirmation"
        [] wallet[b].request.paymentMethod = "DIRECT_MOBILE_MONEY" -> "paiement"
        [] OTHER -> "elsewhere"
<1>1. /\ UNCHANGED <<config, upsert, official, exposed, retouched, bought, unanswered>>
      /\ wallet[b].at = "placed" /\ wallet[b] \in WalletRecord
      /\ wallet' = [wallet EXCEPT ![b] = [Shopping EXCEPT !.at = "done", !.goes = goes]]
  BY DEF onOrderAnswered, MethodsIInv, MethodsTypeOK, Shopping
<1>2. /\ goes \in {"confirmation", "paiement", "elsewhere"}
      /\ goes = "confirmation" => wallet[b].request.paymentMethod = Cash
      /\ goes = "paiement" => wallet[b].request.paymentMethod = "DIRECT_MOBILE_MONEY"
  OBVIOUS
<1> HIDE DEF goes
<1>3. wallet' \in [Buyers -> WalletRecord] /\ bought' \in [Buyers -> PurchaseRecord]
  BY <1>1, <1>2 DEF MethodsIInv, MethodsTypeOK, WalletRecord, Shopping, InCash, RequestRecord, AnyCode, AnyNumber
<1>4. wallet'[b] = [Shopping EXCEPT !.at = "done", !.goes = goes]
  BY <1>1 DEF MethodsIInv, MethodsTypeOK
<1>5. Held(b)'
  BY <1>1, <1>4 DEF MethodsIInv, Held, Shopping
<1>6. Course(b)'
  <2>1. Course(b)
    BY DEF MethodsIInv
  <2> QED
    BY <1>1, <1>2, <1>4, <2>1 DEF Course, Leads, Shopping
<1>7. \A q \in Buyers \ {b} : wallet'[q] = wallet[q] /\ bought'[q] = bought[q]
  BY <1>1 DEF MethodsIInv, MethodsTypeOK
<1> QED
  BY <1>1, <1>3, <1>5, <1>6, <1>7, OneTelephone

LEMMA AnswerLostKeeps ==
  ASSUME MethodsIInv, NEW b \in Buyers, answerLost(b)
  PROVE  MethodsIInv'
<1>1. /\ UNCHANGED <<config, upsert, official, exposed, retouched, bought>>
      /\ unanswered' = unanswered \cup {b} /\ wallet[b] \in WalletRecord
      /\ wallet[b].at \in {"sent", "placed"}
      /\ wallet' = [wallet EXCEPT ![b] =
           [wallet[b] EXCEPT !.at = "shopping", !.request = InCash, !.code = Cash, !.resolved = NoNumber]]
  BY DEF answerLost, MethodsIInv, MethodsTypeOK
<1>2. wallet' \in [Buyers -> WalletRecord] /\ bought' \in [Buyers -> PurchaseRecord]
  BY <1>1 DEF MethodsIInv, MethodsTypeOK, WalletRecord, InCash, RequestRecord, AnyCode, AnyNumber
<1>3. Held(b)' /\ Course(b)'
  BY <1>1 DEF MethodsIInv, MethodsTypeOK, WalletRecord, Held, Course
<1>4. \A q \in Buyers \ {b} : wallet'[q] = wallet[q] /\ bought'[q] = bought[q]
  BY <1>1 DEF MethodsIInv, MethodsTypeOK
<1> QED
  BY <1>1, <1>2, <1>3, <1>4, OneTelephone

LEMMA ReplayedKeeps ==
  ASSUME MethodsIInv, NEW b \in Buyers, replayed(b)
  PROVE  MethodsIInv'
<1>1. /\ UNCHANGED <<config, upsert, official, exposed, retouched, bought, unanswered>>
      /\ wallet[b].at = "sent" /\ bought[b] # NoPurchase /\ wallet[b] \in WalletRecord
      /\ wallet' = [wallet EXCEPT ![b] = [wallet[b] EXCEPT !.at = "placed"]]
  BY DEF replayed, MethodsIInv, MethodsTypeOK
<1>2. wallet' \in [Buyers -> WalletRecord] /\ bought' \in [Buyers -> PurchaseRecord]
  BY <1>1 DEF MethodsIInv, MethodsTypeOK, WalletRecord
<1>3. Held(b)' /\ Course(b)'
  BY <1>1 DEF MethodsIInv, MethodsTypeOK, WalletRecord, Held, Course
<1>4. \A q \in Buyers \ {b} : wallet'[q] = wallet[q] /\ bought'[q] = bought[q]
  BY <1>1 DEF MethodsIInv, MethodsTypeOK
<1> QED
  BY <1>1, <1>2, <1>3, <1>4, OneTelephone

LEMMA ResolvedKeeps ==
  ASSUME MethodsIInv, NEW b \in Buyers, resolveOrderPaymentMethod(b)
  PROVE  MethodsIInv'
<1>1. PICK c \in Payable(wallet[b].request) :
        wallet' = [wallet EXCEPT ![b].at = "resolved", ![b].code = c,
                                 ![b].resolved = IF c = Cash THEN NoNumber ELSE config[c].number]
  BY DEF resolveOrderPaymentMethod
<1> DEFINE n == IF c = Cash THEN NoNumber ELSE config[c].number
<1>2. /\ UNCHANGED <<config, upsert, official, exposed, retouched, bought, unanswered>>
      /\ wallet[b].at = "sent" /\ bought[b] = NoPurchase /\ wallet[b] \in WalletRecord
  BY DEF resolveOrderPaymentMethod, MethodsIInv, MethodsTypeOK
<1>3. wallet' = [wallet EXCEPT ![b] = [wallet[b] EXCEPT !.at = "resolved", !.code = c, !.resolved = n]]
  BY <1>1, <1>2 DEF MethodsIInv, MethodsTypeOK, WalletRecord
<1>4. /\ c \in normalizeOrderPayment(wallet[b].request)
      /\ c = Cash \/ (c \in MethodCodes /\ config[c].isActive)
  BY DEF Payable, listActive
<1>5. c # Cash => n \in official[c] \cup exposed[c] /\ n \in AnyNumber
  BY <1>4 DEF MethodsIInv, MethodsTypeOK, ConfigInv, MethodRow
<1>6. n \in AnyNumber /\ c \in AnyCode
  BY <1>4, <1>5 DEF AnyNumber, AnyCode
<1>7. Leads(wallet[b].request.paymentMethod, c)
  <2>1. wallet[b].request.paymentMethod = Cash => normalizeOrderPayment(wallet[b].request) = {Cash}
    BY DEF normalizeOrderPayment, Cash
  <2>2. wallet[b].request.paymentMethod = "DIRECT_MOBILE_MONEY" =>
          normalizeOrderPayment(wallet[b].request) = wallet[b].request.code
    BY DEF normalizeOrderPayment, Cash
  <2>3. wallet[b].request.code \subseteq MethodCodes
    BY <1>2 DEF WalletRecord, RequestRecord
  <2> QED
    BY <1>4, <2>1, <2>2, <2>3 DEF Leads
<1> HIDE DEF n
<1>8. wallet' \in [Buyers -> WalletRecord] /\ bought' \in [Buyers -> PurchaseRecord]
  <2>1. [wallet[b] EXCEPT !.at = "resolved", !.code = c, !.resolved = n] \in WalletRecord
    BY <1>2, <1>6 DEF WalletRecord
  <2> QED
    BY <1>2, <1>3, <2>1 DEF MethodsIInv, MethodsTypeOK
<1>9. /\ wallet'[b].at = "resolved" /\ wallet'[b].code = c /\ wallet'[b].resolved = n
      /\ wallet'[b].goes = wallet[b].goes /\ wallet'[b].shown = wallet[b].shown
      /\ wallet'[b].request = wallet[b].request
  BY <1>2, <1>3 DEF MethodsIInv, MethodsTypeOK, WalletRecord
<1>10. Held(b)'
  BY <1>2, <1>5, <1>9 DEF MethodsIInv, Held
<1>11. Course(b)'
  <2>1. Course(b)
    BY DEF MethodsIInv
  <2> QED
    BY <1>2, <1>7, <1>9, <2>1 DEF Course
<1>12. \A q \in Buyers \ {b} : wallet'[q] = wallet[q] /\ bought'[q] = bought[q]
  BY <1>2, <1>3 DEF MethodsIInv, MethodsTypeOK
<1> QED
  BY <1>2, <1>8, <1>10, <1>11, <1>12, OneTelephone

LEMMA RefusedKeeps ==
  ASSUME MethodsIInv, NEW b \in Buyers, refused(b)
  PROVE  MethodsIInv'
<1>1. /\ UNCHANGED <<config, upsert, official, exposed, retouched, bought, unanswered>>
      /\ wallet[b].at = "sent" /\ bought[b] = NoPurchase /\ wallet[b] \in WalletRecord
      /\ wallet' = [wallet EXCEPT ![b] = [wallet[b] EXCEPT !.at = "shopping", !.request = InCash]]
  BY DEF refused, MethodsIInv, MethodsTypeOK
<1>2. wallet' \in [Buyers -> WalletRecord] /\ bought' \in [Buyers -> PurchaseRecord]
  BY <1>1 DEF MethodsIInv, MethodsTypeOK, WalletRecord, InCash, RequestRecord
<1>3. Held(b)' /\ Course(b)'
  BY <1>1 DEF MethodsIInv, MethodsTypeOK, WalletRecord, Held, Course
<1>4. \A q \in Buyers \ {b} : wallet'[q] = wallet[q] /\ bought'[q] = bought[q]
  BY <1>1 DEF MethodsIInv, MethodsTypeOK
<1> QED
  BY <1>1, <1>2, <1>3, <1>4, OneTelephone

LEMMA CreatedKeeps ==
  ASSUME MethodsIInv, NEW b \in Buyers, createOrder(b)
  PROVE  MethodsIInv'
<1>1. /\ UNCHANGED <<config, upsert, official, exposed, retouched, unanswered>>
      /\ wallet[b].at = "resolved" /\ wallet[b] \in WalletRecord
      /\ wallet' = [wallet EXCEPT ![b] = [wallet[b] EXCEPT !.at = "placed"]]
      /\ bought' = [bought EXCEPT ![b] = [method |-> wallet[b].code, number |-> wallet[b].resolved]]
  BY DEF createOrder, MethodsIInv, MethodsTypeOK
<1>2. wallet[b].code \in AnyCode /\ wallet[b].resolved \in AnyNumber
  BY <1>1 DEF WalletRecord
<1>3. wallet' \in [Buyers -> WalletRecord] /\ bought' \in [Buyers -> PurchaseRecord]
  BY <1>1, <1>2 DEF MethodsIInv, MethodsTypeOK, WalletRecord, PurchaseRecord
<1>4. /\ wallet'[b].at = "placed" /\ wallet'[b].goes = wallet[b].goes
      /\ wallet'[b].shown = wallet[b].shown /\ wallet'[b].request = wallet[b].request
      /\ bought'[b].method = wallet[b].code /\ bought'[b].number = wallet[b].resolved
  BY <1>1 DEF MethodsIInv, MethodsTypeOK, WalletRecord
<1>5. wallet[b].shown = NoNumber
  <2>1. Course(b)
    BY DEF MethodsIInv
  <2> QED
    BY <1>1, <2>1 DEF Course
<1>6. Held(b)'
  BY <1>1, <1>2, <1>4, <1>5, MethodsAssumption DEF MethodsIInv, Held, AnyCode
<1>7. Course(b)'
  <2>1. Course(b)
    BY DEF MethodsIInv
  <2> QED
    BY <1>1, <1>2, <1>4, <2>1, MethodsAssumption DEF Course, AnyCode, Cash
<1>8. \A q \in Buyers \ {b} : wallet'[q] = wallet[q] /\ bought'[q] = bought[q]
  BY <1>1 DEF MethodsIInv, MethodsTypeOK
<1> QED
  BY <1>1, <1>3, <1>6, <1>7, <1>8, OneTelephone

LEMMA InstructionsKeep ==
  ASSUME MethodsIInv, NEW b \in Buyers, instructions(b)
  PROVE  MethodsIInv'
<1> DEFINE c == bought[b].method
<1>1. /\ UNCHANGED <<config, upsert, official, exposed, retouched, bought, unanswered>>
      /\ wallet[b].goes = "paiement" /\ c # Cash /\ wallet[b] \in WalletRecord
      /\ wallet' = [wallet EXCEPT ![b] = [wallet[b] EXCEPT !.shown = config[c].number]]
  BY DEF instructions, resolveMethod, MethodsIInv, MethodsTypeOK
<1>2. c \in MethodCodes
  <2>1. Course(b) /\ bought[b] \in PurchaseRecord
    BY DEF MethodsIInv, MethodsTypeOK
  <2> QED
    BY <1>1, <2>1 DEF Course, PurchaseRecord, AnyCode, WalletRecord
<1>3. config[c].number \in AnyNumber /\ config[c].number \in official[c] \cup retouched[c]
  <2>1. Held(b)
    BY DEF MethodsIInv
  <2> QED
    BY <1>2, <2>1 DEF MethodsIInv, MethodsTypeOK, ConfigInv, MethodRow, Held
<1>4. wallet' \in [Buyers -> WalletRecord] /\ bought' \in [Buyers -> PurchaseRecord]
  <2>1. [wallet[b] EXCEPT !.shown = config[c].number] \in WalletRecord
    BY <1>1, <1>3 DEF WalletRecord
  <2> QED
    BY <1>1, <2>1 DEF MethodsIInv, MethodsTypeOK
<1>5. Held(b)' /\ Course(b)'
  BY <1>1, <1>2, <1>3 DEF MethodsIInv, MethodsTypeOK, WalletRecord, Held, Course
<1>6. \A q \in Buyers \ {b} : wallet'[q] = wallet[q] /\ bought'[q] = bought[q]
  BY <1>1 DEF MethodsIInv, MethodsTypeOK
<1> QED
  BY <1>1, <1>4, <1>5, <1>6, OneTelephone

-----------------------------------------------------------------------------
(* Results.                                                                *)

LEMMA MethodsIInvariant == MethodsSpec => []MethodsIInv
<1>1. MethodsInit => MethodsIInv
  BY InitHolds
<1>2. MethodsIInv /\ [MethodsNext]_methodVars => MethodsIInv'
  <2> SUFFICES ASSUME MethodsIInv, [MethodsNext]_methodVars PROVE MethodsIInv'
    OBVIOUS
  <2>1. CASE \E m \in Managers : upsertReads(m) \/ upsertWrites(m)
    BY <2>1, UpsertReadsKeeps, UpsertWritesKeeps
  <2>2. CASE \E c \in MethodCodes : deactivate(c)
    BY <2>2, DeactivateKeeps
  <2>3. CASE \E b \in Buyers :
               \/ usePaymentMethods(b) \/ setMethodCode(b) \/ submitOrder(b) \/ onOrderAnswered(b)
               \/ submitFormerOrder(b) \/ answerLost(b) \/ replayed(b) \/ resolveOrderPaymentMethod(b)
               \/ refused(b) \/ createOrder(b) \/ instructions(b)
    BY <2>3, ShoppingKeeps, SubmitKeeps, AnsweredKeeps, AnswerLostKeeps, ReplayedKeeps,
       ResolvedKeeps, RefusedKeeps, CreatedKeeps, InstructionsKeep
  <2>4. CASE UNCHANGED methodVars
    BY <2>4 DEF methodVars, MethodsIInv, MethodsTypeOK, ConfigInv, UpsertInv, Held, Course
  <2> QED
    BY <2>1, <2>2, <2>3, <2>4 DEF MethodsNext
<1> QED
  BY <1>1, <1>2, PTL DEF MethodsSpec

(* Whatever the number of administrators and of methods, an order is made    *)
(* with a number an administrator published under its code or corrected      *)
(* while it was public, or that was on its way to the method, saying nothing *)
(* of its publication, when another administrator published it; a customer   *)
(* is shown such a number or one written on the withdrawn method, and none   *)
(* whose presses were all answered is led to the screen of another method.   *)
THEOREM NobodyPaysAnUnpublishedNumber == MethodsSpec => []NumbersAreOfficial
<1>1. MethodsIInv => NumbersAreOfficial
  <2> SUFFICES ASSUME MethodsIInv, NEW b \in Buyers
               PROVE  LET c == bought[b].method IN
                      /\ c \in MethodCodes =>
                           /\ bought[b].number \in official[c] \cup exposed[c]
                           /\ wallet[b].shown \in official[c] \cup retouched[c] \cup {NoNumber}
                      /\ wallet[b].goes \in {"paiement", "confirmation"} /\ b \notin unanswered =>
                           (wallet[b].goes = "paiement" <=> c \in MethodCodes)
    BY DEF NumbersAreOfficial
  <2>1. Held(b) /\ Course(b)
    BY DEF MethodsIInv
  <2> QED
    BY <2>1, MethodsAssumption DEF Held, Course
<1> QED
  BY <1>1, MethodsIInvariant, PTL

-----------------------------------------------------------------------------
(* The query cache.                                                        *)

Datum == [owner : Accounts \cup {Anyone, NoAccount}, version : Nat, overtaken : BOOLEAN]
FetchRecord == [at : {"idle", "sent", "read"}, data : Datum]
QueryRecord == [data : Datum, fresh : BOOLEAN, open : BOOLEAN, fetch : FetchRecord]
MutationRecord == [at : {"idle", "sent", "applied"}, account : Accounts \cup {NoAccount}, version : Nat]

CacheTypeOK ==
  /\ family \in DOMAIN Effects
  /\ session \in Accounts \cup {NoAccount}
  /\ server \in [Accounts -> Nat]
  /\ cache \in [Keys -> QueryRecord]
  /\ mutation \in MutationRecord
  /\ answered \in [Accounts -> Nat]
  /\ disk \in Datum

\* Nothing private is asked for without a session.
ScreensInv ==
  \A k \in Keys :
    /\ cache[k].fetch # NoFetch => cache[k].open \/ ~ TakesSignal(k)
    /\ k \in Private /\ cache[k].open => session # NoAccount
    /\ k \in Private /\ cache[k].fetch # NoFetch => cache[k].fetch.data.owner \in Accounts

\* No mutation is answered before it was applied.
MutationInv ==
  /\ \A a \in Accounts : answered[a] <= server[a]
  /\ mutation.at # "idle" => mutation.account \in Accounts
  /\ mutation.at = "applied" => mutation.version <= server[mutation.account]

\* What is said of an account is not older than the last mutation it was answered,
\* unless it was overtaken on its way.
Current(datum) ==
  datum.overtaken \/ \A a \in Accounts : datum.owner = a => datum.version >= answered[a]

Believed(q) ==
  /\ q.fresh => Current(q.data)
  /\ q.fetch.at = "read" => Current(q.fetch.data)

CacheInv ==
  /\ CacheTypeOK /\ ScreensInv /\ MutationInv
  /\ \A k \in Effects[family].rereads : Believed(cache[k])

LEMMA RereadsArePrivate == \A f \in DOMAIN Effects : Effects[f].rereads \subseteq Private
  BY DEF Effects, Private, Keys, useCancelOrder, useUpdateDeliveryStatus, useManagementMutation,
         useProducerMutation, invalidatePromos, useMarkNotificationsRead, useCreateAddress, useDeclarePayment

LEMMA Blanks ==
  /\ NoData \in Datum /\ NoFetch \in FetchRecord /\ Empty \in QueryRecord
  /\ NoFetch.at = "idle"
  /\ Empty.fresh = FALSE /\ Empty.open = FALSE /\ Empty.fetch = NoFetch
  /\ NoMutation \in MutationRecord /\ NoMutation.at = "idle"
  BY DEF NoData, NoFetch, Empty, NoMutation, Datum, FetchRecord, QueryRecord, MutationRecord

\* A request that leaves carries the account of the session.
LEMMA Leaving ==
  ASSUME CacheTypeOK, NEW k \in Keys
  PROVE  /\ Sent(k) \in FetchRecord /\ Sent(k).at = "sent"
         /\ k \in Private /\ session # NoAccount => Sent(k).data.owner \in Accounts
  <1> DEFINE who == IF k = "catalog" THEN Anyone ELSE session
  <1>1. /\ who \in Accounts \cup {Anyone, NoAccount}
        /\ k \in Private /\ session # NoAccount => who \in Accounts
    BY DEF CacheTypeOK, Private
  <1> HIDE DEF who
  <1> DEFINE carried == [NoData EXCEPT !.owner = who]
  <1>2. carried \in Datum /\ carried.owner = who
    BY <1>1, Blanks DEF Datum
  <1>3. Sent(k) = [at |-> "sent", data |-> carried]
    BY DEF Sent, who
  <1> HIDE DEF carried
  <1>4. Sent(k) \in FetchRecord /\ Sent(k).at = "sent" /\ Sent(k).data = carried
    BY <1>2, <1>3 DEF FetchRecord
  <1>5. QED BY <1>1, <1>2, <1>4

\* What an invalidation leaves of the request of a query.
LEMMA Interrupted ==
  ASSUME CacheTypeOK, NEW k \in Keys
  PROVE  /\ LeftAlone(k) \in FetchRecord /\ LeftAlone(k).data.owner = cache[k].fetch.data.owner
         /\ cache[k].fetch = NoFetch => LeftAlone(k) = NoFetch
         /\ LeftToFinish(k) => LeftAlone(k).data.overtaken
  <1>1. cache[k].fetch \in FetchRecord
    BY DEF CacheTypeOK, QueryRecord
  <1>2. cache[k].fetch = NoFetch => LeftAlone(k) = NoFetch
    BY DEF LeftAlone, LeftToFinish
  <1>3. QED BY <1>1, <1>2 DEF LeftAlone, FetchRecord, Datum

\* One query becomes b, and nothing else changes but the disk.
LEMMA QueryKeeps ==
  ASSUME CacheInv, NEW k \in Keys, NEW b \in QueryRecord,
         cache' = [cache EXCEPT ![k] = b], UNCHANGED <<family, session, server, mutation, answered, disk>>,
         b.fetch # NoFetch => b.open \/ ~ TakesSignal(k), k \in Private /\ b.open => session # NoAccount,
         k \in Private /\ b.fetch # NoFetch => b.fetch.data.owner \in Accounts,
         k \in Effects[family].rereads => Believed(b)
  PROVE  CacheInv'
  <1>1. CacheTypeOK /\ ScreensInv /\ MutationInv /\ (\A p \in Effects[family].rereads : Believed(cache[p]))
    BY DEF CacheInv
  <1>2. \A p \in Keys : cache'[p] = IF p = k THEN b ELSE cache[p]
    BY <1>1 DEF CacheTypeOK
  <1>3. CacheTypeOK' /\ Effects[family].rereads \subseteq Keys
    BY <1>1, RereadsArePrivate DEF CacheTypeOK, Private
  <1>4. ScreensInv'
    BY <1>1, <1>2 DEF ScreensInv, Private, TakesSignal
  <1>5. MutationInv'
    BY <1>1 DEF MutationInv
  <1>6. \A p \in Effects[family]'.rereads : Believed(cache[p])'
    BY <1>1, <1>2, <1>3 DEF Believed, Current
  <1>7. QED BY <1>3, <1>4, <1>5, <1>6 DEF CacheInv

LEMMA QueriesKeep ==
  ASSUME CacheInv, NEW k \in Keys,
         \/ useQuery(k) \/ refetch(k) \/ closeScreen(k) \/ serverReads(k) \/ fetchArrives(k)
         \/ fetchFails(k) \/ staleTimePasses(k) \/ collected(k)
  PROVE  CacheInv'
  <1> DEFINE q == cache[k]
             read == [at |-> "read", data |-> Served(k)]
             missing == q.fetch = NoFetch /\ (q.data = NoData \/ ~ q.fresh)
             opened == [q EXCEPT !.open = TRUE, !.fetch = IF missing THEN Sent(k) ELSE q.fetch]
             asked == [q EXCEPT !.fetch = Sent(k)]
             served == [q EXCEPT !.fetch = read]
             taken == [q EXCEPT !.data = q.fetch.data, !.fresh = TRUE, !.fetch = NoFetch]
             failed == [q EXCEPT !.fetch = NoFetch]
             aged == [q EXCEPT !.fresh = FALSE]
  <1>1. /\ CacheTypeOK /\ q \in QueryRecord /\ q.data \in Datum /\ q.fetch \in FetchRecord
        /\ q.fetch.data \in Datum
        /\ q.fetch # NoFetch => q.open \/ ~ TakesSignal(k)
        /\ k \in Private /\ q.open => session # NoAccount
        /\ k \in Private /\ q.fetch # NoFetch => q.fetch.data.owner \in Accounts
        /\ k \in Effects[family].rereads => Believed(q)
        /\ Effects[family].rereads \subseteq Private
        /\ \A a \in Accounts : answered[a] <= server[a]
    BY RereadsArePrivate DEF CacheInv, CacheTypeOK, ScreensInv, MutationInv, QueryRecord, FetchRecord
  <1>s. /\ Sent(k) \in FetchRecord /\ Sent(k).at = "sent"
        /\ k \in Private /\ session # NoAccount => Sent(k).data.owner \in Accounts
    BY <1>1, Leaving
  <1>2. CASE useQuery(k)
    <2>1. opened \in QueryRecord /\ opened.open /\ cache' = [cache EXCEPT ![k] = opened]
          /\ opened.fetch \in {Sent(k), q.fetch} /\ opened.data = q.data /\ opened.fresh = q.fresh
      BY <1>1, <1>2, <1>s DEF useQuery, QueryRecord, CacheTypeOK
    <2>2. k \in Effects[family].rereads => Believed(opened)
      BY <1>1, <1>s, <2>1 DEF Believed
    <2>3. k \in Private => session # NoAccount
      BY <1>2 DEF useQuery
    <2>4. k \in Private /\ opened.fetch # NoFetch => opened.fetch.data.owner \in Accounts
      BY <1>1, <1>s, <2>1, <2>3
    <2> HIDE DEF opened
    <2>5. QED BY <1>2, <2>1, <2>2, <2>3, <2>4, QueryKeeps DEF useQuery
  <1>3. CASE refetch(k)
    <2>1. asked \in QueryRecord /\ asked.open = q.open /\ cache' = [cache EXCEPT ![k] = asked]
          /\ asked.fetch = Sent(k) /\ asked.data = q.data /\ asked.fresh = q.fresh /\ q.open
      BY <1>1, <1>3, <1>s DEF refetch, QueryRecord, CacheTypeOK
    <2>2. k \in Effects[family].rereads => Believed(asked)
      BY <1>1, <1>s, <2>1 DEF Believed
    <2>3. k \in Private => asked.fetch.data.owner \in Accounts
      BY <1>1, <1>s, <2>1
    <2> HIDE DEF asked
    <2>4. QED BY <1>1, <1>3, <2>1, <2>2, <2>3, QueryKeeps DEF refetch
  <1>4. CASE closeScreen(k)
    <2>1. Closed(k) \in QueryRecord /\ ~ Closed(k).open /\ cache' = [cache EXCEPT ![k] = Closed(k)]
          /\ Closed(k).fetch = (IF TakesSignal(k) THEN NoFetch ELSE q.fetch)
          /\ Closed(k).data = q.data /\ Closed(k).fresh = q.fresh
      BY <1>1, <1>4, Blanks DEF closeScreen, QueryRecord, CacheTypeOK, Closed
    <2>2. k \in Effects[family].rereads => Believed(Closed(k))
      BY <1>1, <2>1, Blanks DEF Believed
    <2>3. QED BY <1>1, <1>4, <2>1, <2>2, QueryKeeps DEF closeScreen
  <1>5. CASE serverReads(k)
    <2> DEFINE now == IF k = "catalog" THEN 1 ELSE server[q.fetch.data.owner]
    <2>1. q.fetch # NoFetch /\ (k \in Private => q.fetch.data.owner \in Accounts)
      BY <1>1, <1>5, Blanks DEF serverReads
    <2>2. now \in Nat /\ (k \in Private => now = server[q.fetch.data.owner])
      BY <1>1, <2>1 DEF CacheTypeOK, Private
    <2>s. Served(k) = [q.fetch.data EXCEPT !.version = now]
      BY DEF Served
    <2> HIDE DEF now
    <2>t. /\ Served(k) \in Datum /\ Served(k).owner = q.fetch.data.owner /\ Served(k).version = now
      BY <1>1, <2>2, <2>s DEF Datum
    <2>u. k \in Effects[family].rereads => Current(Served(k))
      BY <1>1, <2>1, <2>2, <2>t DEF Current, CacheTypeOK
    <2>3. served \in QueryRecord /\ served.open = q.open /\ cache' = [cache EXCEPT ![k] = served]
          /\ served.data = q.data /\ served.fresh = q.fresh /\ served.fetch = read
      BY <1>1, <1>5, <2>t DEF serverReads, QueryRecord, FetchRecord, CacheTypeOK
    <2>4. k \in Effects[family].rereads => Believed(served)
      BY <1>1, <2>u, <2>3 DEF Believed
    <2>5. k \in Private => served.fetch.data.owner \in Accounts
      BY <2>1, <2>3, <2>t
    <2> HIDE DEF served
    <2>6. QED BY <1>1, <1>5, <2>1, <2>3, <2>4, <2>5, QueryKeeps DEF serverReads
  <1>6. CASE fetchArrives(k)
    <2>1. taken \in QueryRecord /\ taken.open = q.open /\ taken.fetch = NoFetch
          /\ taken.data = q.fetch.data /\ cache' = [cache EXCEPT ![k] = taken]
      BY <1>1, <1>6, Blanks DEF fetchArrives, QueryRecord, CacheTypeOK
    <2>2. k \in Effects[family].rereads => Believed(taken)
      BY <1>1, <1>6, <2>1, Blanks DEF Believed, fetchArrives
    <2>3. QED BY <1>1, <1>6, <2>1, <2>2, QueryKeeps DEF fetchArrives
  <1>7. CASE fetchFails(k)
    <2>1. failed \in QueryRecord /\ failed.open = q.open /\ failed.fetch = NoFetch
          /\ cache' = [cache EXCEPT ![k] = failed]
      BY <1>1, <1>7, Blanks DEF fetchFails, QueryRecord, CacheTypeOK
    <2>2. k \in Effects[family].rereads => Believed(failed)
      BY <1>1, Blanks DEF Believed, QueryRecord
    <2>3. QED BY <1>1, <1>7, <2>1, <2>2, QueryKeeps DEF fetchFails
  <1>8. CASE staleTimePasses(k)
    <2>1. aged \in QueryRecord /\ aged.open = q.open /\ aged.fetch = q.fetch /\ ~ aged.fresh
          /\ cache' = [cache EXCEPT ![k] = aged]
      BY <1>1, <1>8 DEF staleTimePasses, QueryRecord, CacheTypeOK
    <2>2. k \in Effects[family].rereads => Believed(aged)
      BY <1>1, <2>1 DEF Believed
    <2>3. QED BY <1>1, <1>8, <2>1, <2>2, QueryKeeps DEF staleTimePasses
  <1>9. CASE collected(k)
    <2>1. Believed(Empty)
      BY Blanks DEF Believed
    <2>2. QED BY <1>1, <1>9, <2>1, Blanks, QueryKeeps DEF collected
  <1>10. QED BY <1>2, <1>3, <1>4, <1>5, <1>6, <1>7, <1>8, <1>9

\* A step that touches no query.
LEMMA QueriesUntouched ==
  ASSUME CacheInv, UNCHANGED <<family, cache>>, CacheTypeOK', MutationInv',
         session' # NoAccount \/ session' = session, answered' = answered
  PROVE  CacheInv'
  BY DEF CacheInv, ScreensInv, TakesSignal, Believed, Current

LEMMA MutationsKeep ==
  ASSUME CacheInv, mutate \/ serverApplies \/ onSuccess \/ mutationFails
  PROVE  CacheInv'
  <1>0. /\ CacheTypeOK /\ ScreensInv /\ MutationInv /\ Effects[family].rereads \subseteq Private
        /\ \A p \in Effects[family].rereads : Believed(cache[p])
        /\ mutation \in MutationRecord
    BY RereadsArePrivate DEF CacheInv, CacheTypeOK
  <1>1. CASE mutate
    <2>1. session \in Accounts /\ mutation' = [at |-> "sent", account |-> session, version |-> 0]
      BY <1>0, <1>1 DEF mutate, CacheTypeOK
    <2>2. CacheTypeOK' /\ MutationInv'
      BY <1>0, <1>1, <2>1 DEF mutate, CacheTypeOK, MutationInv, MutationRecord
    <2>3. QED BY <1>1, <2>2, QueriesUntouched DEF mutate
  <1>2. CASE serverApplies
    <2>1. mutation.account \in Accounts /\ server[mutation.account] \in Nat
      BY <1>0, <1>2 DEF serverApplies, MutationInv, CacheTypeOK
    <2>2. /\ mutation' \in MutationRecord /\ mutation'.account = mutation.account
          /\ mutation'.version = server[mutation.account] + 1
      <3>1. /\ mutation' = [mutation EXCEPT !.at = "applied", !.version = server[mutation.account] + 1]
            /\ server[mutation.account] + 1 \in Nat
        BY <1>2, <2>1 DEF serverApplies
      <3>2. QED BY <1>0, <3>1 DEF MutationRecord
    <2>3. CacheTypeOK' /\ MutationInv'
      BY <1>0, <1>2, <2>1, <2>2 DEF serverApplies, CacheTypeOK, MutationInv
    <2>4. QED BY <1>2, <2>3, QueriesUntouched DEF serverApplies
  <1>3. CASE mutationFails
    <2>1. CacheTypeOK' /\ MutationInv'
      BY <1>0, <1>3, Blanks DEF mutationFails, CacheTypeOK, MutationInv
    <2>2. QED BY <1>3, <2>1, QueriesUntouched DEF mutationFails
  <1>4. CASE onSuccess
    <2> DEFINE answer == [owner |-> mutation.account, version |-> mutation.version, overtaken |-> FALSE]
               written(k) == [cache[k] EXCEPT !.data = answer, !.fresh = TRUE]
    <2>1. mutation.account \in Accounts /\ mutation.version \in Nat
          /\ mutation.version <= server[mutation.account] /\ answer \in Datum
      BY <1>0, <1>4 DEF onSuccess, MutationInv, MutationRecord, Datum
    <2>2. \A k \in Keys : cache[k] \in QueryRecord
      BY <1>0 DEF CacheTypeOK
    <2>3. \A k \in Keys :
            /\ Invalidated(k) \in QueryRecord /\ ~ Invalidated(k).fresh
            /\ Invalidated(k).open = cache[k].open
            /\ Invalidated(k).fetch =
                 IF cache[k].open /\ ~ LeftToFinish(k) THEN Sent(k) ELSE LeftAlone(k)
      BY <1>0, <2>2, Leaving, Interrupted DEF Invalidated, QueryRecord
    <2>4. \A k \in Keys :
            /\ written(k) \in QueryRecord /\ written(k).open = cache[k].open
            /\ written(k).fetch = cache[k].fetch
      BY <2>1, <2>2 DEF QueryRecord
    <2>5. cache' = [k \in Keys |->
                      IF k \in Effects[family].rereads THEN Invalidated(k)
                      ELSE IF k \in Effects[family].writes THEN written(k) ELSE cache[k]]
      BY <1>4 DEF onSuccess
    <2> HIDE DEF written
    <2>6. \A k \in Keys : cache'[k] \in {Invalidated(k), written(k), cache[k]}
      BY <2>5
    <2>7. cache' \in [Keys -> QueryRecord]
      BY <2>2, <2>3, <2>4, <2>5
    <2>8. CacheTypeOK' /\ MutationInv'
      BY <1>0, <1>4, <2>1, <2>7, Blanks DEF onSuccess, CacheTypeOK, MutationInv
    <2>9. ScreensInv'
      <3>1. ASSUME NEW k \in Keys
            PROVE  /\ cache'[k].open = cache[k].open
                   /\ cache'[k].fetch # NoFetch => cache[k].open \/ ~ TakesSignal(k)
                   /\ k \in Private /\ cache'[k].fetch # NoFetch => cache'[k].fetch.data.owner \in Accounts
        <4>1. /\ cache[k].fetch # NoFetch => cache[k].open \/ ~ TakesSignal(k)
              /\ k \in Private /\ cache[k].open => session # NoAccount
              /\ k \in Private /\ cache[k].fetch # NoFetch => cache[k].fetch.data.owner \in Accounts
          BY <1>0 DEF ScreensInv
        <4>2. CASE cache'[k] = Invalidated(k)
          BY <1>0, <2>3, <4>1, <4>2, Leaving, Interrupted
        <4>3. CASE cache'[k] \in {written(k), cache[k]}
          BY <2>4, <4>1, <4>3
        <4>4. QED BY <2>6, <4>2, <4>3
      <3>2. QED BY <1>0, <1>4, <3>1 DEF onSuccess, ScreensInv, TakesSignal
    <2>10. \A k \in Effects[family].rereads :
             ~ cache'[k].fresh /\ (cache'[k].fetch.at = "read" => cache'[k].fetch.data.overtaken)
      <3>1. ASSUME NEW k \in Effects[family].rereads
            PROVE  ~ cache'[k].fresh /\ (cache'[k].fetch.at = "read" => cache'[k].fetch.data.overtaken)
        <4>1. k \in Keys /\ cache'[k] = Invalidated(k)
          BY <1>0, <2>5, <3>1 DEF Private
        <4>2. CASE LeftToFinish(k)
          BY <1>0, <2>3, <4>1, <4>2, Interrupted
        <4>3. CASE ~ LeftToFinish(k)
          <5>1. ~ cache[k].open => cache[k].fetch = NoFetch
            BY <4>3 DEF LeftToFinish
          <5>2. cache'[k].fetch \in {Sent(k), NoFetch}
            BY <1>0, <2>3, <4>1, <4>3, <5>1, Interrupted
          <5>3. QED BY <1>0, <2>3, <4>1, <5>2, Leaving, Blanks
        <4>4. QED BY <4>2, <4>3
      <3>2. QED BY <3>1
    <2>11. \A k \in Effects[family]'.rereads : Believed(cache[k])'
      BY <1>4, <2>10 DEF onSuccess, Believed, Current
    <2>12. QED BY <2>8, <2>9, <2>11 DEF CacheInv
  <1>5. QED BY <1>1, <1>2, <1>3, <1>4

LEMMA AccountsKeep ==
  ASSUME CacheInv,
         \/ \E a \in Accounts : ChangedElsewhere(a) \/ sessionOpens(a)
         \/ sessionEnds \/ persistCatalogCache \/ restoreCatalogCache
  PROVE  CacheInv'
  <1>0. /\ CacheTypeOK /\ ScreensInv /\ MutationInv /\ Effects[family].rereads \subseteq Private
        /\ \A p \in Effects[family].rereads : Believed(cache[p])
        /\ \A k \in Keys : cache[k] \in QueryRecord
    BY RereadsArePrivate DEF CacheInv, CacheTypeOK
  <1>1. CASE \E a \in Accounts : ChangedElsewhere(a)
    <2>0. PICK b \in Accounts : ChangedElsewhere(b)
      BY <1>1
    <2>1. CacheTypeOK'
      BY <1>0, <2>0 DEF ChangedElsewhere, CacheTypeOK
    <2>2. \A a \in Accounts : server[a] \in Nat /\ server[a] <= server'[a] /\ server'[a] \in Nat
      BY <1>0, <2>0 DEF ChangedElsewhere, CacheTypeOK
    <2>3. MutationInv'
      BY <1>0, <2>0, <2>2 DEF ChangedElsewhere, MutationInv, CacheTypeOK, MutationRecord
    <2>4. QED BY <2>0, <2>1, <2>3, QueriesUntouched DEF ChangedElsewhere
  <1>2. CASE \E a \in Accounts : sessionOpens(a)
    <2>1. CacheTypeOK' /\ MutationInv' /\ session' # NoAccount
      BY <1>0, <1>2, CacheBounds DEF sessionOpens, CacheTypeOK, MutationInv
    <2>2. QED BY <1>2, <2>1, QueriesUntouched DEF sessionOpens
  <1>3. CASE persistCatalogCache
    <2>1. CacheTypeOK' /\ MutationInv'
      BY <1>0, <1>3 DEF persistCatalogCache, CacheTypeOK, MutationInv, QueryRecord
    <2>2. QED BY <1>3, <2>1, QueriesUntouched DEF persistCatalogCache
  <1>4. CASE sessionEnds
    <2>1. \A k \in Keys : /\ Closed(k) \in QueryRecord
                          /\ Closed(k).fetch = (IF TakesSignal(k) THEN NoFetch ELSE cache[k].fetch)
                          /\ ~ Closed(k).open /\ Closed(k).data = cache[k].data
                          /\ Closed(k).fresh = cache[k].fresh
      BY <1>0, Blanks DEF Closed, QueryRecord
    <2>2. \A k \in Keys : cache'[k] = IF k \in Private THEN Closed(k) ELSE cache[k]
      BY <1>4 DEF sessionEnds
    <2>3. cache' \in [Keys -> QueryRecord]
      BY <1>0, <1>4, <2>1 DEF sessionEnds
    <2>4. CacheTypeOK' /\ MutationInv'
      BY <1>0, <1>4, <2>3 DEF sessionEnds, CacheTypeOK, MutationInv
    <2>5. ScreensInv'
      BY <1>0, <1>4, <2>1, <2>2 DEF sessionEnds, ScreensInv, TakesSignal
    <2>6. \A k \in Effects[family]'.rereads : Believed(cache[k])'
      BY <1>0, <1>4, <2>1, <2>2, Blanks DEF sessionEnds, Believed, Current, Private
    <2>7. QED BY <2>4, <2>5, <2>6 DEF CacheInv
  <1>5. CASE restoreCatalogCache
    <2>1. PICK copied \in {disk, NoData}, fresh \in BOOLEAN :
            /\ disk' = copied
            /\ cache' = [[k \in Keys |-> Empty] EXCEPT !["catalog"].data = copied,
                                                       !["catalog"].fresh = fresh /\ copied # NoData]
      BY <1>5 DEF restoreCatalogCache
    <2> DEFINE b == [Empty EXCEPT !.data = copied, !.fresh = fresh /\ copied # NoData]
    <2>2. copied \in Datum
      BY <1>0, <2>1, Blanks DEF CacheTypeOK
    <2>3. (fresh /\ copied # NoData) \in BOOLEAN
      OBVIOUS
    <2>4. b \in QueryRecord /\ b.fetch = NoFetch /\ b.open = FALSE
      BY <2>2, <2>3, Blanks DEF QueryRecord
    <2>5. cache' = [k \in Keys |-> IF k = "catalog" THEN b ELSE Empty]
      BY <2>1 DEF Keys
    <2> HIDE DEF b
    <2>6. cache' \in [Keys -> QueryRecord] /\ \A k \in Keys : cache'[k] = IF k = "catalog" THEN b ELSE Empty
      BY <2>4, <2>5, Blanks
    <2>7. CacheTypeOK' /\ MutationInv'
      BY <1>0, <1>5, <2>1, <2>2, <2>6, Blanks DEF restoreCatalogCache, CacheTypeOK, MutationInv
    <2>8. ScreensInv'
      BY <2>4, <2>6, Blanks DEF ScreensInv
    <2>9. \A k \in Effects[family]'.rereads : Believed(cache[k])'
      BY <1>0, <1>5, <2>6, Blanks DEF restoreCatalogCache, Believed, Private
    <2>10. QED BY <2>7, <2>8, <2>9 DEF CacheInv
  <1>6. QED BY <1>1, <1>2, <1>3, <1>4, <1>5

LEMMA CacheStart == CacheInit => CacheInv
  <1> SUFFICES ASSUME CacheInit PROVE CacheInv
    OBVIOUS
  <1>1. \A k \in Keys : cache[k] = Empty
    BY DEF CacheInit
  <1>2. CacheTypeOK /\ Effects[family].rereads \subseteq Keys
    BY Blanks, RereadsArePrivate DEF CacheInit, CacheTypeOK, Private
  <1>3. ScreensInv /\ MutationInv
    BY <1>1, Blanks DEF CacheInit, ScreensInv, MutationInv
  <1>4. QED BY <1>1, <1>2, <1>3, Blanks DEF CacheInv, Believed

LEMMA CacheStep == CacheInv /\ [CacheNext]_cacheVars => CacheInv'
  <1> SUFFICES ASSUME CacheInv, [CacheNext]_cacheVars PROVE CacheInv'
    OBVIOUS
  <1>1. CASE UNCHANGED cacheVars
    BY <1>1 DEF cacheVars, CacheInv, CacheTypeOK, ScreensInv, TakesSignal, MutationInv, Believed, Current
  <1>2. CASE CacheNext
    BY <1>2, QueriesKeep, MutationsKeep, AccountsKeep DEF CacheNext
  <1>3. QED BY <1>1, <1>2

(* The queries keep the shape TanStack Query and the hooks give them: only  *)
(* the reads that take no signal outlive their screen, and no screen of an  *)
(* account is left once its session has ended.                              *)
THEOREM CacheTypeCorrectness == CacheSpec => [](CacheTypeOK /\ ScreensInv)
  <1>1. CacheInv => CacheTypeOK /\ ScreensInv
    BY DEF CacheInv
  <1>2. QED BY <1>1, CacheStart, CacheStep, PTL DEF CacheSpec

(* onSuccess of every family of hooks: after the answer to a mutation, the  *)
(* queries it has read again never pass for fresh with older data, unless   *)
(* that was on its way as a first read, or with no screen left to want it.  *)
THEOREM MutationsAreShown == CacheSpec => []AnsweredMutationIsShown
  <1>1. CacheInv => AnsweredMutationIsShown
    BY DEF CacheInv, Believed, Current, AnsweredMutationIsShown
  <1>2. QED BY <1>1, CacheStart, CacheStep, PTL DEF CacheSpec

-----------------------------------------------------------------------------
(* The purchase without an account.                                        *)

Stage == {"idle", "asked", "checked", "profiled", "created", "thrown", "answered", "failed", "ended"}
AttemptRecord == [at : Stage, key : Purchases \cup {NoOne}]
PaymentState == {"PENDING", "DECLARED_BY_CUSTOMER", "SUCCEEDED", "REJECTED"}
SaleRecord == [owner : Attempts, payment : PaymentState]
AccessState == {"none", "valid", "expired"}
PhoneRecord ==
  [at : {"closed", "form", "saving", "paiement", "confirmation"}, key : Purchases \cup {NoOne},
   waits : Attempts \cup {NoOne}, access : AccessState \cup {"unread"},
   view : PaymentState \cup {"unknown"}]

GuestTypeOK ==
  /\ profile \in [Attempts -> {"none", "exists", "deleted"}]
  /\ sale \in [Purchases -> SaleRecord \cup {NoSale}]
  /\ attempt \in [Attempts -> AttemptRecord]
  /\ phone \in PhoneRecord
  /\ vault \in [Purchases -> AccessState]
  /\ drawn \subseteq Purchases /\ kept \subseteq Purchases /\ abandoned \subseteq Attempts

\* Each stage of an attempt says what has become of its profile and of its key.
AttemptInv ==
  \A a \in Attempts :
    /\ attempt[a].at # "idle" => attempt[a].key \in Purchases
    /\ attempt[a].at \in {"idle", "asked", "checked"} => profile[a] = "none"
    /\ attempt[a].at \in {"profiled", "created", "thrown"} => profile[a] = "exists"
    /\ attempt[a].at \in {"created", "answered"} => made(attempt[a].key)
    /\ attempt[a].at \in {"answered", "failed", "ended"} /\ profile[a] = "exists" =>
         a \in Owners \cup abandoned

\* An order was made by an attempt of its key.
SaleInv ==
  \A k \in Purchases :
    made(k) => /\ profile[sale[k].owner] = "exists"
               /\ attempt[sale[k].owner].key = k
               /\ attempt[sale[k].owner].at \in {"created", "thrown", "answered", "failed", "ended"}

\* The telephone waits for an attempt of its key, and shows the payment of an order.
PhoneInv ==
  /\ phone.at # "closed" => phone.key \in Purchases
  /\ phone.waits # NoOne => phone.at = "form" /\ attempt[phone.waits].key = phone.key
  /\ phone.at \in {"saving", "paiement", "confirmation"} => made(phone.key)
  /\ phone.view # "unknown" => phone.at \in {"paiement", "confirmation"}
  /\ phone.view = "SUCCEEDED" => sale[phone.key].payment = "SUCCEEDED"

VaultInv == \A k \in kept : sale[k].payment # "SUCCEEDED" => vault[k] # "none"

GuestInv == GuestTypeOK /\ AttemptInv /\ SaleInv /\ PhoneInv /\ VaultInv

LEMMA MadeSales ==
  ASSUME GuestTypeOK, NEW k \in Purchases
  PROVE  made(k) <=> sale[k] \in SaleRecord
  BY GuestAssumption DEF GuestTypeOK, made, NoSale, SaleRecord

LEMMA GuestImplied == GuestInv => GuestPurchaseIsKept
  BY DEF GuestInv, AttemptInv, SaleInv, PhoneInv, VaultInv, GuestPurchaseIsKept

\* An attempt may move to a stage and leave its profile in the state p.
MayMove(a, to, p) ==
  /\ attempt[a].at # "idle" /\ to \in Stage \ {"idle", "asked"}
  /\ p \in {"none", "exists", "deleted"}
  /\ to = "checked" => p = "none"
  /\ to \in {"profiled", "created", "thrown"} => p = "exists"
  /\ to \in {"created", "answered"} => made(attempt[a].key)
  /\ \A k \in Purchases : made(k) /\ sale[k].owner = a => p = "exists" /\ to \notin {"checked", "profiled"}

\* An attempt moves to a stage, and no order changes.
LEMMA StagesKeep ==
  ASSUME GuestInv, NEW a \in Attempts, NEW to, attempt' = [attempt EXCEPT ![a].at = to],
         UNCHANGED <<sale, vault, kept>>,
         phone' \in PhoneRecord, drawn' \subseteq Purchases, phone' = phone \/ PhoneInv',
         NEW p, profile' = [profile EXCEPT ![a] = p],
         abandoned \subseteq abandoned', abandoned' \subseteq Attempts, MayMove(a, to, p),
         to \in {"answered", "failed", "ended"} /\ p = "exists" => a \in Owners \cup abandoned'
  PROVE  GuestInv'
  <1>0. GuestTypeOK /\ AttemptInv /\ SaleInv /\ PhoneInv /\ VaultInv
    BY DEF GuestInv
  <1> USE DEF MayMove
  <1>1. /\ \A b \in Attempts : /\ attempt'[b].key = attempt[b].key
                               /\ attempt'[b].at = IF b = a THEN to ELSE attempt[b].at
                               /\ profile'[b] = IF b = a THEN p ELSE profile[b]
        /\ attempt' \in [Attempts -> AttemptRecord] /\ profile' \in [Attempts -> {"none", "exists", "deleted"}]
    BY <1>0 DEF GuestTypeOK, AttemptRecord
  <1>2. (\A k : made(k)' = made(k)) /\ Owners' = Owners
    BY DEF made, Owners
  <1>3. GuestTypeOK'
    BY <1>0, <1>1 DEF GuestTypeOK
  <1>4. AttemptInv'
    <2>1. SUFFICES ASSUME NEW b \in Attempts
          PROVE  /\ attempt'[b].at # "idle" => attempt[b].key \in Purchases
                 /\ attempt'[b].at \in {"idle", "asked", "checked"} => profile'[b] = "none"
                 /\ attempt'[b].at \in {"profiled", "created", "thrown"} => profile'[b] = "exists"
                 /\ attempt'[b].at \in {"created", "answered"} => made(attempt[b].key)
                 /\ attempt'[b].at \in {"answered", "failed", "ended"} /\ profile'[b] = "exists" =>
                      b \in Owners \cup abandoned'
      BY <1>1, <1>2 DEF AttemptInv, made
    <2>2. CASE b = a
      BY <1>0, <1>1, <2>2 DEF AttemptInv
    <2>3. CASE b # a
      BY <1>0, <1>1, <2>3 DEF AttemptInv
    <2>4. QED BY <2>2, <2>3
  <1>5. SaleInv'
    <2>1. SUFFICES ASSUME NEW k \in Purchases, made(k)
          PROVE  /\ profile'[sale[k].owner] = "exists"
                 /\ attempt'[sale[k].owner].key = k
                 /\ attempt'[sale[k].owner].at \in {"created", "thrown", "answered", "failed", "ended"}
      BY <1>2 DEF SaleInv
    <2>2. sale[k].owner \in Attempts
      BY <1>0, <2>1, MadeSales DEF SaleRecord
    <2>3. QED BY <1>0, <1>1, <2>1, <2>2 DEF SaleInv, Stage
  <1>6. PhoneInv'
    <2>1. phone.waits # NoOne => phone.waits \in Attempts
      BY <1>0 DEF GuestTypeOK, PhoneRecord
    <2>2. CASE phone' = phone
      BY <1>0, <1>1, <1>2, <2>1, <2>2 DEF PhoneInv
    <2>3. QED BY <2>2
  <1>7. VaultInv'
    BY <1>0 DEF VaultInv
  <1>8. QED BY <1>3, <1>4, <1>5, <1>6, <1>7 DEF GuestInv

LEMMA AttemptsKeep ==
  ASSUME GuestInv, NEW a \in Attempts,
         FindReplay(a) \/ CreateProfile(a) \/ OwnerRead(a) \/ CleansUp(a) \/ AttemptDies(a)
  PROVE  GuestInv'
  <1>0. /\ GuestTypeOK /\ phone \in PhoneRecord /\ drawn \subseteq Purchases /\ abandoned \subseteq Attempts
        /\ attempt[a].at # "idle" => attempt[a].key \in Purchases
        /\ attempt[a].at \in {"idle", "asked", "checked"} => profile[a] = "none"
        /\ attempt[a].at \in {"profiled", "created", "thrown"} => profile[a] = "exists"
        /\ attempt[a].at \in {"created", "answered"} => made(attempt[a].key)
        /\ attempt[a].at \in {"answered", "failed", "ended"} /\ profile[a] = "exists" => a \in Owners \cup abandoned
        /\ profile[a] \in {"none", "exists", "deleted"}
    BY DEF GuestInv, GuestTypeOK, AttemptInv
  <1>1. profile = [profile EXCEPT ![a] = profile[a]]
    BY <1>0 DEF GuestTypeOK
  <1>2. \A k \in Purchases : made(k) /\ sale[k].owner = a =>
          /\ profile[a] = "exists" /\ attempt[a].key = k
          /\ attempt[a].at \in {"created", "thrown", "answered", "failed", "ended"}
    BY DEF GuestInv, SaleInv
  <1>3. \A k \in Purchases : made(k) => sale[k].owner \in Owners
    BY DEF Owners
  <1>4. CASE FindReplay(a)
    <2>1. attempt[a].at = "asked" /\ profile[a] = "none" /\ \A k \in Purchases : ~ (made(k) /\ sale[k].owner = a)
      BY <1>0, <1>2, <1>4 DEF FindReplay, Moves
    <2>2. PICK to \in {"answered", "checked"} :
            attempt' = [attempt EXCEPT ![a].at = to] /\ (to = "answered" => made(attempt[a].key))
      BY <1>4 DEF FindReplay, Moves
    <2>3. to \in Stage
      BY DEF Stage
    <2>4. MayMove(a, to, profile[a])
      BY <1>0, <1>1, <1>4, <2>1, <2>2, <2>3 DEF FindReplay, MayMove
    <2>5. QED BY <1>0, <1>1, <1>4, <2>1, <2>2, <2>3, <2>4, StagesKeep DEF FindReplay
  <1>5. CASE CreateProfile(a)
    <2>1. attempt[a].at = "checked" /\ \A k \in Purchases : ~ (made(k) /\ sale[k].owner = a)
      BY <1>2, <1>5 DEF CreateProfile, Moves
    <2>2. "profiled" \in Stage /\ attempt' = [attempt EXCEPT ![a].at = "profiled"]
      BY <1>5 DEF CreateProfile, Moves, Stage
    <2>3. MayMove(a, "profiled", "exists")
      BY <1>0, <1>5, <2>1, <2>2 DEF CreateProfile, MayMove
    <2>4. QED BY <1>0, <1>5, <2>1, <2>2, <2>3, StagesKeep DEF CreateProfile
  <1>6. CASE OwnerRead(a)
    <2>1. /\ attempt[a].at = "created" /\ attempt' = [attempt EXCEPT ![a].at = "answered"]
          /\ attempt[a].key \in Purchases /\ made(attempt[a].key) /\ "answered" \in Stage
      BY <1>0, <1>6 DEF OwnerRead, Moves, Stage
    <2>2. CASE sale[attempt[a].key].owner = a
      <3>1. a \in Owners /\ profile' = profile
        BY <1>3, <1>6, <2>1, <2>2 DEF OwnerRead
      <3>2. MayMove(a, "answered", profile[a])
        BY <1>0, <1>1, <1>2, <1>6, <2>1, <3>1 DEF OwnerRead, MayMove
      <3>3. QED BY <1>0, <1>1, <1>2, <1>6, <2>1, <3>1, <3>2, StagesKeep DEF OwnerRead
    <2>3. CASE sale[attempt[a].key].owner # a
      <3>1. profile' = [profile EXCEPT ![a] = "deleted"]
        BY <1>6, <2>3 DEF OwnerRead
      <3>2. \A k \in Purchases : ~ (made(k) /\ sale[k].owner = a)
        BY <1>2, <2>3
      <3>3. MayMove(a, "answered", "deleted")
        BY <1>0, <1>6, <2>1, <3>1, <3>2 DEF OwnerRead, MayMove
      <3>4. QED BY <1>0, <1>6, <2>1, <3>1, <3>2, <3>3, StagesKeep DEF OwnerRead
    <2>4. QED BY <2>2, <2>3
  <1>7. CASE CleansUp(a)
    <2>1. /\ attempt[a].at = "thrown" /\ attempt' = [attempt EXCEPT ![a].at = "failed"]
          /\ attempt[a].key \in Purchases /\ "failed" \in Stage /\ profile[a] = "exists"
      BY <1>0, <1>7 DEF CleansUp, Moves, Stage
    <2>2. CASE made(attempt[a].key)
      <3>1. profile' = profile /\ abandoned' = abandoned \cup ({a} \ {sale[attempt[a].key].owner})
        BY <1>7, <2>2 DEF CleansUp
      <3>2. a \in Owners \cup abandoned'
        BY <1>3, <2>1, <2>2, <3>1
      <3>3. abandoned \subseteq abandoned' /\ abandoned' \subseteq Attempts
        BY <1>0, <3>1
      <3>4. MayMove(a, "failed", profile[a])
        BY <1>0, <1>1, <1>2, <1>7, <2>1, <3>1, <3>2, <3>3 DEF CleansUp, MayMove
      <3>5. QED BY <1>0, <1>1, <1>2, <1>7, <2>1, <3>1, <3>2, <3>3, <3>4, StagesKeep DEF CleansUp
    <2>3. CASE ~ made(attempt[a].key)
      <3>1. profile' = [profile EXCEPT ![a] = "deleted"] /\ abandoned' = abandoned
        BY <1>7, <2>3 DEF CleansUp
      <3>2. \A k \in Purchases : ~ (made(k) /\ sale[k].owner = a)
        BY <1>2, <2>3
      <3>3. MayMove(a, "failed", "deleted")
        BY <1>0, <1>7, <2>1, <3>1, <3>2 DEF CleansUp, MayMove
      <3>4. QED BY <1>0, <1>7, <2>1, <3>1, <3>2, <3>3, StagesKeep DEF CleansUp
    <2>4. QED BY <2>2, <2>3
  <1>8. CASE AttemptDies(a)
    <2>1. /\ attempt[a].at # "idle" /\ attempt' = [attempt EXCEPT ![a].at = "ended"] /\ "ended" \in Stage
      BY <1>8 DEF AttemptDies, Stage
    <2>2. /\ abandoned \subseteq abandoned' /\ abandoned' \subseteq Attempts
          /\ profile[a] = "exists" => a \in Owners \cup abandoned'
      BY <1>0, <1>8 DEF AttemptDies
    <2>3. MayMove(a, "ended", profile[a])
      BY <1>0, <1>1, <1>2, <1>8, <2>1, <2>2 DEF AttemptDies, MayMove
    <2>4. QED BY <1>0, <1>1, <1>2, <1>8, <2>1, <2>2, <2>3, StagesKeep DEF AttemptDies
  <1>9. QED BY <1>4, <1>5, <1>6, <1>7, <1>8

\* The order of a key is made, by the attempt whose profile is there.
LEMMA OrderKeeps ==
  ASSUME GuestInv, NEW a \in Attempts, OrderCreated(a) \/ OrderThrows(a)
  PROVE  GuestInv'
  <1> DEFINE k == attempt[a].key
             row == [owner |-> a, payment |-> "PENDING"]
  <1>0. /\ GuestTypeOK /\ AttemptInv /\ SaleInv /\ PhoneInv /\ VaultInv
        /\ attempt[a].at = "profiled" /\ k \in Purchases /\ profile[a] = "exists"
        /\ UNCHANGED <<profile, phone, vault, drawn, kept, abandoned>>
    BY DEF GuestInv, AttemptInv, OrderCreated, OrderThrows, Moves
  <1>1. PICK to \in {"created", "thrown"} :
          /\ attempt' = [attempt EXCEPT ![a].at = to]
          /\ \/ sale' = sale /\ (to = "created" => made(k))
             \/ ~ made(k) /\ sale' = [sale EXCEPT ![k] = row]
    BY DEF OrderCreated, OrderThrows, Moves
  <1>2. to \in Stage /\ \A j \in Purchases : ~ (made(j) /\ sale[j].owner = a)
    BY <1>0 DEF SaleInv, Stage
  <1>3. CASE sale' = sale /\ (to = "created" => made(k))
    <2>1. /\ profile' = [profile EXCEPT ![a] = profile[a]] /\ profile[a] \in {"none", "exists", "deleted"}
          /\ phone' \in PhoneRecord /\ drawn' \subseteq Purchases /\ abandoned' \subseteq Attempts
      BY <1>0 DEF GuestTypeOK
    <2>2. MayMove(a, to, profile[a])
      BY <1>0, <1>2, <1>3, <2>1 DEF MayMove
    <2>3. QED BY <1>0, <1>1, <1>2, <1>3, <2>1, <2>2, StagesKeep
  <1>4. CASE ~ made(k) /\ sale' = [sale EXCEPT ![k] = row]
    <2>1. /\ \A b \in Attempts : /\ attempt'[b].key = attempt[b].key
                                 /\ attempt'[b].at = IF b = a THEN to ELSE attempt[b].at
          /\ attempt' \in [Attempts -> AttemptRecord]
      BY <1>0, <1>1, <1>2 DEF GuestTypeOK, AttemptRecord
    <2>2. /\ row \in SaleRecord /\ row # NoSale
          /\ \A j \in Purchases : sale'[j] = IF j = k THEN row ELSE sale[j]
          /\ sale' \in [Purchases -> SaleRecord \cup {NoSale}]
      BY <1>0, <1>4, GuestAssumption DEF GuestTypeOK, SaleRecord, PaymentState, NoSale
    <2>3. \A j \in Purchases : made(j)' <=> (made(j) \/ j = k)
      BY <2>2 DEF made
    <2>4. Owners \subseteq Owners'
      BY <1>4, <2>2, <2>3 DEF Owners
    <2>5. GuestTypeOK'
      BY <1>0, <2>1, <2>2 DEF GuestTypeOK
    <2>6. AttemptInv'
      <3>1. SUFFICES ASSUME NEW b \in Attempts
            PROVE  /\ attempt'[b].at # "idle" => attempt[b].key \in Purchases
                   /\ attempt'[b].at \in {"idle", "asked", "checked"} => profile[b] = "none"
                   /\ attempt'[b].at \in {"profiled", "created", "thrown"} => profile[b] = "exists"
                   /\ attempt'[b].at \in {"created", "answered"} => made(attempt[b].key)'
                   /\ attempt'[b].at \in {"answered", "failed", "ended"} /\ profile[b] = "exists" =>
                        b \in Owners' \cup abandoned
        BY <1>0, <2>1 DEF AttemptInv, made
      <3>2. attempt'[b].at \in {"created", "answered"} => made(attempt[b].key)'
        <4>1. made(attempt[b].key)' <=> sale'[attempt[b].key] # NoSale
          BY <2>1 DEF made
        <4>2. QED BY <1>0, <2>1, <2>2, <4>1 DEF AttemptInv, made
      <3>3. QED BY <1>0, <2>1, <2>4, <3>2 DEF AttemptInv
    <2>7. SaleInv'
      <3>1. SUFFICES ASSUME NEW j \in Purchases, made(j)'
            PROVE  /\ profile'[sale'[j].owner] = "exists"
                   /\ attempt'[sale'[j].owner].key = j
                   /\ attempt'[sale'[j].owner].at \in {"created", "thrown", "answered", "failed", "ended"}
        BY DEF SaleInv
      <3>2. CASE j = k
        BY <1>0, <2>1, <2>2, <3>2
      <3>3. CASE j # k
        <4>1. made(j) /\ sale'[j] = sale[j] /\ sale[j].owner \in Attempts
          BY <1>0, <2>2, <2>3, <3>1, <3>3, MadeSales DEF SaleRecord
        <4>2. QED BY <1>0, <1>2, <2>1, <4>1 DEF SaleInv
      <3>4. QED BY <3>2, <3>3
    <2>8. PhoneInv'
      <3>1. phone.waits # NoOne => phone.waits \in Attempts
        BY <1>0 DEF GuestTypeOK, PhoneRecord
      <3>2. phone.view = "SUCCEEDED" => phone.key \in Purchases /\ phone.key # k
        BY <1>0, <1>4 DEF PhoneInv
      <3>3. phone.at \in {"saving", "paiement", "confirmation"} => made(phone.key)'
        BY <1>0, <2>3 DEF PhoneInv, made
      <3>4. QED BY <1>0, <2>1, <2>2, <3>1, <3>2, <3>3 DEF PhoneInv
    <2>9. VaultInv'
      <3>1. sale[k].payment # "SUCCEEDED"
        BY <1>4 DEF made, NoSale
      <3>2. QED BY <1>0, <2>2, <3>1 DEF VaultInv, GuestTypeOK
    <2>10. QED BY <2>5, <2>6, <2>7, <2>8, <2>9 DEF GuestInv
  <1>5. QED BY <1>1, <1>3, <1>4

LEMMA Screens ==
  ASSUME NEW at \in {"closed", "form", "saving", "paiement", "confirmation"},
         NEW key \in Purchases \cup {NoOne}
  PROVE  /\ Screen(at, key) \in PhoneRecord
         /\ Screen(at, key).at = at /\ Screen(at, key).key = key
         /\ Screen(at, key).waits = NoOne /\ Screen(at, key).view = "unknown"
  BY DEF Screen, PhoneRecord

\* Only the telephone changes.
LEMMA PhoneKeeps ==
  ASSUME GuestInv, UNCHANGED <<profile, sale, attempt, abandoned>>,
         phone' \in PhoneRecord, vault' \in [Purchases -> AccessState],
         drawn' \subseteq Purchases, kept' \subseteq Purchases, PhoneInv', VaultInv'
  PROVE  GuestInv'
  BY DEF GuestInv, GuestTypeOK, AttemptInv, SaleInv, made, Owners

LEMMA RequestsOfTheGuestKeep ==
  ASSUME GuestInv, NEW a \in Attempts, Submit(a) \/ AnswerArrives(a) \/ FailureArrives(a)
  PROVE  GuestInv'
  <1>0. /\ GuestTypeOK /\ AttemptInv /\ SaleInv /\ PhoneInv /\ VaultInv
        /\ phone \in PhoneRecord /\ attempt[a] \in AttemptRecord /\ profile[a] \in {"none", "exists", "deleted"}
        /\ a # NoOne
    BY GuestAssumption DEF GuestInv, GuestTypeOK
  <1>1. CASE Submit(a)
    <2> DEFINE asked == [at |-> "asked", key |-> phone.key]
    <2>1. /\ phone.at = "form" /\ phone.key \in Purchases /\ attempt[a].at = "idle"
          /\ attempt' = [attempt EXCEPT ![a] = asked] /\ phone' = [phone EXCEPT !.waits = a]
          /\ UNCHANGED <<profile, sale, vault, drawn, kept, abandoned>>
      BY <1>0, <1>1 DEF Submit, PhoneInv
    <2>2. /\ asked \in AttemptRecord /\ \A b \in Attempts : attempt'[b] = IF b = a THEN asked ELSE attempt[b]
          /\ attempt' \in [Attempts -> AttemptRecord]
      BY <1>0, <2>1 DEF GuestTypeOK, AttemptRecord, Stage
    <2>3. /\ phone' \in PhoneRecord /\ phone'.at = "form" /\ phone'.key = phone.key /\ phone'.waits = a
          /\ phone'.view = phone.view
      BY <1>0, <2>1 DEF PhoneRecord
    <2>4. GuestTypeOK'
      BY <1>0, <2>1, <2>2, <2>3 DEF GuestTypeOK
    <2>5. AttemptInv'
      BY <1>0, <2>1, <2>2 DEF AttemptInv, made, Owners
    <2>6. SaleInv'
      <3>1. SUFFICES ASSUME NEW k \in Purchases, made(k)
            PROVE  /\ profile[sale[k].owner] = "exists"
                   /\ attempt'[sale[k].owner].key = k
                   /\ attempt'[sale[k].owner].at \in {"created", "thrown", "answered", "failed", "ended"}
        BY <2>1 DEF SaleInv, made
      <3>2. sale[k].owner \in Attempts /\ sale[k].owner # a
        BY <1>0, <2>1, <3>1, MadeSales DEF SaleRecord, SaleInv
      <3>3. QED BY <1>0, <2>2, <3>1, <3>2 DEF SaleInv
    <2>7. PhoneInv' /\ VaultInv'
      BY <1>0, <2>1, <2>2, <2>3 DEF PhoneInv, VaultInv
    <2>8. QED BY <2>4, <2>5, <2>6, <2>7 DEF GuestInv
  <1>2. ASSUME phone.waits = a, attempt[a].at \in {"answered", "failed"},
               attempt' = [attempt EXCEPT ![a].at = "ended"],
               UNCHANGED <<profile, sale, vault, kept, abandoned>>, drawn' \subseteq Purchases,
               NEW at \in {"form", "saving"}, NEW k \in Purchases, phone' = Screen(at, k),
               at = "saving" => k = phone.key /\ attempt[a].at = "answered"
        PROVE  GuestInv'
    <2>1. /\ attempt[a].key = phone.key /\ (attempt[a].at = "answered" => made(phone.key))
          /\ (profile[a] = "exists" => a \in Owners \cup abandoned)
      BY <1>0, <1>2 DEF PhoneInv, AttemptInv
    <2>2. /\ phone' \in PhoneRecord /\ phone'.at = at /\ phone'.key = k /\ phone'.waits = NoOne
          /\ phone'.view = "unknown"
      BY <1>2, Screens
    <2>3. PhoneInv'
      BY <1>2, <2>1, <2>2 DEF PhoneInv, made
    <2>4. MayMove(a, "ended", profile[a])
      BY <1>0, <1>2 DEF MayMove, Stage, SaleInv
    <2>5. profile' = [profile EXCEPT ![a] = profile[a]] /\ abandoned \subseteq abandoned' /\ abandoned' \subseteq Attempts
      BY <1>0, <1>2 DEF GuestTypeOK
    <2>6. QED BY <1>2, <2>1, <2>2, <2>3, <2>4, <2>5, StagesKeep
  <1>3. CASE AnswerArrives(a)
    <2>1. phone.key \in Purchases /\ drawn \subseteq Purchases
      BY <1>0, <1>3 DEF AnswerArrives, PhoneInv, GuestTypeOK
    <2>2. QED BY <1>2, <1>3, <2>1 DEF AnswerArrives, Moves
  <1>4. CASE FailureArrives(a)
    <2>1. phone.key \in Purchases /\ drawn \subseteq Purchases
      BY <1>0, <1>4 DEF FailureArrives, PhoneInv, GuestTypeOK
    <2>2. PICK k \in Purchases : phone' = Screen("form", k) /\ drawn' \subseteq Purchases
      BY <1>4, <2>1 DEF FailureArrives
    <2>3. QED BY <1>2, <1>4, <2>2 DEF FailureArrives, Moves
  <1>5. QED BY <1>1, <1>3, <1>4

\* The payment of an order moves on.
LEMMA PaymentKeeps ==
  ASSUME GuestInv, NEW k \in Purchases, made(k), NEW d \in PaymentState,
         sale' = [sale EXCEPT ![k].payment = d], sale[k].payment # "SUCCEEDED",
         UNCHANGED <<profile, attempt, vault, drawn, kept, abandoned>>,
         phone' = phone \/ phone' = [phone EXCEPT !.view = "DECLARED_BY_CUSTOMER"],
         phone' # phone => phone.at = "paiement"
  PROVE  GuestInv'
  <1>0. /\ GuestTypeOK /\ AttemptInv /\ SaleInv /\ PhoneInv /\ VaultInv /\ phone \in PhoneRecord
        /\ sale[k] \in SaleRecord
    BY MadeSales DEF GuestInv, GuestTypeOK
  <1>1. /\ \A j \in Purchases : /\ sale'[j] \in SaleRecord <=> sale[j] \in SaleRecord
                                /\ sale'[j].owner = sale[j].owner
                                /\ sale'[j].payment = IF j = k THEN d ELSE sale[j].payment
        /\ sale' \in [Purchases -> SaleRecord \cup {NoSale}]
    BY <1>0 DEF GuestTypeOK, SaleRecord
  <1>2. /\ phone' \in PhoneRecord /\ phone'.at = phone.at /\ phone'.key = phone.key /\ phone'.waits = phone.waits
        /\ phone'.view = phone.view \/ (phone'.view = "DECLARED_BY_CUSTOMER" /\ phone.at = "paiement")
    BY <1>0 DEF PhoneRecord, PaymentState
  <1>3. GuestTypeOK'
    BY <1>0, <1>1, <1>2 DEF GuestTypeOK
  <1>4. \A j \in Purchases : made(j)' <=> made(j)
    BY <1>0, <1>1, <1>3, MadeSales, GuestAssumption DEF made, NoSale, SaleRecord, GuestTypeOK
  <1>5. Owners' = Owners
    BY <1>1, <1>4 DEF Owners
  <1>6. AttemptInv'
    <2>1. ASSUME NEW a \in Attempts, attempt[a].at \in {"created", "answered"} PROVE made(attempt[a].key)'
      <3>1. attempt[a].key \in Purchases /\ made(attempt[a].key)
        BY <1>0, <2>1 DEF AttemptInv
      <3>2. made(attempt[a].key)' <=> sale'[attempt[a].key] # NoSale
        BY DEF made
      <3>3. QED BY <1>4, <3>1, <3>2 DEF made
    <2>2. QED BY <1>0, <1>5, <2>1 DEF AttemptInv
  <1>7. SaleInv'
    BY <1>0, <1>1, <1>4 DEF SaleInv
  <1>8. PhoneInv'
    <2>1. phone.at # "closed" => phone.key \in Purchases
      BY <1>0 DEF PhoneInv
    <2>2. phone.at \in {"saving", "paiement", "confirmation"} => sale'[phone.key] # NoSale
      BY <1>0, <1>4, <2>1 DEF PhoneInv, made
    <2>3. phone.view = "SUCCEEDED" => phone.key \in Purchases /\ phone.key # k
      BY <1>0, <2>1 DEF PhoneInv
    <2>4. QED BY <1>0, <1>1, <1>2, <2>1, <2>2, <2>3 DEF PhoneInv, made
  <1>9. VaultInv'
    BY <1>0, <1>1 DEF VaultInv, GuestTypeOK
  <1>10. QED BY <1>3, <1>6, <1>7, <1>8, <1>9 DEF GuestInv

LEMMA PaymentsKeep ==
  ASSUME GuestInv, Declares \/ \E k \in Purchases : StaffDecides(k)
  PROVE  GuestInv'
  <1>1. CASE Declares
    <2>1. phone.key \in Purchases /\ made(phone.key)
      BY <1>1 DEF Declares, GuestInv, PhoneInv
    <2>2. QED BY <1>1, <2>1, PaymentKeeps DEF Declares, PaymentState
  <1>2. CASE \E k \in Purchases : StaffDecides(k)
    <2>1. PICK k \in Purchases : StaffDecides(k)
      BY <1>2
    <2>2. made(k)
      BY <2>1 DEF StaffDecides, made, NoSale
    <2>3. QED BY <2>1, <2>2, PaymentKeeps DEF StaffDecides, PaymentState
  <1>3. QED BY <1>1, <1>2

LEMMA ScreensKeep ==
  ASSUME GuestInv,
         \/ \E k \in Purchases : OpenForm(k) \/ AccessExpires(k)
         \/ GiveUp \/ AccessSaved \/ SaveFails \/ Leaves
         \/ getGuestPaymentAccess \/ PaymentRead \/ ShowsConfirmation \/ clearGuestPaymentAccess
  PROVE  GuestInv'
  <1>0. /\ GuestTypeOK /\ PhoneInv /\ VaultInv /\ phone \in PhoneRecord
        /\ drawn \subseteq Purchases /\ kept \subseteq Purchases /\ vault \in [Purchases -> AccessState]
    BY DEF GuestInv, GuestTypeOK
  <1>1. CASE \E k \in Purchases : OpenForm(k)
    <2>1. PICK k \in Purchases : OpenForm(k)
      BY <1>1
    <2>2. PhoneInv' /\ VaultInv'
      BY <1>0, <2>1, Screens DEF OpenForm, PhoneInv, VaultInv
    <2>3. QED BY <1>0, <2>1, <2>2, Screens, PhoneKeeps DEF OpenForm
  <1>2. CASE \E k \in Purchases : AccessExpires(k)
    <2>1. PICK k \in Purchases : AccessExpires(k)
      BY <1>2
    <2>2. /\ phone' \in PhoneRecord /\ phone'.at = phone.at /\ phone'.key = phone.key
          /\ phone'.waits = phone.waits /\ phone'.view = phone.view
      BY <1>0, <2>1 DEF AccessExpires, PhoneRecord, AccessState
    <2>3. /\ vault' \in [Purchases -> AccessState]
          /\ \A j \in Purchases : vault'[j] = IF j = k THEN "expired" ELSE vault[j]
      BY <1>0, <2>1 DEF AccessExpires, AccessState
    <2>4. PhoneInv' /\ VaultInv'
      BY <1>0, <2>1, <2>2, <2>3 DEF AccessExpires, PhoneInv, VaultInv, made
    <2>5. QED BY <1>0, <2>1, <2>2, <2>3, <2>4, PhoneKeeps DEF AccessExpires
  <1>3. CASE GiveUp
    <2>1. /\ phone' \in PhoneRecord /\ phone'.at = phone.at /\ phone'.key = phone.key
          /\ phone'.waits = NoOne /\ phone'.view = phone.view
      BY <1>0, <1>3 DEF GiveUp, PhoneRecord
    <2>2. PhoneInv' /\ VaultInv'
      BY <1>0, <1>3, <2>1 DEF GiveUp, PhoneInv, VaultInv, made
    <2>3. QED BY <1>0, <1>3, <2>1, <2>2, PhoneKeeps DEF GiveUp
  <1>4. CASE AccessSaved
    <2>1. phone.key \in Purchases /\ made(phone.key)
      BY <1>0, <1>4 DEF AccessSaved, PhoneInv
    <2>2. /\ vault' \in [Purchases -> AccessState]
          /\ \A j \in Purchases : vault'[j] = IF j = phone.key THEN "valid" ELSE vault[j]
      BY <1>0, <1>4, <2>1 DEF AccessSaved, AccessState
    <2>3. /\ phone' \in PhoneRecord /\ phone'.at = "paiement" /\ phone'.key = phone.key
          /\ phone'.waits = NoOne /\ phone'.view = "unknown"
      BY <1>4, <2>1, Screens DEF AccessSaved
    <2>4. PhoneInv' /\ VaultInv' /\ kept' \subseteq Purchases
      BY <1>0, <1>4, <2>1, <2>2, <2>3 DEF AccessSaved, PhoneInv, VaultInv, made
    <2>5. QED BY <1>0, <1>4, <2>2, <2>3, <2>4, PhoneKeeps DEF AccessSaved
  <1>5. CASE SaveFails
    <2>1. phone.key \in Purchases
      BY <1>0, <1>5 DEF SaveFails, PhoneInv
    <2>2. PhoneInv' /\ VaultInv'
      BY <1>0, <1>5, <2>1, Screens DEF SaveFails, PhoneInv, VaultInv
    <2>3. QED BY <1>0, <1>5, <2>1, <2>2, Screens, PhoneKeeps DEF SaveFails
  <1>6. CASE Leaves
    <2>1. PhoneInv' /\ VaultInv'
      BY <1>0, <1>6, Screens DEF Leaves, PhoneInv, VaultInv
    <2>2. QED BY <1>0, <1>6, <2>1, Screens, PhoneKeeps DEF Leaves
  <1>7. CASE getGuestPaymentAccess
    <2>1. phone.key \in Purchases /\ vault[phone.key] \in AccessState
      BY <1>0, <1>7 DEF getGuestPaymentAccess, PhoneInv
    <2>2. /\ phone' \in PhoneRecord /\ phone'.at = phone.at /\ phone'.key = phone.key
          /\ phone'.waits = phone.waits /\ phone'.view = phone.view
      BY <1>0, <1>7, <2>1 DEF getGuestPaymentAccess, PhoneRecord
    <2>3. PhoneInv' /\ VaultInv'
      BY <1>0, <1>7, <2>2 DEF getGuestPaymentAccess, PhoneInv, VaultInv, made
    <2>4. QED BY <1>0, <1>7, <2>2, <2>3, PhoneKeeps DEF getGuestPaymentAccess
  <1>8. CASE PaymentRead
    <2>1. phone.key \in Purchases /\ made(phone.key)
      BY <1>0, <1>8 DEF PaymentRead, PhoneInv
    <2>2. sale[phone.key].payment \in PaymentState
      BY <1>0, <2>1, MadeSales DEF SaleRecord
    <2>3. /\ phone' \in PhoneRecord /\ phone'.at = phone.at /\ phone'.key = phone.key
          /\ phone'.waits = phone.waits /\ phone'.view = sale[phone.key].payment
      BY <1>0, <1>8, <2>2 DEF PaymentRead, PhoneRecord
    <2>4. PhoneInv' /\ VaultInv'
      BY <1>0, <1>8, <2>1, <2>3 DEF PaymentRead, PhoneInv, VaultInv, made
    <2>5. QED BY <1>0, <1>8, <2>3, <2>4, PhoneKeeps DEF PaymentRead
  <1>9. CASE ShowsConfirmation
    <2>1. /\ phone' \in PhoneRecord /\ phone'.at = "confirmation" /\ phone'.key = phone.key
          /\ phone'.waits = phone.waits /\ phone'.view = phone.view
      BY <1>0, <1>9 DEF ShowsConfirmation, PhoneRecord
    <2>2. PhoneInv' /\ VaultInv'
      BY <1>0, <1>9, <2>1 DEF ShowsConfirmation, PhoneInv, VaultInv, made
    <2>3. QED BY <1>0, <1>9, <2>1, <2>2, PhoneKeeps DEF ShowsConfirmation
  <1>10. CASE clearGuestPaymentAccess
    <2>1. phone.key \in Purchases /\ sale[phone.key].payment = "SUCCEEDED"
      BY <1>0, <1>10 DEF clearGuestPaymentAccess, PhoneInv
    <2>2. /\ vault' \in [Purchases -> AccessState]
          /\ \A j \in Purchases : vault'[j] = IF j = phone.key THEN "none" ELSE vault[j]
      BY <1>0, <1>10, <2>1 DEF clearGuestPaymentAccess, AccessState
    <2>3. PhoneInv' /\ VaultInv'
      BY <1>0, <1>10, <2>1, <2>2 DEF clearGuestPaymentAccess, PhoneInv, VaultInv, made
    <2>4. QED BY <1>0, <1>10, <2>2, <2>3, PhoneKeeps DEF clearGuestPaymentAccess
  <1>11. QED BY <1>1, <1>2, <1>3, <1>4, <1>5, <1>6, <1>7, <1>8, <1>9, <1>10

LEMMA GuestStart == GuestInit => GuestInv
  <1> SUFFICES ASSUME GuestInit PROVE GuestInv
    OBVIOUS
  <1>1. /\ phone \in PhoneRecord /\ phone.at = "closed" /\ phone.waits = NoOne /\ phone.view = "unknown"
    BY Screens DEF GuestInit
  <1>2. /\ \A k \in Purchases : ~ made(k)
        /\ \A a \in Attempts : attempt[a].at = "idle" /\ profile[a] = "none"
    BY DEF GuestInit, made
  <1>3. GuestTypeOK
    BY <1>1 DEF GuestInit, GuestTypeOK, AttemptRecord, Stage, AccessState
  <1>4. AttemptInv /\ SaleInv /\ PhoneInv
    BY <1>1, <1>2 DEF AttemptInv, SaleInv, PhoneInv
  <1>5. VaultInv
    BY DEF GuestInit, VaultInv
  <1>6. QED BY <1>3, <1>4, <1>5 DEF GuestInv

LEMMA GuestStep == GuestInv /\ [GuestNext]_guestVars => GuestInv'
  <1> SUFFICES ASSUME GuestInv, [GuestNext]_guestVars PROVE GuestInv'
    OBVIOUS
  <1>1. CASE UNCHANGED guestVars
    BY <1>1 DEF guestVars, GuestInv, GuestTypeOK, AttemptInv, SaleInv, PhoneInv, VaultInv, made, Owners
  <1>2. ASSUME NEW a \in Attempts,
               \/ FindReplay(a) \/ CreateProfile(a) \/ OrderCreated(a) \/ OrderThrows(a) \/ OwnerRead(a)
               \/ CleansUp(a) \/ AttemptDies(a)
               \/ Submit(a) \/ AnswerArrives(a) \/ FailureArrives(a)
        PROVE  GuestInv'
    BY <1>2, AttemptsKeep, OrderKeeps, RequestsOfTheGuestKeep
  <1>3. QED BY <1>1, <1>2, PaymentsKeep, ScreensKeep DEF GuestNext

(* The profiles, orders, attempts and the telephone keep the shape the code *)
(* gives them, and each stage of an attempt says what became of its profile. *)
THEOREM GuestTypeCorrectness == GuestSpec => [](GuestTypeOK /\ AttemptInv)
  <1>1. GuestInv => GuestTypeOK /\ AttemptInv
    BY DEF GuestInv
  <1>2. QED BY <1>1, GuestStart, GuestStep, PTL DEF GuestSpec

(* GuestCheckoutService.create and the screens of the purchase, for any     *)
(* number of attempts of any number of keys.                               *)
THEOREM GuestsKeepTheirPurchase == GuestSpec => []GuestPurchaseIsKept
  BY GuestImplied, GuestStart, GuestStep, PTL DEF GuestSpec

-----------------------------------------------------------------------------
(* The cart.                                                               *)

LineRecord == [quantity : Nat, stockAtAdd : Nat, most : Nat]
\* A line holds what was in stock when it was added, and no more than was shown since.
Backed(line) ==
  /\ 1 <= line.quantity /\ line.quantity <= MAX_QUANTITY_PER_LINE /\ line.quantity <= line.most
  /\ 0 < line.stockAtAdd /\ line.stockAtAdd <= line.most
CartLines == {line \in LineRecord : line = NoLine \/ Backed(line)}
LinesOf == [Formats -> CartLines]
CopyOf == [written : BOOLEAN, lines : LinesOf]

\* The lines in memory, on the disk and in the request keep their shape.
CartTypeOK ==
  /\ shown \in [Formats -> Stocks]
  /\ cart \in [at : {"reading", "ready", "killed"}, lines : LinesOf, read : CopyOf, unsaved : BOOLEAN]
  /\ saved \in CopyOf
  /\ order \in [at : {"none", "sent"}, lines : LinesOf]
  /\ wanted \in SUBSET Formats /\ excused \in SUBSET Formats
  /\ chosen \in [Formats -> Nat]

Blank(copy) == copy.written \/ copy.lines = NoLines
Owed == wanted \ excused

\* Where the wanted lines are, from one stage of the application to the next.
KeptInv ==
  /\ Blank(saved) /\ Blank(cart.read)
  /\ order.at = "sent" => cart.at = "ready"
  /\ cart.at = "killed" => Owed \subseteq InCart(saved.lines) /\ ~ cart.unsaved
  /\ cart.at = "reading" =>
       /\ Owed \subseteq InCart(cart.lines) \cup InCart(cart.read.lines)
       /\ InCart(cart.lines) = {} => cart.read = saved /\ ~ cart.unsaved
  /\ cart.at = "ready" =>
       /\ Owed \subseteq InCart(cart.lines)
       /\ ~ cart.unsaved => saved.lines = cart.lines

CartInv == CartTypeOK /\ KeptInv

LEMMA NoLineIsALine ==
  /\ NoLine \in CartLines /\ NoLine.quantity = 0
  /\ NoLines \in LinesOf /\ InCart(NoLines) = {}
  /\ NothingSaved \in CopyOf /\ Blank(NothingSaved) /\ NothingSaved.lines = NoLines
  <1>1. NoLine \in CartLines /\ NoLine.quantity = 0
    BY DEF NoLine, CartLines, LineRecord
  <1>2. NoLines \in LinesOf /\ InCart(NoLines) = {}
    BY <1>1 DEF NoLines, LinesOf, InCart
  <1>3. QED BY <1>1, <1>2 DEF NothingSaved, CopyOf, Blank

\* clampQuantity: at least one, and no more than the stock or the maximum.
LEMMA ClampQuantityBounds ==
  ASSUME NEW quantity \in Nat, NEW stock \in Nat, stock > 0
  PROVE  /\ clampQuantity(quantity, stock) \in Nat
         /\ 1 <= clampQuantity(quantity, stock)
         /\ clampQuantity(quantity, stock) <= MAX_QUANTITY_PER_LINE
         /\ clampQuantity(quantity, stock) <= stock
  BY CartAssumption DEF clampQuantity, Greater, Lesser

LEMMA InCartMember ==
  ASSUME NEW lines \in LinesOf, NEW v \in Formats
  PROVE  v \in InCart(lines) <=> lines[v] # NoLine
  <1>1. lines[v] \in LineRecord /\ (lines[v] = NoLine \/ Backed(lines[v]))
    BY DEF LinesOf, CartLines
  <1>2. lines[v].quantity \in Nat
    BY <1>1 DEF LineRecord
  <1>3. Backed(lines[v]) => lines[v].quantity > 0
    BY <1>2 DEF Backed
  <1>4. v \in InCart(lines) <=> lines[v].quantity > 0
    BY DEF InCart
  <1>5. QED BY <1>1, <1>3, <1>4, NoLineIsALine

LEMMA CartStart == CartInit => CartInv
  <1> SUFFICES ASSUME CartInit PROVE CartInv
    OBVIOUS
  <1>1. CartTypeOK
    BY NoLineIsALine DEF CartInit, CartTypeOK, NoOrder
  <1>2. KeptInv
    BY NoLineIsALine DEF CartInit, KeptInv, NoOrder, Owed
  <1>3. QED BY <1>1, <1>2 DEF CartInv

\* set(): a line is put where the cart may be touched.
LEMMA PutsKeeps ==
  ASSUME CartInv, NEW v \in Formats, NEW line \in CartLines, Puts(v, line),
         cart.at = "ready" \/ (cart.at = "reading" /\ line # NoLine),
         chosen' \in [Formats -> Nat]
  PROVE  CartInv'
  <1> DEFINE lines == [cart.lines EXCEPT ![v] = line]
  <1>0. /\ CartTypeOK /\ KeptInv /\ cart.lines \in LinesOf
        /\ cart' = [cart EXCEPT !.lines[v] = line, !.unsaved = TRUE]
        /\ wanted' = IF line = NoLine THEN wanted \ {v} ELSE wanted \cup {v}
        /\ excused' = excused \ {v}
        /\ UNCHANGED <<shown, saved, order>>
    BY DEF CartInv, CartTypeOK, Puts
  <1>1. lines \in LinesOf
    BY <1>0 DEF LinesOf
  <1>2. cart' = [cart EXCEPT !.lines = lines, !.unsaved = TRUE]
    BY <1>0 DEF CartTypeOK
  <1>3. /\ cart'.at = cart.at /\ cart'.lines = lines /\ cart'.read = cart.read /\ cart'.unsaved
        /\ cart' \in [at : {"reading", "ready", "killed"}, lines : LinesOf, read : CopyOf, unsaved : BOOLEAN]
    <2> HIDE DEF lines
    <2> QED BY <1>0, <1>1, <1>2 DEF CartTypeOK
  <1>4. CartTypeOK'
    BY <1>0, <1>3 DEF CartTypeOK
  <1>5. InCart(lines) = IF line = NoLine THEN InCart(cart.lines) \ {v} ELSE InCart(cart.lines) \cup {v}
    <2>1. \A u \in Formats : u \in InCart(lines) <=> lines[u] # NoLine
      <3> HIDE DEF lines
      <3> QED BY <1>1, InCartMember
    <2>2. \A u \in Formats : u \in InCart(cart.lines) <=> cart.lines[u] # NoLine
      BY <1>0, InCartMember
    <2>3. \A u \in Formats : lines[u] = IF u = v THEN line ELSE cart.lines[u]
      BY <1>0 DEF LinesOf
    <2>4. InCart(lines) \subseteq Formats /\ InCart(cart.lines) \subseteq Formats
      BY DEF InCart
    <2> HIDE DEF lines
    <2>5. QED BY <2>1, <2>2, <2>3, <2>4
  <1>6. KeptInv'
    <2> HIDE DEF lines
    <2>1. Owed' = IF line = NoLine THEN Owed \ {v} ELSE Owed \cup {v}
      BY <1>0 DEF Owed
    <2>2. InCart(cart.lines)' = InCart(lines) /\ InCart(cart.read.lines)' = InCart(cart.read.lines)
      BY <1>3 DEF InCart
    <2>3. QED BY <1>0, <1>3, <1>5, <2>1, <2>2 DEF KeptInv, Blank
  <1>7. QED BY <1>4, <1>6 DEF CartInv

\* addItem: whatever the cart holds of an available format.
LEMMA AddItemKeeps ==
  ASSUME CartInv, NEW v \in Formats, NEW quantity \in Nat, canOrder(v), addItem(v, quantity),
         chosen' \in [Formats -> Nat]
  PROVE  CartInv'
  <1>0. /\ cart.lines \in LinesOf /\ shown[v] \in Nat /\ shown[v] > 0
        /\ cart.lines[v] \in LineRecord /\ (cart.lines[v] = NoLine \/ Backed(cart.lines[v]))
    BY CartAssumption DEF CartInv, CartTypeOK, LinesOf, CartLines, canOrder
  <1>1. PICK line : /\ Puts(v, line)
                    /\ line = IF cart.lines[v] = NoLine
                              THEN [quantity |-> clampQuantity(quantity, shown[v]), stockAtAdd |-> shown[v],
                                    most |-> shown[v]]
                              ELSE [cart.lines[v] EXCEPT
                                      !.quantity = clampQuantity(cart.lines[v].quantity + quantity, shown[v]),
                                      !.most = Greater(cart.lines[v].most, shown[v])]
    BY DEF addItem
  <1>2. line \in CartLines /\ line # NoLine
    <2>1. CASE cart.lines[v] = NoLine
      <3> DEFINE q == clampQuantity(quantity, shown[v])
      <3>1. q \in Nat /\ 1 <= q /\ q <= MAX_QUANTITY_PER_LINE /\ q <= shown[v]
        BY <1>0, ClampQuantityBounds
      <3> HIDE DEF q
      <3>2. line = [quantity |-> q, stockAtAdd |-> shown[v], most |-> shown[v]]
        BY <1>1, <2>1 DEF q
      <3>3. line \in LineRecord /\ Backed(line) /\ line.quantity # 0
        BY <1>0, <3>1, <3>2 DEF LineRecord, Backed
      <3>4. QED BY <3>3, NoLineIsALine DEF CartLines
    <2>2. CASE cart.lines[v] # NoLine
      <3> DEFINE q == clampQuantity(cart.lines[v].quantity + quantity, shown[v])
                 m == Greater(cart.lines[v].most, shown[v])
      <3>0. cart.lines[v].quantity + quantity \in Nat /\ cart.lines[v].most \in Nat
        BY <1>0 DEF LineRecord
      <3>1. q \in Nat /\ 1 <= q /\ q <= MAX_QUANTITY_PER_LINE /\ q <= shown[v]
        BY <1>0, <3>0, ClampQuantityBounds
      <3>2. m \in Nat /\ shown[v] <= m /\ cart.lines[v].most <= m
        BY <1>0, <3>0 DEF Greater
      <3> HIDE DEF q, m
      <3>3. line = [cart.lines[v] EXCEPT !.quantity = q, !.most = m]
        BY <1>1, <2>2 DEF q, m
      <3>4. /\ line \in LineRecord /\ line.quantity = q /\ line.most = m
            /\ line.stockAtAdd = cart.lines[v].stockAtAdd
        BY <1>0, <3>1, <3>2, <3>3 DEF LineRecord
      <3>5. Backed(line) /\ line.quantity # 0
        BY <1>0, <2>2, <3>0, <3>1, <3>2, <3>4, CartAssumption DEF Backed, LineRecord
      <3>6. QED BY <3>4, <3>5, NoLineIsALine DEF CartLines
    <2>3. QED BY <2>1, <2>2
  <1>3. cart.at \in {"ready", "reading"}
    BY <1>1 DEF Puts, CartInv, CartTypeOK
  <1>4. QED BY <1>1, <1>2, <1>3, PutsKeeps

LEMMA PressesKeep ==
  ASSUME CartInv, NEW v \in Formats,
         handleAdd(v) \/ quickAdd(v) \/ increment(v) \/ decrement(v) \/ removeItem(v)
  PROVE  CartInv'
  <1>0. /\ cart.lines \in LinesOf /\ chosen \in [Formats -> Nat]
        /\ cart.lines[v] \in LineRecord /\ (cart.lines[v] = NoLine \/ Backed(cart.lines[v]))
    BY DEF CartInv, CartTypeOK, LinesOf, CartLines
  <1>1. CASE handleAdd(v) \/ quickAdd(v)
    BY <1>0, <1>1, AddItemKeeps DEF handleAdd, quickAdd
  <1>2. CASE increment(v)
    <2> DEFINE q == clampQuantity(cart.lines[v].quantity + 1, cart.lines[v].stockAtAdd)
               line == [cart.lines[v] EXCEPT !.quantity = q]
    <2>1. cart.at = "ready" /\ cart.lines[v] # NoLine /\ Backed(cart.lines[v])
      BY <1>0, <1>2 DEF increment, CartLine
    <2>2. Puts(v, line) /\ chosen' = chosen
      BY <1>2 DEF increment
    <2>3. /\ cart.lines[v].quantity + 1 \in Nat /\ cart.lines[v].stockAtAdd \in Nat
          /\ cart.lines[v].stockAtAdd > 0 /\ cart.lines[v].most \in Nat
          /\ cart.lines[v].stockAtAdd <= cart.lines[v].most
      BY <1>0, <2>1 DEF LineRecord, Backed
    <2>4. /\ q \in Nat /\ 1 <= q /\ q <= MAX_QUANTITY_PER_LINE /\ q <= cart.lines[v].stockAtAdd
      BY <2>3, ClampQuantityBounds
    <2>5. line \in CartLines
      <3> HIDE DEF q
      <3>1. line \in LineRecord /\ line.quantity = q /\ line.most = cart.lines[v].most
            /\ line.stockAtAdd = cart.lines[v].stockAtAdd
        BY <1>0, <2>4 DEF LineRecord
      <3> HIDE DEF line
      <3>2. QED BY <2>3, <2>4, <3>1, CartAssumption DEF CartLines, Backed
    <2> HIDE DEF line
    <2>6. QED BY <1>0, <2>1, <2>2, <2>5, PutsKeeps
  <1>3. CASE decrement(v)
    <2> DEFINE line == IF cart.lines[v].quantity <= 1 THEN NoLine
                       ELSE [cart.lines[v] EXCEPT !.quantity = cart.lines[v].quantity - 1]
    <2>1. cart.at = "ready" /\ cart.lines[v] # NoLine /\ Backed(cart.lines[v])
      BY <1>0, <1>3 DEF decrement, CartLine
    <2>2. Puts(v, line) /\ chosen' = chosen
      BY <1>3 DEF decrement
    <2>3. line \in CartLines
      <3>1. CASE cart.lines[v].quantity <= 1
        BY <3>1, NoLineIsALine
      <3>2. CASE ~ (cart.lines[v].quantity <= 1)
        BY <1>0, <2>1, <3>2, CartAssumption DEF CartLines, Backed, LineRecord
      <3>3. QED BY <3>1, <3>2
    <2> HIDE DEF line
    <2>4. QED BY <1>0, <2>1, <2>2, <2>3, PutsKeeps
  <1>4. CASE removeItem(v)
    BY <1>0, <1>4, PutsKeeps, NoLineIsALine DEF removeItem, CartLine
  <1>5. QED BY <1>1, <1>2, <1>3, <1>4

LEMMA ClearedKeeps == CartInv /\ (clear \/ orderAnswered) => CartInv'
  <1> SUFFICES ASSUME CartInv, clear \/ orderAnswered PROVE CartInv'
    OBVIOUS
  <1>0. CartTypeOK /\ KeptInv
    BY DEF CartInv
  <1>1. /\ cart' = [cart EXCEPT !.lines = NoLines, !.unsaved = TRUE]
        /\ UNCHANGED <<shown, saved, chosen>> /\ cart.at = "ready"
    BY <1>0 DEF clear, orderAnswered, KeptInv
  <1>2. /\ cart'.at = "ready" /\ cart'.read = cart.read /\ cart'.unsaved
        /\ cart' \in [at : {"reading", "ready", "killed"}, lines : LinesOf, read : CopyOf, unsaved : BOOLEAN]
    BY <1>0, <1>1, NoLineIsALine DEF CartTypeOK
  <1>3. /\ wanted' \in SUBSET Formats /\ excused' \in SUBSET Formats /\ Owed' = {}
    BY <1>0 DEF CartTypeOK, clear, orderAnswered, Owed
  <1>4. order' \in [at : {"none", "sent"}, lines : LinesOf]
    BY <1>0, NoLineIsALine DEF CartTypeOK, clear, orderAnswered, NoOrder
  <1>5. CartTypeOK'
    BY <1>0, <1>1, <1>2, <1>3, <1>4 DEF CartTypeOK
  <1>6. KeptInv'
    BY <1>0, <1>1, <1>2, <1>3 DEF KeptInv, Blank
  <1>7. QED BY <1>5, <1>6 DEF CartInv

LEMMA DiskKeeps == CartInv /\ (persisted \/ hydrated \/ killed \/ launched) => CartInv'
  <1> SUFFICES ASSUME CartInv, persisted \/ hydrated \/ killed \/ launched PROVE CartInv'
    OBVIOUS
  <1>0. CartTypeOK /\ KeptInv /\ cart.lines \in LinesOf /\ cart.read \in CopyOf /\ cart.read.lines \in LinesOf
        /\ saved \in CopyOf
    BY DEF CartInv, CartTypeOK, CopyOf
  <1>1. CASE persisted
    <2>1. /\ cart.at # "killed" /\ cart.unsaved
          /\ saved' = [written |-> TRUE, lines |-> cart.lines]
          /\ cart' = [cart EXCEPT !.unsaved = FALSE]
          /\ UNCHANGED <<shown, order, wanted, excused, chosen>>
      BY <1>1 DEF persisted
    <2>2. /\ saved' \in CopyOf /\ saved'.lines = cart.lines /\ Blank(saved)'
      BY <1>0, <2>1 DEF CopyOf, Blank
    <2>3. /\ cart'.at = cart.at /\ cart'.lines = cart.lines /\ cart'.read = cart.read
          /\ cart' \in [at : {"reading", "ready", "killed"}, lines : LinesOf, read : CopyOf, unsaved : BOOLEAN]
      BY <1>0, <2>1 DEF CartTypeOK
    <2>4. CartTypeOK'
      BY <1>0, <2>1, <2>2, <2>3 DEF CartTypeOK
    <2>5. KeptInv'
      BY <1>0, <2>1, <2>2, <2>3 DEF KeptInv, Blank, Owed, InCart
    <2>6. QED BY <2>4, <2>5 DEF CartInv
  <1>2. CASE hydrated
    <2> DEFINE lines == IF cart.read.written THEN cart.read.lines ELSE cart.lines
    <2>1. /\ cart.at = "reading"
          /\ cart' = [cart EXCEPT !.at = "ready", !.lines = lines, !.unsaved = TRUE]
          /\ excused' = excused \cup {v \in Formats : lines[v] # cart.lines[v]}
          /\ UNCHANGED <<shown, saved, order, wanted, chosen>>
      BY <1>2 DEF hydrated
    <2>2. lines \in LinesOf
      BY <1>0
    <2>3. wanted \ (excused \cup {v \in Formats : lines[v] # cart.lines[v]}) \subseteq InCart(lines)
      <3>1. Owed \subseteq InCart(cart.lines) \cup InCart(cart.read.lines)
        BY <1>0, <2>1 DEF KeptInv
      <3>2. CASE cart.read.written
        BY <3>1, <3>2 DEF InCart, Owed
      <3>3. CASE ~ cart.read.written
        <4>1. InCart(cart.read.lines) = {}
          BY <1>0, <3>3, NoLineIsALine DEF KeptInv, Blank
        <4>2. QED BY <3>1, <3>3, <4>1 DEF Owed
      <3>4. QED BY <3>2, <3>3
    <2> HIDE DEF lines
    <2>4. /\ cart'.at = "ready" /\ cart'.lines = lines /\ cart'.unsaved /\ cart'.read = cart.read
          /\ cart' \in [at : {"reading", "ready", "killed"}, lines : LinesOf, read : CopyOf, unsaved : BOOLEAN]
      BY <1>0, <2>1, <2>2 DEF CartTypeOK
    <2>5. CartTypeOK'
      BY <1>0, <2>1, <2>4 DEF CartTypeOK
    <2>6. KeptInv'
      BY <1>0, <2>1, <2>3, <2>4 DEF KeptInv, Blank, Owed
    <2>7. QED BY <2>5, <2>6 DEF CartInv
  <1>3. CASE killed
    <2>1. PICK late \in {cart.unsaved, FALSE} :
            /\ saved' = IF cart.unsaved /\ ~ late THEN [written |-> TRUE, lines |-> cart.lines] ELSE saved
            /\ excused' = IF late \/ (cart.at = "reading" /\ InCart(cart.lines) # {}) THEN Formats ELSE excused
      BY <1>3 DEF killed
    <2>2. /\ cart.at # "killed" /\ order' = NoOrder
          /\ cart' = [cart EXCEPT !.at = "killed", !.lines = NoLines, !.unsaved = FALSE]
          /\ UNCHANGED <<shown, wanted, chosen>>
      BY <1>3 DEF killed
    <2>3. /\ cart'.at = "killed" /\ cart'.read = cart.read /\ ~ cart'.unsaved
          /\ cart' \in [at : {"reading", "ready", "killed"}, lines : LinesOf, read : CopyOf, unsaved : BOOLEAN]
      BY <1>0, <2>2, NoLineIsALine DEF CartTypeOK
    <2>4. saved' \in CopyOf /\ Blank(saved)'
      BY <1>0, <2>1 DEF CopyOf, Blank, KeptInv
    <2>5. excused' \in SUBSET Formats /\ order' \in [at : {"none", "sent"}, lines : LinesOf]
          /\ order'.at # "sent"
      BY <1>0, <2>1, <2>2, NoLineIsALine DEF CartTypeOK, NoOrder
    <2>6. CartTypeOK'
      BY <1>0, <2>2, <2>3, <2>4, <2>5 DEF CartTypeOK
    <2>7. Owed' \subseteq InCart(saved'.lines)
      <3>1. CASE excused' = Formats
        BY <1>0, <2>2, <3>1 DEF Owed, CartTypeOK
      <3>2. CASE ~ late /\ cart.at = "ready" /\ excused' = excused
        <4>1. Owed' = Owed /\ Owed \subseteq InCart(cart.lines)
          BY <1>0, <2>2, <3>2 DEF Owed, KeptInv
        <4>2. saved'.lines = cart.lines
          BY <1>0, <2>1, <3>2 DEF KeptInv, CartTypeOK
        <4>3. QED BY <4>1, <4>2
      <3>3. CASE ~ late /\ cart.at = "reading" /\ InCart(cart.lines) = {} /\ excused' = excused
        <4>1. Owed' = Owed /\ Owed \subseteq InCart(cart.read.lines) /\ cart.read = saved /\ ~ cart.unsaved
          BY <1>0, <2>2, <3>3 DEF Owed, KeptInv
        <4>2. saved' = saved
          BY <2>1, <4>1
        <4>3. QED BY <4>1, <4>2
      <3>4. cart.at \in {"ready", "reading"}
        BY <1>0, <2>2 DEF CartTypeOK
      <3>5. QED BY <2>1, <3>1, <3>2, <3>3, <3>4
    <2>8. KeptInv'
      BY <1>0, <2>3, <2>4, <2>5, <2>7 DEF KeptInv, Blank, InCart
    <2>9. QED BY <2>6, <2>8 DEF CartInv
  <1>4. CASE launched
    <2>1. /\ cart.at = "killed" /\ cart' = [cart EXCEPT !.at = "reading", !.read = saved]
          /\ UNCHANGED <<shown, saved, order, wanted, excused, chosen>>
      BY <1>4 DEF launched
    <2>2. /\ cart'.at = "reading" /\ cart'.read = saved /\ cart'.lines = cart.lines
          /\ cart'.unsaved = cart.unsaved
          /\ cart' \in [at : {"reading", "ready", "killed"}, lines : LinesOf, read : CopyOf, unsaved : BOOLEAN]
      BY <1>0, <2>1 DEF CartTypeOK
    <2>3. CartTypeOK'
      BY <1>0, <2>1, <2>2 DEF CartTypeOK
    <2>4. ~ cart.unsaved
      BY <1>0, <2>1 DEF KeptInv
    <2>5. KeptInv'
      BY <1>0, <2>1, <2>2, <2>4 DEF KeptInv, Blank, Owed, InCart
    <2>6. QED BY <2>3, <2>5 DEF CartInv
  <1>5. QED BY <1>1, <1>2, <1>3, <1>4

LEMMA CartStep == CartInv /\ [CartNext]_cartVars => CartInv'
  <1> SUFFICES ASSUME CartInv, [CartNext]_cartVars PROVE CartInv'
    OBVIOUS
  <1>1. CASE UNCHANGED cartVars
    BY <1>1 DEF cartVars, CartInv, CartTypeOK, KeptInv, Blank, Owed, InCart
  <1>2. CASE submit \/ orderFails
    <2>1. UNCHANGED <<shown, cart, saved, wanted, excused, chosen>>
      BY <1>2 DEF submit, orderFails
    <2>2. order' \in [at : {"none", "sent"}, lines : LinesOf] /\ (order'.at = "sent" => cart.at = "ready")
      BY <1>2, NoLineIsALine DEF submit, orderFails, NoOrder, CartInv, CartTypeOK
    <2>3. QED BY <2>1, <2>2 DEF CartInv, CartTypeOK, KeptInv, Blank, Owed, InCart
  <1>3. ASSUME NEW v \in Formats, (\E stock \in Stocks : CatalogueShows(v, stock)) \/ chooses(v)
        PROVE  CartInv'
    <2>1. UNCHANGED <<cart, saved, order, wanted, excused>>
      BY <1>3 DEF CatalogueShows, chooses
    <2>2. shown' \in [Formats -> Stocks]
      BY <1>3 DEF CatalogueShows, chooses, CartInv, CartTypeOK
    <2>3. chosen' \in [Formats -> Nat]
      <3>1. chosen \in [Formats -> Nat]
        BY DEF CartInv, CartTypeOK
      <3>2. QED BY <1>3, <3>1 DEF CatalogueShows, chooses
    <2>4. QED BY <2>1, <2>2, <2>3 DEF CartInv, CartTypeOK, KeptInv, Blank, Owed, InCart
  <1>4. ASSUME NEW v \in Formats,
               handleAdd(v) \/ quickAdd(v) \/ increment(v) \/ decrement(v) \/ removeItem(v)
        PROVE  CartInv'
    BY <1>4, PressesKeep
  <1>5. CASE CartNext
    BY <1>2, <1>3, <1>4, <1>5, ClearedKeeps, DiskKeeps DEF CartNext
  <1>6. QED BY <1>1, <1>5

(* The lines in memory, on the disk and in the order request keep the       *)
(* shape store/cart.ts gives them.                                          *)
THEOREM CartTypeCorrectness == CartSpec => []CartTypeOK
  <1>1. CartInv => CartTypeOK
    BY DEF CartInv
  <1>2. QED BY <1>1, CartStart, CartStep, PTL DEF CartSpec

(* store/cart.ts, for any number of formats, any stocks and any maximum     *)
(* per line: what was put in the cart and not taken out is there once it    *)
(* was read, and no line holds more than the catalogue has shown.           *)
THEOREM CartKeepsWhatIsPut == CartSpec => []CartIsKept
  <1>1. CartInv => CartIsKept
    <2> SUFFICES ASSUME CartInv PROVE CartIsKept
      OBVIOUS
    <2>1. cart.at = "ready" => wanted \ excused \subseteq InCart(cart.lines)
      BY DEF CartInv, KeptInv, Owed
    <2>2. ASSUME NEW v \in InCart(cart.lines)
          PROVE  cart.lines[v].quantity <= Lesser(MAX_QUANTITY_PER_LINE, cart.lines[v].most)
      <3>1. cart.lines \in LinesOf /\ v \in Formats
        BY DEF CartInv, CartTypeOK, InCart
      <3>2. cart.lines[v] # NoLine
        BY <3>1, InCartMember
      <3>3. cart.lines[v] \in LineRecord /\ Backed(cart.lines[v])
        BY <3>1, <3>2 DEF LinesOf, CartLines
      <3>4. QED BY <3>3, CartAssumption DEF Backed, Lesser, LineRecord
    <2>3. QED BY <2>1, <2>2 DEF CartIsKept
  <1>2. QED BY <1>1, CartStart, CartStep, PTL DEF CartSpec

-----------------------------------------------------------------------------
(* The greatest member of a bounded set.                                   *)

\* Max is the greatest member of a bounded set.
LEMMA MaxOfNaturals ==
  ASSUME NEW S \in SUBSET Nat, S # {}, NEW b \in Nat, \A n \in S : n <= b
  PROVE  Max(S) \in S /\ \A n \in S : n <= Max(S)
  <1>1. PICK m \in S : \A n \in S : m >= n
    BY GreatestNatural
  <1>2. QED BY <1>1 DEF Max

-----------------------------------------------------------------------------
(* The card of a delivery under way.                                       *)

RunStatuses == {"ASSIGNED", "ACCEPTED", "IN_TRANSIT", "ARRIVED", "OTP_VERIFIED", "DELIVERED", "FAILED"}
RiderNames == Riders \cup {NoRider, CHOOSE r \in Riders : TRUE}
AnswerRecord == [position : Nat, isLive : BOOLEAN, courier : RiderNames]

\* The run, the measures and what is shown of them keep their shape.
LiveTypeOK ==
  /\ tracked \in [status : RunStatuses, courier : RiderNames]
  /\ fixes \in Seq(Riders)
  /\ stored \in SUBSET (1..Len(fixes))
  /\ stale \in 0..Len(fixes)
  /\ card \in [out : BOOLEAN, due : BOOLEAN, answer : AnswerRecord]
  /\ reading \in [at : {"idle", "located", "answered"}, underWay : BOOLEAN, courier : RiderNames,
                  answer : AnswerRecord, own : BOOLEAN]
  /\ heard \in [since : 0..Len(fixes), own : BOOLEAN, furthest : Nat]

\* The measures stored since this attempt left are of one courier, whose run it is.
SinceInv ==
  /\ \A m, n \in stored : m > heard.since /\ n > heard.since => fixes[m] = fixes[n]
  /\ UnderWay(tracked.status) => \A n \in stored : n > heard.since => fixes[n] = tracked.courier

\* What an answer holds, read and then shown: a position no nearer than the furthest one,
\* and of the courier it names when he had been heard.
Forward(answer, own) ==
  answer.position # Nowhere =>
    /\ answer.position \in stored /\ heard.furthest <= answer.position
    /\ own => fixes[answer.position] = answer.courier

AnswersInv ==
  /\ heard.furthest = Nowhere \/ heard.furthest \in stored
  /\ reading.at = "answered" => Forward(reading.answer, reading.own)
  /\ Forward(card.answer, heard.own)
  /\ card.answer.position <= heard.furthest

LiveInv == LiveTypeOK /\ SinceInv /\ AnswersInv

LEMMA LiveStart == LiveInit => LiveInv
  <1> SUFFICES ASSUME LiveInit PROVE LiveInv
    OBVIOUS
  <1>1. NoAnswer \in AnswerRecord /\ NoAnswer.position = 0
    BY DEF NoAnswer, AnswerRecord, RiderNames, Nowhere
  <1>2. Len(fixes) = 0 /\ fixes \in Seq(Riders)
    BY DEF LiveInit
  <1>3. LiveTypeOK
    BY <1>1, <1>2 DEF LiveInit, LiveTypeOK, NoReading, RiderNames, RunStatuses, Nowhere
  <1>4. SinceInv /\ AnswersInv
    BY <1>1 DEF LiveInit, SinceInv, AnswersInv, Forward, NoReading, Nowhere
  <1>5. QED BY <1>3, <1>4 DEF LiveInv

LEMMA RunKeeps ==
  ASSUME LiveInv, CourierMoves \/ \E r \in Riders : AssignAgain(r)
  PROVE  LiveInv'
  <1>0. LiveTypeOK /\ SinceInv /\ AnswersInv
    BY DEF LiveInv
  <1>1. CASE CourierMoves
    <2>1. PICK status \in runMoves[tracked.status] :
            /\ tracked' = [tracked EXCEPT !.status = status]
            /\ heard' = IF status = "IN_TRANSIT" THEN [heard EXCEPT !.since = Len(fixes)] ELSE heard
      BY <1>1 DEF CourierMoves
    <2>2. UNCHANGED <<fixes, stored, stale, card, reading>>
      BY <1>1 DEF CourierMoves
    <2>3. /\ status \in RunStatuses
          /\ UnderWay(status) => status = "IN_TRANSIT" \/ UnderWay(tracked.status)
      BY <1>0, <2>1 DEF LiveTypeOK, RunStatuses, runMoves, UnderWay, TRACKABLE_DELIVERY_STATUSES
    <2>4. Len(fixes) \in Nat
      BY <1>0 DEF LiveTypeOK
    <2>5. /\ tracked'.status = status /\ tracked'.courier = tracked.courier
          /\ tracked' \in [status : RunStatuses, courier : RiderNames]
      BY <1>0, <2>1, <2>3 DEF LiveTypeOK
    <2>6. /\ heard' \in [since : 0..Len(fixes), own : BOOLEAN, furthest : Nat]
          /\ heard'.own = heard.own /\ heard'.furthest = heard.furthest
          /\ heard'.since = IF status = "IN_TRANSIT" THEN Len(fixes) ELSE heard.since
      BY <1>0, <2>1, <2>4 DEF LiveTypeOK
    <2>7. LiveTypeOK'
      BY <1>0, <2>2, <2>5, <2>6 DEF LiveTypeOK
    <2>8. SinceInv'
      <3>1. CASE status = "IN_TRANSIT"
        <4>1. \A n \in stored : ~ (n > Len(fixes))
          BY <1>0, <2>4 DEF LiveTypeOK
        <4>2. QED BY <2>2, <2>6, <3>1, <4>1 DEF SinceInv
      <3>2. CASE status # "IN_TRANSIT"
        BY <1>0, <2>2, <2>3, <2>5, <2>6, <3>2 DEF SinceInv
      <3>3. QED BY <3>1, <3>2
    <2>9. AnswersInv'
      BY <1>0, <2>2, <2>6 DEF AnswersInv, Forward
    <2>10. QED BY <2>7, <2>8, <2>9 DEF LiveInv
  <1>2. CASE \E r \in Riders : AssignAgain(r)
    <2>1. PICK r \in Riders : AssignAgain(r)
      BY <1>2
    <2>2. UNCHANGED <<fixes, stored, stale, card, reading, heard>>
      BY <2>1 DEF AssignAgain
    <2>3. /\ tracked' \in [status : RunStatuses, courier : RiderNames] /\ ~ UnderWay(tracked'.status)
      BY <2>1 DEF AssignAgain, RunStatuses, RiderNames, UnderWay, TRACKABLE_DELIVERY_STATUSES
    <2>4. LiveTypeOK' /\ SinceInv' /\ AnswersInv'
      BY <1>0, <2>2, <2>3 DEF LiveTypeOK, SinceInv, AnswersInv, Forward
    <2>5. QED BY <2>4 DEF LiveInv
  <1>3. QED BY <1>1, <1>2

LEMMA MeasuresKeep ==
  ASSUME LiveInv, NEW r \in Riders, Measures(r)
  PROVE  LiveInv'
  <1>0. LiveTypeOK /\ SinceInv /\ AnswersInv
    BY DEF LiveInv
  <1>1. /\ fixes \in Seq(Riders) /\ fixes' = Append(fixes, r)
        /\ UNCHANGED <<tracked, stored, stale, card, reading, heard>>
    BY <1>0 DEF Measures, LiveTypeOK
  <1>2. /\ fixes' \in Seq(Riders) /\ Len(fixes') = Len(fixes) + 1 /\ Len(fixes) \in Nat
        /\ \A n \in 1..Len(fixes) : fixes'[n] = fixes[n]
    BY <1>1
  <1>3. stored \subseteq 1..Len(fixes) /\ heard.since \in 0..Len(fixes)
    BY <1>0 DEF LiveTypeOK
  <1>4. /\ 1..Len(fixes) \subseteq 1..Len(fixes') /\ 0..Len(fixes) \subseteq 0..Len(fixes')
    BY <1>2
  <1>5. LiveTypeOK'
    BY <1>0, <1>1, <1>2, <1>4 DEF LiveTypeOK
  <1>6. SinceInv'
    BY <1>0, <1>1, <1>2, <1>3 DEF SinceInv
  <1>7. AnswersInv'
    BY <1>0, <1>1, <1>2, <1>3 DEF AnswersInv, Forward
  <1>8. QED BY <1>5, <1>6, <1>7 DEF LiveInv

LEMMA StoresBatchKeeps ==
  ASSUME LiveInv, NEW r \in Riders, NEW batch \in SUBSET DOMAIN fixes, StoresBatch(r, batch)
  PROVE  LiveInv'
  <1>0. LiveTypeOK /\ SinceInv /\ AnswersInv
    BY DEF LiveInv
  <1>1. /\ \A n \in batch : fixes[n] = r
        /\ tracked.courier = r /\ UnderWay(tracked.status)
        /\ stored' = stored \cup batch
        /\ UNCHANGED <<tracked, fixes, stale, card, reading, heard>>
    BY DEF StoresBatch, Storing
  <1>2. batch \subseteq 1..Len(fixes)
    BY <1>0 DEF LiveTypeOK
  <1>3. LiveTypeOK'
    BY <1>0, <1>1, <1>2 DEF LiveTypeOK
  <1>4. \A n \in stored' : n > heard.since => fixes[n] = r
    BY <1>0, <1>1 DEF SinceInv
  <1>5. SinceInv'
    BY <1>1, <1>4 DEF SinceInv
  <1>6. AnswersInv'
    BY <1>0, <1>1 DEF AnswersInv, Forward
  <1>7. QED BY <1>3, <1>5, <1>6 DEF LiveInv

\* The steps of the card that read nothing of the server.
LEMMA CardKeeps ==
  ASSUME LiveInv,
         TwoMinutesPass \/ useOrderAgain \/ CardReturns \/ useDeliveryTracking \/ ReadingFails
  PROVE  LiveInv'
  <1>0. LiveTypeOK /\ SinceInv /\ AnswersInv
    BY DEF LiveInv
  <1>1. UNCHANGED <<tracked, fixes, stored, heard>>
    BY DEF TwoMinutesPass, useOrderAgain, CardReturns, useDeliveryTracking, ReadingFails
  <1>2. stale' \in 0..Len(fixes)
    BY <1>0 DEF LiveTypeOK, TwoMinutesPass, useOrderAgain, CardReturns, useDeliveryTracking, ReadingFails
  <1>3. card' \in [out : BOOLEAN, due : BOOLEAN, answer : AnswerRecord] /\ card'.answer = card.answer
    <2>1. card \in [out : BOOLEAN, due : BOOLEAN, answer : AnswerRecord]
      BY <1>0 DEF LiveTypeOK
    <2>2. CASE TwoMinutesPass \/ ReadingFails
      BY <2>1, <2>2 DEF TwoMinutesPass, ReadingFails
    <2>3. CASE useOrderAgain
      <3>1. OrderIsOut \in BOOLEAN
        BY DEF OrderIsOut
      <3>2. QED BY <2>1, <2>3, <3>1 DEF useOrderAgain
    <2>4. CASE CardReturns
      BY <2>1, <2>4 DEF CardReturns
    <2>5. CASE useDeliveryTracking
      BY <2>1, <2>5 DEF useDeliveryTracking
    <2>6. QED BY <2>2, <2>3, <2>4, <2>5
  <1> DEFINE Readings == [at : {"idle", "located", "answered"}, underWay : BOOLEAN, courier : RiderNames,
                          answer : AnswerRecord, own : BOOLEAN]
  <1>4. reading' \in Readings /\ (reading' = reading \/ reading'.at # "answered")
    <2>1. reading \in Readings /\ tracked.courier \in RiderNames
      BY <1>0 DEF LiveTypeOK
    <2>2. NoAnswer \in AnswerRecord
      BY DEF NoAnswer, AnswerRecord, RiderNames, Nowhere
    <2>3. NoReading \in Readings /\ NoReading.at # "answered"
      BY <2>2 DEF NoReading, RiderNames
    <2>4. CASE TwoMinutesPass \/ useOrderAgain \/ CardReturns
      BY <2>1, <2>4 DEF TwoMinutesPass, useOrderAgain, CardReturns
    <2>5. CASE useDeliveryTracking
      <3>1. reading' = [NoReading EXCEPT !.at = "located", !.courier = tracked.courier,
                                         !.underWay = UnderWay(tracked.status)]
        BY <2>5 DEF useDeliveryTracking
      <3>2. UnderWay(tracked.status) \in BOOLEAN
        BY DEF UnderWay
      <3>3. \A b \in BOOLEAN, c \in RiderNames :
              LET r == [NoReading EXCEPT !.at = "located", !.courier = c, !.underWay = b]
              IN  r \in Readings /\ r.at # "answered"
        BY <2>3
      <3>4. QED BY <2>1, <3>1, <3>2, <3>3
    <2>6. CASE ReadingFails
      BY <2>3, <2>6 DEF ReadingFails
    <2>7. QED BY <2>4, <2>5, <2>6
  <1>5. LiveTypeOK'
    BY <1>0, <1>1, <1>2, <1>3, <1>4 DEF LiveTypeOK
  <1>6. SinceInv' /\ AnswersInv'
    BY <1>0, <1>1, <1>3, <1>4 DEF SinceInv, AnswersInv, Forward
  <1>7. QED BY <1>5, <1>6 DEF LiveInv

LEMMA GetTrackingKeeps ==
  ASSUME LiveInv, getTracking
  PROVE  LiveInv'
  <1>0. LiveTypeOK /\ SinceInv /\ AnswersInv
    BY DEF LiveInv
  <1> DEFINE last == IF reading.underWay /\ stored # {} THEN Max(stored) ELSE Nowhere
             own == /\ tracked.courier = reading.courier
                    /\ \E n \in stored : n > heard.since /\ fixes[n] = reading.courier
             answer == [position |-> last, isLive |-> last > stale, courier |-> reading.courier]
  <1>1. /\ UNCHANGED <<tracked, fixes, stored, stale, card, heard>>
        /\ reading' = [NoReading EXCEPT !.at = "answered", !.answer = answer, !.own = own]
    BY DEF getTracking
  <1>2. stored \in SUBSET Nat /\ Len(fixes) \in Nat /\ \A n \in stored : n <= Len(fixes) /\ n # 0
    BY <1>0 DEF LiveTypeOK
  <1>3. stored # {} => Max(stored) \in stored /\ \A n \in stored : n <= Max(stored)
    BY <1>2, MaxOfNaturals
  <1>4. last \in Nat /\ (last # Nowhere => last \in stored /\ \A n \in stored : n <= last)
    BY <1>2, <1>3 DEF Nowhere
  <1>5. own /\ last # Nowhere => fixes[last] = reading.courier
    <2> SUFFICES ASSUME own, last # Nowhere PROVE fixes[last] = reading.courier
      OBVIOUS
    <2>1. PICK n \in stored : n > heard.since /\ fixes[n] = reading.courier
      OBVIOUS
    <2>2. last \in stored /\ n <= last
      BY <1>4
    <2>3. last > heard.since
      <3>1. heard.since \in 0..Len(fixes)
        BY <1>0 DEF LiveTypeOK
      <3> HIDE DEF last
      <3>2. heard.since \in Int /\ n \in Int /\ last \in Int
        BY <1>2, <1>4, <3>1
      <3>3. QED BY <2>1, <2>2, <3>2
    <2>4. QED BY <1>0, <2>1, <2>2, <2>3 DEF SinceInv
  <1>6. own \in BOOLEAN
    OBVIOUS
  <1> HIDE DEF last, own
  <1>7. answer \in AnswerRecord
    BY <1>0, <1>4 DEF AnswerRecord, LiveTypeOK
  <1>8. /\ reading' \in [at : {"idle", "located", "answered"}, underWay : BOOLEAN, courier : RiderNames,
                         answer : AnswerRecord, own : BOOLEAN]
        /\ reading'.answer = answer /\ reading'.own = own
    <2> HIDE DEF answer
    <2> QED BY <1>1, <1>6, <1>7 DEF NoReading, RiderNames
  <1>9. LiveTypeOK'
    BY <1>0, <1>1, <1>8 DEF LiveTypeOK
  <1>10. Forward(reading.answer, reading.own)'
    BY <1>0, <1>1, <1>2, <1>4, <1>5, <1>8 DEF AnswersInv, Forward, Nowhere, LiveTypeOK
  <1>11. SinceInv' /\ AnswersInv'
    BY <1>0, <1>1, <1>10 DEF SinceInv, AnswersInv, Forward
  <1>12. QED BY <1>9, <1>11 DEF LiveInv

LEMMA AnswerShownKeeps ==
  ASSUME LiveInv, AnswerShown
  PROVE  LiveInv'
  <1>0. LiveTypeOK /\ SinceInv /\ AnswersInv
    BY DEF LiveInv
  <1> DEFINE read == reading.answer.position
             far == Max({heard.furthest, read})
  <1>1. /\ UNCHANGED <<tracked, fixes, stored, stale>>
        /\ card' = [card EXCEPT !.answer = reading.answer]
        /\ heard' = [heard EXCEPT !.own = reading.own, !.furthest = far]
        /\ reading' = NoReading /\ reading.at = "answered"
    BY <1>0 DEF AnswerShown, LiveTypeOK
  <1>2. read \in Nat /\ heard.furthest \in Nat /\ reading.own \in BOOLEAN /\ reading.answer \in AnswerRecord
    BY <1>0 DEF LiveTypeOK, AnswerRecord
  <1>3. far \in {heard.furthest, read} /\ heard.furthest <= far /\ read <= far
    <2>1. /\ {heard.furthest, read} \in SUBSET Nat /\ {heard.furthest, read} # {}
          /\ heard.furthest + read \in Nat
          /\ \A n \in {heard.furthest, read} : n <= heard.furthest + read
      BY <1>2
    <2>2. QED BY <2>1, MaxOfNaturals
  <1> HIDE DEF far
  <1>4. /\ heard' \in [since : 0..Len(fixes), own : BOOLEAN, furthest : Nat]
        /\ heard'.since = heard.since /\ heard'.own = reading.own /\ heard'.furthest = far
    BY <1>0, <1>1, <1>2, <1>3 DEF LiveTypeOK
  <1>5. card' \in [out : BOOLEAN, due : BOOLEAN, answer : AnswerRecord] /\ card'.answer = reading.answer
    BY <1>0, <1>1, <1>2 DEF LiveTypeOK
  <1>6. /\ reading' \in [at : {"idle", "located", "answered"}, underWay : BOOLEAN, courier : RiderNames,
                         answer : AnswerRecord, own : BOOLEAN]
        /\ reading'.at # "answered"
    BY <1>1 DEF NoReading, NoAnswer, AnswerRecord, RiderNames, Nowhere
  <1>7. LiveTypeOK'
    BY <1>0, <1>1, <1>4, <1>5, <1>6 DEF LiveTypeOK
  <1>8. read # Nowhere => far = read /\ read \in stored
    BY <1>0, <1>1, <1>2, <1>3 DEF AnswersInv, Forward
  <1>9. AnswersInv'
    BY <1>0, <1>1, <1>2, <1>3, <1>4, <1>5, <1>6, <1>8 DEF AnswersInv, Forward, Nowhere
  <1>10. SinceInv'
    BY <1>0, <1>1, <1>4 DEF SinceInv
  <1>11. QED BY <1>7, <1>9, <1>10 DEF LiveInv

LEMMA LiveStep == LiveInv /\ [LiveNext]_liveVars => LiveInv'
  <1> SUFFICES ASSUME LiveInv, [LiveNext]_liveVars PROVE LiveInv'
    OBVIOUS
  <1>1. CASE UNCHANGED liveVars
    BY <1>1 DEF liveVars, LiveInv, LiveTypeOK, SinceInv, AnswersInv, Forward
  <1>2. CASE LiveNext
    BY <1>2, RunKeeps, MeasuresKeep, StoresBatchKeeps, CardKeeps, GetTrackingKeeps, AnswerShownKeeps
       DEF LiveNext
  <1>3. QED BY <1>1, <1>2

(* The run, the positions stored and the answers read keep their shape.     *)
THEOREM LiveTypeCorrectness == LiveSpec => []LiveTypeOK
  <1>1. LiveInv => LiveTypeOK
    BY DEF LiveInv
  <1>2. QED BY <1>1, LiveStart, LiveStep, PTL DEF LiveSpec

(* TrackingService.getTracking and the card of the customer, for any        *)
(* number of couriers, attempts and measures: the marker never goes back,   *)
(* and shows the courier it names once he was heard.                        *)
THEOREM CustomersFollowTheRun == LiveSpec => []CustomerSeesTheRun
  <1>1. LiveInv => CustomerSeesTheRun
    BY DEF LiveInv, LiveTypeOK, AnswerRecord, AnswersInv, Forward, CustomerSeesTheRun
  <1>2. QED BY <1>1, LiveStart, LiveStep, PTL DEF LiveSpec

-----------------------------------------------------------------------------
(* The road of a courier.  The points in flight and in the queue are one     *)
(* sequence, whose bounds and order each step keeps (RoadInv); an answer     *)
(* that said yes has put its batch on the server.                           *)

Road == push.batch \o queue

RoadTypeOK ==
  /\ run \in [status : CourierStatuses, mine : BOOLEAN, seen : CourierStatuses]
  /\ measured \in Nat
  /\ queue \in Seq(Nat)
  /\ push \in [at : {"idle", "sent", "accepted", "refused"}, batch : Seq(Nat)]

RoadInv ==
  /\ RoadTypeOK
  /\ push.at = "idle" => push.batch = <<>>
  /\ push.at = "accepted" /\ run.status \notin ENDED => ToSet(push.batch) \subseteq trace
  /\ ToSet(Road) \subseteq 1 .. measured
  /\ RoadIsKept

-----------------------------------------------------------------------------
(* Sequences of points.                                                    *)

LEMMA KeepIsPrefix ==
  ASSUME NEW s \in Seq(Nat), NEW n \in Nat
  PROVE  /\ Keep(s, n) \in Seq(Nat) /\ Len(Keep(s, n)) <= n /\ Len(Keep(s, n)) <= Len(s)
         /\ \A i \in 1 .. Len(Keep(s, n)) : Keep(s, n)[i] = s[i]
  <1> DEFINE k == IF Len(s) < n THEN Len(s) ELSE n
  <1>1. k \in Nat /\ k <= n /\ k <= Len(s)
    BY LenProperties
  <1>2. \A i \in 1 .. k : s[i] \in Nat
    BY <1>1, ElementOfSeq, LenProperties
  <1>3. /\ SubSeq(s, 1, k) \in Seq(Nat)
        /\ Len(SubSeq(s, 1, k)) = IF 1 <= k THEN k - 1 + 1 ELSE 0
        /\ \A i \in 1 .. k - 1 + 1 : SubSeq(s, 1, k)[i] = s[1 + i - 1]
    <2> HIDE DEF k
    <2>1. QED BY <1>1, <1>2, SubSeqProperties
  <1>4. Keep(s, n) = SubSeq(s, 1, k)
    BY DEF Keep
  <1> HIDE DEF k
  <1>5. QED BY <1>1, <1>3, <1>4

LEMMA KeepLastIsSuffix ==
  ASSUME NEW s \in Seq(Nat), NEW n \in Nat \ {0}
  PROVE  \E k \in 0 .. Len(s) :
           /\ KeepLast(s, n) \in Seq(Nat) /\ Len(KeepLast(s, n)) <= n
           /\ Len(KeepLast(s, n)) = Len(s) - k
           /\ \A i \in 1 .. Len(KeepLast(s, n)) : KeepLast(s, n)[i] = s[k + i]
  <1> DEFINE k == IF Len(s) < n THEN 0 ELSE Len(s) - n
  <1>0. Len(s) \in Nat
    BY LenProperties
  <1>1. k \in 0 .. Len(s) /\ Len(s) - k <= n
    BY <1>0
  <1>2. KeepLast(s, n) = SubSeq(s, k + 1, Len(s))
    BY <1>0 DEF KeepLast
  <1> HIDE DEF k
  <1>3. \A i \in (k + 1) .. Len(s) : s[i] \in Nat
    BY <1>0, <1>1, ElementOfSeq
  <1>4. /\ SubSeq(s, k + 1, Len(s)) \in Seq(Nat)
        /\ Len(SubSeq(s, k + 1, Len(s))) = IF k + 1 <= Len(s) THEN Len(s) - (k + 1) + 1 ELSE 0
        /\ \A i \in 1 .. Len(s) - (k + 1) + 1 : SubSeq(s, k + 1, Len(s))[i] = s[(k + 1) + i - 1]
    BY <1>0, <1>1, <1>3, SubSeqProperties
  <1>5. Len(KeepLast(s, n)) = Len(s) - k
    BY <1>0, <1>1, <1>2, <1>4
  <1>6. \A i \in 1 .. Len(s) - k : KeepLast(s, n)[i] = s[k + i]
    <2>1. Len(s) - (k + 1) + 1 = Len(s) - k /\ \A i \in 1 .. Len(s) - k : (k + 1) + i - 1 = k + i
      BY <1>0, <1>1
    <2>2. QED BY <1>2, <1>4, <2>1
  <1>7. QED BY <1>1, <1>2, <1>4, <1>5, <1>6

\* A batch and what follows it are the queue it was taken from.
LEMMA BatchAndRest ==
  ASSUME NEW q \in Seq(Nat), NEW n \in Nat
  PROVE  LET batch == Keep(q, n) rest == SubSeq(q, Len(batch) + 1, Len(q)) IN
         rest \in Seq(Nat) /\ batch \o rest = q /\ Len(rest) <= Len(q)
  <1> DEFINE batch == Keep(q, n)
             k == Len(batch)
             rest == SubSeq(q, k + 1, Len(q))
  <1>1. /\ batch \in Seq(Nat) /\ k \in Nat /\ k <= Len(q) /\ Len(q) \in Nat
        /\ \A i \in 1 .. k : batch[i] = q[i]
    BY KeepIsPrefix, LenProperties
  <1>2. \A i \in (k + 1) .. Len(q) : q[i] \in Nat
    BY <1>1, ElementOfSeq
  <1> HIDE DEF batch, k
  <1>3. /\ rest \in Seq(Nat)
        /\ Len(rest) = IF k + 1 <= Len(q) THEN Len(q) - (k + 1) + 1 ELSE 0
        /\ \A i \in 1 .. Len(q) - (k + 1) + 1 : rest[i] = q[(k + 1) + i - 1]
    BY <1>1, <1>2, SubSeqProperties
  <1>4. Len(rest) = Len(q) - k
    BY <1>1, <1>3
  <1>5. \A i \in 1 .. Len(q) - k : rest[i] = q[k + i]
    <2>1. Len(q) - (k + 1) + 1 = Len(q) - k /\ \A i \in 1 .. Len(q) - k : (k + 1) + i - 1 = k + i
      BY <1>1
    <2>2. QED BY <1>3, <2>1
  <1> HIDE DEF rest
  <1>6. /\ batch \o rest \in Seq(Nat) /\ Len(batch \o rest) = Len(batch) + Len(rest)
        /\ \A i \in 1 .. Len(batch) + Len(rest) :
             (batch \o rest)[i] = IF i <= Len(batch) THEN batch[i] ELSE rest[i - Len(batch)]
    BY <1>1, <1>3, ConcatProperties
  <1>7. Len(batch \o rest) = Len(q)
    BY <1>1, <1>4, <1>6 DEF k
  <1>8. ASSUME NEW i \in 1 .. Len(batch \o rest) PROVE (batch \o rest)[i] = q[i]
    <2>1. CASE i <= k
      BY <1>1, <1>6, <1>8, <2>1 DEF k
    <2>2. CASE ~ (i <= k)
      <3>1. i - k \in 1 .. Len(q) - k /\ k + (i - k) = i
        BY <1>1, <1>7, <1>8, <2>2
      <3>2. (batch \o rest)[i] = rest[i - k]
        BY <1>6, <1>8, <2>2 DEF k
      <3>3. QED BY <1>5, <3>1, <3>2
    <2>3. QED BY <2>1, <2>2
  <1>9. batch \o rest = q
    BY <1>6, <1>7, <1>8, SeqEqual
  <1>10. QED BY <1>1, <1>3, <1>4, <1>9 DEF batch, rest, k

LEMMA SetOfConcat ==
  ASSUME NEW s \in Seq(Nat), NEW t \in Seq(Nat)
  PROVE  ToSet(s \o t) = ToSet(s) \cup ToSet(t)
  <1>1. /\ DOMAIN s = 1 .. Len(s) /\ DOMAIN t = 1 .. Len(t) /\ Len(s) \in Nat /\ Len(t) \in Nat
        /\ DOMAIN (s \o t) = 1 .. Len(s) + Len(t)
        /\ \A i \in 1 .. Len(s) + Len(t) : (s \o t)[i] = IF i <= Len(s) THEN s[i] ELSE t[i - Len(s)]
    BY ConcatProperties, LenProperties
  <1>2. ToSet(s \o t) \subseteq ToSet(s) \cup ToSet(t)
    BY <1>1 DEF ToSet
  <1>3. ASSUME NEW i \in 1 .. Len(s) PROVE s[i] \in ToSet(s \o t)
    <2>1. i \in 1 .. Len(s) + Len(t) /\ (s \o t)[i] = s[i]
      BY <1>1, <1>3
    <2>2. QED BY <1>1, <2>1 DEF ToSet
  <1>4. ASSUME NEW i \in 1 .. Len(t) PROVE t[i] \in ToSet(s \o t)
    <2>1. Len(s) + i \in 1 .. Len(s) + Len(t) /\ (s \o t)[Len(s) + i] = t[i]
      BY <1>1, <1>4
    <2>2. QED BY <1>1, <2>1 DEF ToSet
  <1>5. QED BY <1>1, <1>2, <1>3, <1>4 DEF ToSet

\* Parts of an increasing sequence are increasing, and so are two of them one
\* after the other when every point of the first comes before those of the second.
LEMMA IncreasingConcat ==
  ASSUME NEW s \in Seq(Nat), NEW t \in Seq(Nat)
  PROVE  Increasing(s \o t) <=>
           Increasing(s) /\ Increasing(t) /\ \A x \in ToSet(s), y \in ToSet(t) : x < y
  <1> DEFINE m == Len(s)
             n == Len(t)
             st == s \o t
  <1>1. DOMAIN s = 1 .. m /\ DOMAIN t = 1 .. n /\ m \in Nat /\ n \in Nat /\ DOMAIN st = 1 .. m + n
    BY ConcatProperties, LenProperties
  <1>2. \A i \in 1 .. m + n : st[i] = IF i <= m THEN s[i] ELSE t[i - m]
    BY ConcatProperties
  <1> HIDE DEF m, n, st
  <1>3. \A i \in 1 .. m : i \in 1 .. m + n /\ st[i] = s[i]
    BY <1>1, <1>2
  <1>4. \A i \in 1 .. n : m + i \in 1 .. m + n /\ st[m + i] = t[i]
    <2>1. \A i \in 1 .. n : m + i \in 1 .. m + n /\ ~ (m + i <= m) /\ (m + i) - m = i
      BY <1>1
    <2>2. QED BY <1>2, <2>1
  <1>5. ASSUME Increasing(st) PROVE Increasing(s) /\ Increasing(t) /\ \A x \in ToSet(s), y \in ToSet(t) : x < y
    <2>1. \A i, j \in 1 .. m + n : i < j => st[i] < st[j]
      BY <1>1, <1>5 DEF Increasing
    <2>2. Increasing(s)
      BY <1>1, <1>3, <2>1 DEF Increasing
    <2>3. ASSUME NEW i \in 1 .. n, NEW j \in 1 .. n, i < j PROVE t[i] < t[j]
      <3>1. m + i < m + j
        BY <1>1, <2>3
      <3>2. st[m + i] < st[m + j]
        BY <1>4, <2>1, <3>1
      <3>3. QED BY <1>4, <3>2
    <2>4. ASSUME NEW i \in 1 .. m, NEW j \in 1 .. n PROVE s[i] < t[j]
      <3>1. i < m + j
        BY <1>1
      <3>2. st[i] < st[m + j]
        BY <1>3, <1>4, <2>1, <3>1
      <3>3. QED BY <1>3, <1>4, <3>2
    <2>5. QED BY <1>1, <2>2, <2>3, <2>4 DEF Increasing, ToSet
  <1>6. ASSUME Increasing(s), Increasing(t), \A x \in ToSet(s), y \in ToSet(t) : x < y
        PROVE  Increasing(st)
    <2>1. /\ \A i, j \in 1 .. m : i < j => s[i] < s[j]
          /\ \A i, j \in 1 .. n : i < j => t[i] < t[j]
          /\ \A i \in 1 .. m, j \in 1 .. n : s[i] < t[j]
      BY <1>1, <1>6 DEF Increasing, ToSet
    <2>2. ASSUME NEW i \in 1 .. m + n, NEW j \in 1 .. m + n, i < j PROVE st[i] < st[j]
      <3>1. CASE j <= m
        <4>1. i \in 1 .. m /\ j \in 1 .. m
          BY <1>1, <2>2, <3>1
        <4>2. QED BY <1>3, <2>1, <2>2, <4>1
      <3>2. CASE i <= m /\ ~ (j <= m)
        <4>1. i \in 1 .. m /\ j - m \in 1 .. n
          BY <1>1, <2>2, <3>2
        <4>2. st[i] = s[i] /\ st[j] = t[j - m]
          BY <1>2, <2>2, <3>2
        <4>3. QED BY <2>1, <4>1, <4>2
      <3>3. CASE ~ (i <= m)
        <4>1. i - m \in 1 .. n /\ j - m \in 1 .. n /\ i - m < j - m /\ ~ (j <= m)
          BY <1>1, <2>2, <3>3
        <4>2. st[i] = t[i - m] /\ st[j] = t[j - m]
          BY <1>2, <2>2, <3>3, <4>1
        <4>3. QED BY <2>1, <4>1, <4>2
      <3>4. QED BY <3>1, <3>2, <3>3
    <2>3. QED BY <1>1, <2>2 DEF Increasing
  <1>7. QED BY <1>5, <1>6 DEF st

LEMMA NewestIncreases ==
  ASSUME NEW s \in Seq(Nat), NEW m \in Nat, ToSet(s) \subseteq 1 .. m
  PROVE  /\ Append(s, m + 1) \in Seq(Nat) /\ Len(Append(s, m + 1)) = Len(s) + 1
         /\ ToSet(Append(s, m + 1)) = ToSet(s) \cup {m + 1}
         /\ Increasing(s) => Increasing(Append(s, m + 1))
  <1> DEFINE t == Append(s, m + 1)
             n == Len(s)
  <1>1. t \in Seq(Nat) /\ Len(t) = n + 1 /\ (\A i \in 1 .. n : t[i] = s[i]) /\ t[n + 1] = m + 1
    BY AppendProperties
  <1>2. DOMAIN s = 1 .. n /\ n \in Nat
    BY LenProperties
  <1>3. DOMAIN t = 1 .. n + 1
    BY <1>1, LenProperties
  <1> HIDE DEF t, n
  <1>4. 1 .. n + 1 = (1 .. n) \cup {n + 1}
    BY <1>2
  <1>5. ToSet(t) = ToSet(s) \cup {m + 1}
    BY <1>1, <1>2, <1>3, <1>4 DEF ToSet
  <1>6. ASSUME Increasing(s) PROVE Increasing(t)
    <2>1. ASSUME NEW i \in 1 .. n + 1, NEW j \in 1 .. n + 1, i < j PROVE t[i] < t[j]
      <3>1. i \in 1 .. n /\ t[i] = s[i]
        BY <1>1, <1>2, <2>1
      <3>2. CASE j = n + 1
        <4>1. s[i] \in 1 .. m
          BY <1>2, <3>1 DEF ToSet
        <4>2. QED BY <1>1, <3>1, <3>2, <4>1
      <3>3. CASE j \in 1 .. n
        BY <1>1, <1>2, <1>6, <2>1, <3>1, <3>3 DEF Increasing
      <3>4. QED BY <1>4, <3>2, <3>3
    <2>2. QED BY <1>3, <2>1 DEF Increasing
  <1>7. QED BY <1>1, <1>5, <1>6 DEF t, n

\* t is s from its place k + 1 on, or a part of that.
LEMMA PartIncreases ==
  ASSUME NEW s \in Seq(Nat), NEW t \in Seq(Nat), NEW k \in Nat, k + Len(t) <= Len(s),
         \A i \in 1 .. Len(t) : t[i] = s[k + i]
  PROVE  ToSet(t) \subseteq ToSet(s) /\ (Increasing(s) => Increasing(t))
  <1> DEFINE m == Len(s)
             n == Len(t)
  <1>1. DOMAIN s = 1 .. m /\ DOMAIN t = 1 .. n /\ m \in Nat /\ n \in Nat /\ k + n <= m
    BY LenProperties
  <1>2. \A i \in 1 .. n : t[i] = s[k + i]
    OBVIOUS
  <1> HIDE DEF m, n
  <1>3. \A i \in 1 .. n : k + i \in 1 .. m
    BY <1>1
  <1>4. ToSet(t) \subseteq ToSet(s)
    BY <1>1, <1>2, <1>3 DEF ToSet
  <1>5. ASSUME Increasing(s), NEW i \in 1 .. n, NEW j \in 1 .. n, i < j PROVE t[i] < t[j]
    <2>1. k + i < k + j
      BY <1>1, <1>5
    <2>2. s[k + i] < s[k + j]
      BY <1>1, <1>3, <1>5, <2>1 DEF Increasing
    <2>3. QED BY <1>2, <2>2
  <1>6. QED BY <1>1, <1>4, <1>5 DEF Increasing

LEMMA PrefixIncreases ==
  ASSUME NEW s \in Seq(Nat), NEW n \in Nat
  PROVE  ToSet(Keep(s, n)) \subseteq ToSet(s) /\ (Increasing(s) => Increasing(Keep(s, n)))
  <1> DEFINE t == Keep(s, n)
  <1>1. t \in Seq(Nat) /\ Len(t) <= Len(s) /\ \A i \in 1 .. Len(t) : t[i] = s[i]
    BY KeepIsPrefix
  <1>2. Len(t) \in Nat
    BY <1>1, LenProperties
  <1> HIDE DEF t
  <1>3. 0 + Len(t) <= Len(s) /\ \A i \in 1 .. Len(t) : t[i] = s[0 + i]
    BY <1>1, <1>2
  <1>4. ToSet(t) \subseteq ToSet(s) /\ (Increasing(s) => Increasing(t))
    BY <1>1, <1>3, PartIncreases
  <1>5. QED BY <1>4 DEF t

LEMMA SuffixIncreases ==
  ASSUME NEW s \in Seq(Nat), NEW n \in Nat \ {0}
  PROVE  /\ KeepLast(s, n) \in Seq(Nat) /\ Len(KeepLast(s, n)) <= n
         /\ ToSet(KeepLast(s, n)) \subseteq ToSet(s) /\ (Increasing(s) => Increasing(KeepLast(s, n)))
  <1> DEFINE t == KeepLast(s, n)
  <1>1. PICK k \in 0 .. Len(s) : /\ t \in Seq(Nat) /\ Len(t) <= n /\ Len(t) = Len(s) - k
                                 /\ \A i \in 1 .. Len(t) : t[i] = s[k + i]
    BY KeepLastIsSuffix
  <1>2. Len(s) \in Nat
    BY LenProperties
  <1> HIDE DEF t
  <1>3. k \in Nat /\ k + Len(t) <= Len(s)
    BY <1>1, <1>2
  <1>4. ToSet(t) \subseteq ToSet(s) /\ (Increasing(s) => Increasing(t))
    BY <1>1, <1>3, PartIncreases
  <1>5. QED BY <1>1, <1>4 DEF t

-----------------------------------------------------------------------------
(* The steps.                                                              *)

LEMMA RoadStart == TrackingInit => RoadInv
  <1> SUFFICES ASSUME TrackingInit PROVE RoadInv
    OBVIOUS
  <1>1. push.batch = <<>> /\ push.at = "idle" /\ queue = <<>> /\ measured = 0
    BY DEF TrackingInit, NoPush
  <1>2. push \in [at : {"idle", "sent", "accepted", "refused"}, batch : Seq(Nat)] /\ queue \in Seq(Nat)
    BY <1>1, EmptySeq DEF TrackingInit, NoPush
  <1>3. run \in [status : CourierStatuses, mine : BOOLEAN, seen : CourierStatuses]
    BY DEF TrackingInit, CourierStatuses
  <1>4. Road = <<>> /\ DOMAIN Road = {} /\ Len(queue) = 0
    <2>1. Road = <<>>
      BY <1>1, <1>2, ConcatEmptySeq DEF Road
    <2>2. <<>> \in Seq(Nat) /\ Len(<<>>) = 0
      BY EmptySeq
    <2>3. DOMAIN Road = 1 .. 0
      BY <2>1, <2>2, LenProperties
    <2>4. QED BY <1>1, <2>1, <2>2, <2>3
  <1>5. ToSet(Road) = {}
    BY <1>4 DEF ToSet
  <1>6. RoadIsKept
    BY <1>1, <1>4, TrackingBounds DEF RoadIsKept, Increasing, Road
  <1>7. QED BY <1>1, <1>2, <1>3, <1>5, <1>6 DEF RoadInv, RoadTypeOK

LEMMA RoadFacts ==
  ASSUME RoadInv
  PROVE  /\ push.batch \in Seq(Nat) /\ queue \in Seq(Nat) /\ Road \in Seq(Nat) /\ measured \in Nat
         /\ ToSet(Road) = ToSet(push.batch) \cup ToSet(queue)
         /\ ToSet(push.batch) \subseteq 1 .. measured /\ ToSet(queue) \subseteq 1 .. measured
         /\ Increasing(Road) /\ Increasing(push.batch) /\ Increasing(queue)
         /\ \A x \in ToSet(push.batch), y \in ToSet(queue) : x < y
  <1>1. push.batch \in Seq(Nat) /\ queue \in Seq(Nat) /\ measured \in Nat
    BY DEF RoadInv, RoadTypeOK
  <1>2. Road \in Seq(Nat)
    BY <1>1, ConcatProperties DEF Road
  <1>3. ToSet(Road) = ToSet(push.batch) \cup ToSet(queue)
    BY <1>1, SetOfConcat DEF Road
  <1>4. Increasing(Road)
    BY DEF RoadInv, RoadIsKept, Road
  <1>5. /\ Increasing(push.batch) /\ Increasing(queue)
        /\ \A x \in ToSet(push.batch), y \in ToSet(queue) : x < y
    BY <1>1, <1>4, IncreasingConcat DEF Road
  <1>6. QED BY <1>1, <1>2, <1>3, <1>4, <1>5 DEF RoadInv

\* The steps of the run, the watch and the screen leave the road alone.
LEMMA RoadStays ==
  ASSUME RoadInv, measured' = measured, queue' = queue, push' = push,
         overflowed' = overflowed, forgotten' = forgotten, trace \subseteq trace' \/ run'.status \in ENDED,
         run' \in [status : CourierStatuses, mine : BOOLEAN, seen : CourierStatuses],
         run.status \in ENDED => run'.status \in ENDED
  PROVE  RoadInv'
  BY DEF RoadInv, RoadTypeOK, RoadIsKept, Road

\* flush moves the head of the queue into the batch, and leaves the road as it was.
LEMMA FlushKeepsRoad ==
  ASSUME RoadInv, NEW q \in Seq(Nat), Len(q) <= offlineQueueMaxPoints, flush(q)
  PROVE  /\ push' \in [at : {"idle", "sent", "accepted", "refused"}, batch : Seq(Nat)]
         /\ queue' \in Seq(Nat) /\ Len(queue') <= offlineQueueMaxPoints
         /\ push'.batch \o queue' = push.batch \o q
         /\ (push'.at = "idle" => push'.batch = <<>>)
         /\ (push'.at = "accepted" => push' = push)
  <1>1. /\ push \in [at : {"idle", "sent", "accepted", "refused"}, batch : Seq(Nat)]
        /\ (push.at = "idle" => push.batch = <<>>)
    BY DEF RoadInv, RoadTypeOK
  <1>2. CASE push.at # "idle" \/ q = <<>>
    BY <1>1, <1>2 DEF flush
  <1>3. CASE ~ (push.at # "idle" \/ q = <<>>)
    <2> DEFINE b == Keep(q, BatchSize)
               rest == SubSeq(q, Len(b) + 1, Len(q))
    <2>1. queue' = rest /\ push' = [at |-> "sent", batch |-> b]
      BY <1>3 DEF flush
    <2>2. b \in Seq(Nat) /\ rest \in Seq(Nat) /\ b \o rest = q /\ Len(rest) <= Len(q)
      BY KeepIsPrefix, BatchAndRest, TrackingBounds
    <2>3. push.batch \o q = q
      BY <1>1, <1>3, ConcatEmptySeq
    <2> HIDE DEF b, rest
    <2>4. push'.at = "sent" /\ push'.batch = b /\ push'.batch \o queue' = q
      BY <2>1, <2>2
    <2>5. Len(rest) <= offlineQueueMaxPoints
      <3>1. Len(rest) \in Nat /\ Len(q) \in Nat
        BY <2>2, LenProperties
      <3>2. QED BY <2>2, <3>1, TrackingBounds
    <2>6. QED BY <2>1, <2>2, <2>3, <2>4, <2>5
  <1>4. QED BY <1>2, <1>3

\* What a step that changes the queue has to show of the new road.
LEMMA RoadChanges ==
  ASSUME RoadInv, measured' \in Nat,
         push' \in [at : {"idle", "sent", "accepted", "refused"}, batch : Seq(Nat)],
         queue' \in Seq(Nat), Len(queue') <= offlineQueueMaxPoints, run' = run, trace' = trace,
         push'.at = "idle" => push'.batch = <<>>,
         push'.at = "accepted" => push' = push,
         NEW r \in Seq(Nat), push'.batch \o queue' = r,
         Increasing(r), ToSet(r) \subseteq 1 .. measured',
         run.status \notin ENDED => 1 .. measured' \subseteq ToSet(r) \cup trace \cup overflowed' \cup forgotten'
  PROVE  RoadInv'
  <1>1. RoadTypeOK'
    BY DEF RoadInv, RoadTypeOK
  <1>2. push'.at = "accepted" /\ run'.status \notin ENDED => ToSet(push'.batch) \subseteq trace'
    BY DEF RoadInv
  <1>3. ToSet(Road') \subseteq 1 .. measured'
    BY DEF Road
  <1>4. RoadIsKept'
    BY DEF RoadIsKept, Increasing
  <1>5. QED BY <1>1, <1>2, <1>3, <1>4 DEF RoadInv

\* A position is measured: it ends the road, which the queue shortens.
LEMMA MeasureStep ==
  ASSUME RoadInv, positionMeasured
  PROVE  RoadInv'
  <1> DEFINE all == Append(queue, measured + 1)
             remains == KeepLast(all, offlineQueueMaxPoints)
             batch == push.batch
  <1>1. /\ measured' = measured + 1 /\ run' = run /\ trace' = trace /\ forgotten' = forgotten
        /\ overflowed' = overflowed \cup Dropped(all, remains) /\ flush(remains)
    BY DEF positionMeasured
  <1>2. /\ batch \in Seq(Nat) /\ queue \in Seq(Nat) /\ measured \in Nat
        /\ ToSet(Road) = ToSet(batch) \cup ToSet(queue)
        /\ ToSet(batch) \subseteq 1 .. measured /\ ToSet(queue) \subseteq 1 .. measured
        /\ Increasing(batch) /\ Increasing(queue) /\ \A x \in ToSet(batch), y \in ToSet(queue) : x < y
    BY RoadFacts
  <1>3. /\ all \in Seq(Nat) /\ ToSet(all) = ToSet(queue) \cup {measured + 1} /\ Increasing(all)
    BY <1>2, NewestIncreases
  <1>4. /\ remains \in Seq(Nat) /\ Len(remains) <= offlineQueueMaxPoints
        /\ ToSet(remains) \subseteq ToSet(all) /\ Increasing(remains)
    BY <1>3, SuffixIncreases, TrackingBounds
  <1> HIDE DEF all, remains, batch
  <1>5. /\ push' \in [at : {"idle", "sent", "accepted", "refused"}, batch : Seq(Nat)]
        /\ queue' \in Seq(Nat) /\ Len(queue') <= offlineQueueMaxPoints
        /\ push'.batch \o queue' = batch \o remains
        /\ (push'.at = "idle" => push'.batch = <<>>)
        /\ (push'.at = "accepted" => push' = push)
    BY <1>1, <1>4, FlushKeepsRoad DEF batch
  <1>6. batch \o remains \in Seq(Nat) /\ ToSet(batch \o remains) = ToSet(batch) \cup ToSet(remains)
    BY <1>2, <1>4, ConcatProperties, SetOfConcat
  <1>7. Increasing(batch \o remains)
    <2>1. \A x \in ToSet(batch), y \in ToSet(remains) : x < y
      BY <1>2, <1>3, <1>4
    <2>2. QED BY <1>2, <1>4, <2>1, IncreasingConcat
  <1>8. measured' \in Nat /\ ToSet(batch \o remains) \subseteq 1 .. measured'
    BY <1>1, <1>2, <1>3, <1>4, <1>6
  <1>9. ASSUME run.status \notin ENDED
        PROVE  1 .. measured' \subseteq ToSet(batch \o remains) \cup trace \cup overflowed' \cup forgotten'
    <2>1. 1 .. measured \subseteq ToSet(Road) \cup trace \cup overflowed \cup forgotten
      BY <1>9 DEF RoadInv, RoadIsKept, Road
    <2>2. 1 .. measured' = (1 .. measured) \cup {measured + 1}
      BY <1>1, <1>2
    <2>3. ToSet(all) \subseteq ToSet(remains) \cup Dropped(all, remains)
      BY DEF Dropped
    <2>4. QED BY <1>1, <1>2, <1>3, <1>6, <2>1, <2>2, <2>3
  <1>10. QED BY <1>1, <1>5, <1>6, <1>7, <1>8, <1>9, RoadChanges

\* The batch goes back before the queue, whose newest points give way, or goes away
\* with a queue that nothing reaches.
LEMMA FailStep ==
  ASSUME RoadInv, flushFails
  PROVE  RoadInv'
  <1> DEFINE remains == IF Reached(gps) THEN Keep(Road, offlineQueueMaxPoints) ELSE <<>>
  <1>1. /\ queue' = remains /\ overflowed \subseteq overflowed' /\ forgotten \subseteq forgotten'
        /\ ToSet(Road) \subseteq ToSet(remains) \cup overflowed' \cup forgotten'
        /\ push' = NoPush /\ measured' = measured /\ run' = run /\ trace' = trace
    BY DEF flushFails, Road, Dropped
  <1>2. Road \in Seq(Nat) /\ Increasing(Road) /\ measured \in Nat
    BY RoadFacts
  <1>3. /\ remains \in Seq(Nat) /\ Len(remains) <= offlineQueueMaxPoints
        /\ ToSet(remains) \subseteq ToSet(Road) /\ Increasing(remains)
    <2>1. CASE Reached(gps)
      BY <1>2, <2>1, KeepIsPrefix, PrefixIncreases, TrackingBounds
    <2>2. CASE ~ Reached(gps)
      <3>1. remains = <<>> /\ <<>> \in Seq(Nat) /\ Len(<<>>) = 0
        BY <2>2, EmptySeq
      <3>2. DOMAIN remains = {}
        <4>1. DOMAIN <<>> = 1 .. 0
          BY <3>1, LenProperties
        <4>2. QED BY <3>1, <4>1
      <3> HIDE DEF remains
      <3>3. QED BY <3>1, <3>2, TrackingBounds DEF ToSet, Increasing
    <2>3. QED BY <2>1, <2>2
  <1> HIDE DEF remains
  <1>4. /\ push' \in [at : {"idle", "sent", "accepted", "refused"}, batch : Seq(Nat)]
        /\ push'.at = "idle" /\ push'.batch = <<>>
    BY <1>1, EmptySeq DEF NoPush
  <1>5. push'.batch \o queue' = remains
    BY <1>1, <1>3, <1>4, ConcatEmptySeq
  <1>6. ToSet(remains) \subseteq 1 .. measured'
    BY <1>1, <1>3 DEF RoadInv
  <1>7. run.status \notin ENDED =>
          1 .. measured' \subseteq ToSet(remains) \cup trace \cup overflowed' \cup forgotten'
    BY <1>1 DEF RoadInv, RoadIsKept, Road
  <1>8. QED BY <1>1, <1>2, <1>3, <1>4, <1>5, <1>6, <1>7, RoadChanges

\* A screen that is left keeps its queue, or takes it away with it.
LEMMA ReleaseStep ==
  ASSUME RoadInv, NEW g, Releases(g)
  PROVE  RoadInv'
  <1>1. CASE Reached(g)
    BY <1>1, RoadStays DEF Releases, RoadInv, RoadTypeOK
  <1>2. CASE ~ Reached(g)
    <2>1. /\ queue' = <<>> /\ forgotten' = forgotten \cup ToSet(queue)
          /\ UNCHANGED <<run, measured, push, trace, overflowed>>
      BY <1>2 DEF Releases
    <2>2. /\ push.batch \in Seq(Nat) /\ measured \in Nat /\ Increasing(push.batch)
          /\ ToSet(Road) = ToSet(push.batch) \cup ToSet(queue) /\ ToSet(push.batch) \subseteq 1 .. measured
      BY RoadFacts
    <2>3. <<>> \in Seq(Nat) /\ Len(<<>>) = 0
      BY EmptySeq
    <2>4. push'.batch \o queue' = push.batch
      BY <2>1, <2>2, ConcatEmptySeq
    <2>5. run.status \notin ENDED =>
            1 .. measured' \subseteq ToSet(push.batch) \cup trace \cup overflowed' \cup forgotten'
      BY <2>1, <2>2 DEF RoadInv, RoadIsKept, Road
    <2>6. push' \in [at : {"idle", "sent", "accepted", "refused"}, batch : Seq(Nat)]
          /\ (push'.at = "idle" => push'.batch = <<>>)
      BY <2>1 DEF RoadInv, RoadTypeOK
    <2>7. QED BY <2>1, <2>2, <2>3, <2>4, <2>5, <2>6, RoadChanges, TrackingBounds
  <1>3. QED BY <1>1, <1>2

\* What was accepted is on the server: it leaves the road, while the run is open.
LEMMA SuccessStep ==
  ASSUME RoadInv, flushSucceeds
  PROVE  RoadInv'
  <1>1. /\ push.at = "accepted" /\ push' = NoPush
        /\ UNCHANGED <<run, gps, measured, queue, trace, overflowed, forgotten>>
    BY DEF flushSucceeds
  <1>2. /\ queue \in Seq(Nat) /\ measured \in Nat /\ Increasing(queue)
        /\ ToSet(Road) = ToSet(push.batch) \cup ToSet(queue) /\ ToSet(queue) \subseteq 1 .. measured
    BY RoadFacts
  <1>3. /\ push' \in [at : {"idle", "sent", "accepted", "refused"}, batch : Seq(Nat)]
        /\ push'.at = "idle" /\ push'.batch = <<>>
    BY <1>1, EmptySeq DEF NoPush
  <1>4. push'.batch \o queue' = queue
    BY <1>1, <1>2, <1>3, ConcatEmptySeq
  <1>5. run.status \notin ENDED => 1 .. measured \subseteq ToSet(queue) \cup trace \cup overflowed \cup forgotten
    BY <1>1, <1>2 DEF RoadInv, RoadIsKept, Road
  <1>6. Len(queue') <= offlineQueueMaxPoints
    BY <1>1 DEF RoadInv, RoadIsKept
  <1>7. QED BY <1>1, <1>2, <1>3, <1>4, <1>5, <1>6, RoadChanges

LEMMA PushStep ==
  ASSUME RoadInv, pushLocations
  PROVE  RoadInv'
  <1>1. /\ push.at = "sent" /\ UNCHANGED <<run, measured, queue, overflowed, forgotten>>
        /\ \/ push' = [push EXCEPT !.at = "accepted"] /\ trace' = trace \cup ToSet(push.batch)
           \/ push' = [push EXCEPT !.at = "refused"] /\ trace' = trace
    BY DEF pushLocations
  <1>2. /\ push' \in [at : {"idle", "sent", "accepted", "refused"}, batch : Seq(Nat)]
        /\ push'.batch = push.batch /\ push'.at \in {"accepted", "refused"}
        /\ (push'.at = "accepted" => trace' = trace \cup ToSet(push.batch)) /\ trace \subseteq trace'
    BY <1>1 DEF RoadInv, RoadTypeOK
  <1>3. RoadTypeOK'
    BY <1>1, <1>2 DEF RoadInv, RoadTypeOK
  <1>4. Road' = Road
    BY <1>1, <1>2 DEF Road
  <1>5. RoadIsKept'
    <2>1. Increasing(push'.batch \o queue')
      BY <1>1, <1>2 DEF RoadInv, RoadIsKept
    <2>2. run'.status \notin ENDED =>
            1 .. measured' \subseteq ToSet(push'.batch \o queue') \cup trace' \cup overflowed' \cup forgotten'
      BY <1>1, <1>2 DEF RoadInv, RoadIsKept
    <2>3. Len(queue') <= offlineQueueMaxPoints
      BY <1>1 DEF RoadInv, RoadIsKept
    <2>4. QED BY <2>1, <2>2, <2>3 DEF RoadIsKept, Increasing
  <1>6. QED BY <1>1, <1>2, <1>3, <1>4, <1>5 DEF RoadInv

LEMMA RoadStep == RoadInv /\ [TrackingNext]_trackingVars => RoadInv'
  <1> SUFFICES ASSUME RoadInv, [TrackingNext]_trackingVars PROVE RoadInv'
    OBVIOUS
  <1>0. run \in [status : CourierStatuses, mine : BOOLEAN, seen : CourierStatuses]
    BY DEF RoadInv, RoadTypeOK
  <1>1. CASE UNCHANGED trackingVars
    BY <1>0, <1>1, RoadStays DEF trackingVars
  <1>2. CASE CourierStatusMoves
    <2>1. PICK status \in CourierStatuses : run' = [run EXCEPT !.status = status]
                                            /\ run.status \notin ENDED
      BY <1>2 DEF CourierStatusMoves, ENDED
    <2>2. run' \in [status : CourierStatuses, mine : BOOLEAN, seen : CourierStatuses]
      BY <1>0, <2>1
    <2>3. QED BY <1>2, <2>1, <2>2, RoadStays DEF CourierStatusMoves
  <1>3. CASE RunReassigned \/ useDelivery
    <2>1. run' \in [status : CourierStatuses, mine : BOOLEAN, seen : CourierStatuses]
          /\ run'.status = run.status
      BY <1>0, <1>3 DEF RunReassigned, useDelivery
    <2>2. QED BY <1>3, <2>1, RoadStays DEF RunReassigned, useDelivery
  <1>4. CASE startTracking \/ watchPosition \/ stopTracking \/ CourseScreen
    <2>1. UNCHANGED <<run, measured, queue, push, trace, overflowed, forgotten>>
      BY <1>4 DEF startTracking, watchPosition, stopTracking, CourseScreen
    <2>2. QED BY <1>0, <2>1, RoadStays
  <1>5. CASE purgeOldTraces
    BY <1>0, <1>5, RoadStays DEF purgeOldTraces
  <1>6. CASE startFails \/ unmount \/ applicationKilled
    BY <1>6, ReleaseStep DEF startFails, unmount, applicationKilled
  <1>7. QED BY <1>1, <1>2, <1>3, <1>4, <1>5, <1>6, MeasureStep, PushStep, SuccessStep, FailStep DEF TrackingNext

(* For any capacity of the queue and any size of the batches: the road is    *)
(* never shuffled, and while the run is open no point is lost but by a full  *)
(* queue, or unsent with the last thing of its screen that could send it.    *)
THEOREM RoadsAreKept == TrackingSpec => []RoadIsKept
  <1>1. RoadInv => RoadIsKept
    BY DEF RoadInv
  <1>2. QED BY <1>1, RoadStart, RoadStep, PTL DEF TrackingSpec

-----------------------------------------------------------------------------
(* The address book.                                                       *)

AddressRow == [exists : BOOLEAN, isDefault : BOOLEAN, used : BOOLEAN, age : Nat]
WriterStages == {"idle", "create", "insert", "update", "rewrite", "demote", "delete", "promote"}
WriterRecord == [at : WriterStages, id : Addresses \cup {"none"}, default : BOOLEAN,
                 cleared : SUBSET Addresses, stale : BOOLEAN]
Busy(w) == writer[w].at # "idle"

\* The rows and the requests keep their shape.
BookTypeOK ==
  /\ book \in [Addresses -> AddressRow]
  /\ writer \in [Writers -> WriterRecord]
  /\ \A w \in Writers : Busy(w) => writer[w].id \in Addresses
  /\ forsaken \in BOOLEAN /\ raced \in BOOLEAN

\* The ages count the addresses ever written, and no two are alike.
Dated == {a \in Addresses : book[a].age > 0}
AgesInv ==
  /\ IsFiniteSet(Dated)
  /\ \A a \in Addresses : (book[a].exists => a \in Dated) /\ book[a].age <= Oldest
  /\ \A a, b \in Dated : a # b => book[a].age # book[b].age
  /\ \A a \in Addresses : book[a].used => a \in Book

\* Whoever creates an address is alone with its identifier.
OwnInv ==
  \A w \in Writers : writer[w].at \in {"create", "insert"} =>
    /\ writer[w].id \notin Dated
    /\ \A o \in Writers : o # w /\ Busy(o) => writer[o].id # writer[w].id

\* What a request has read still holds while no other has written.
ReadsHold(w) ==
  /\ writer[w].at \in {"insert", "rewrite"} =>
       writer[w].cleared = IF writer[w].default THEN Defaults \ {writer[w].id} ELSE {}
  /\ writer[w].at \in {"create", "insert"} /\ ~ writer[w].default => Defaults # {}
  /\ writer[w].at \in {"demote", "delete"} =>
       writer[w].id \in Book /\ writer[w].default = (writer[w].id \in Defaults)
  /\ writer[w].at = "promote" => Defaults = {}

AtMostOne(S) == \A a, b \in S : a = b
Promoted == \A w \in Writers : writer[w].at # "promote"

ChoiceInv ==
  ~ raced =>
    /\ AtMostOne(Defaults)
    /\ \A w \in Writers : Busy(w) /\ ~ writer[w].stale => ReadsHold(w)
    /\ ~ forsaken /\ Promoted => (Book # {} => Defaults # {})

BookInv == BookTypeOK /\ AgesInv /\ OwnInv /\ ChoiceInv

LEMMA BookStart == BookInit => BookInv
  <1> SUFFICES ASSUME BookInit PROVE BookInv
    OBVIOUS
  <1>0. /\ Unwrote \in AddressRow /\ Unwrote.age = 0
        /\ ~ Unwrote.exists /\ ~ Unwrote.isDefault /\ ~ Unwrote.used
        /\ NoRead \in WriterRecord /\ NoRead.at = "idle"
    BY DEF Unwrote, NoRead, AddressRow, WriterRecord, WriterStages
  <1>1. BookTypeOK
    BY <1>0 DEF BookInit, BookTypeOK, Busy
  <1>2. Dated = {} /\ Book = {} /\ Defaults = {}
    BY <1>0 DEF BookInit, Dated, Book, Defaults
  <1>3. Oldest = 0 /\ IsFiniteSet(Dated)
    BY <1>2, FS_EmptySet DEF Oldest, Dated
  <1>4. AgesInv
    BY <1>0, <1>2, <1>3 DEF AgesInv, BookInit
  <1>5. OwnInv /\ ChoiceInv
    BY <1>0, <1>2 DEF BookInit, OwnInv, ChoiceInv, Busy, AtMostOne
  <1>6. QED BY <1>1, <1>4, <1>5 DEF BookInv

\* The books where some address is the newest: all those that are not empty.
LEMMA NewestIsThere ==
  ASSUME BookInv, Book # {}
  PROVE  Newest # {}
  <1> DEFINE ages == {book[a].age : a \in Book}
  <1>1. /\ ages \in SUBSET Nat /\ ages # {}
        /\ Oldest \in Nat /\ \A n \in ages : n <= Oldest
    <2>1. Oldest \in Nat
      BY FS_CardinalityType DEF BookInv, AgesInv, Oldest, Dated
    <2>2. \A a \in Book : book[a].age \in Nat /\ book[a].age <= Oldest
      BY DEF BookInv, BookTypeOK, AgesInv, Book, AddressRow
    <2>3. QED BY <2>1, <2>2
  <1>2. PICK m \in ages : \A n \in ages : n <= m
    <2> HIDE DEF ages
    <2> QED BY <1>1, GreatestNatural
  <1>3. PICK a \in Book : book[a].age = m
    BY <1>2
  <1>4. \A b \in Book : book[b].age <= book[a].age
    BY <1>2, <1>3
  <1>5. QED BY <1>3, <1>4 DEF Newest

\* A request that only reads: it starts, goes on inside its transaction, or is dropped.
MayRead(w, context) ==
  /\ context \in WriterRecord
  /\ writer' = [writer EXCEPT ![w] = context] /\ UNCHANGED <<book, raced>>
  /\ forsaken' \in BOOLEAN /\ (forsaken => forsaken')
  /\ context.at # "idle" => context.id \in Addresses
  /\ context.at \in {"create", "insert"} =>
       /\ context.id \notin Dated
       /\ \A o \in Writers : o # w /\ Busy(o) => writer[o].id # context.id
  /\ context.at # "idle" =>
       \A o \in Writers : o # w /\ writer[o].at \in {"create", "insert"} => writer[o].id # context.id
  /\ context.at # "idle" /\ ~ context.stale /\ ~ raced => ReadsHold(w)'
  /\ writer[w].at = "promote" => forsaken'

LEMMA ReadingKeeps ==
  ASSUME BookInv, NEW w \in Writers, NEW context, MayRead(w, context)
  PROVE  BookInv'
  <1> USE DEF MayRead
  <1>0. BookTypeOK /\ AgesInv /\ OwnInv /\ ChoiceInv
    BY DEF BookInv
  <1>1. /\ writer' \in [Writers -> WriterRecord] /\ writer'[w] = context
        /\ \A o \in Writers : o # w => writer'[o] = writer[o]
    BY <1>0 DEF BookTypeOK
  <1>2. BookTypeOK'
    BY <1>0, <1>1 DEF BookTypeOK, Busy
  <1>3. /\ Dated' = Dated /\ Book' = Book /\ Defaults' = Defaults /\ Oldest' = Oldest
    BY DEF Dated, Book, Defaults, Oldest
  <1>4. AgesInv'
    BY <1>0, <1>3 DEF AgesInv
  <1>5. OwnInv'
    BY <1>0, <1>1, <1>3 DEF OwnInv, Busy
  <1>6. \A o \in Writers : o # w => ReadsHold(o)' = ReadsHold(o)
    BY <1>1, <1>3 DEF ReadsHold
  <1>7. ChoiceInv'
    BY <1>0, <1>1, <1>3, <1>6 DEF ChoiceInv, Busy, Promoted
  <1>8. QED BY <1>2, <1>4, <1>5, <1>7 DEF BookInv

\* A request that writes: the others have read before it, and it goes no further than
\* the choice of a successor.
MayWrite(w, context, rows) ==
  /\ context \in WriterRecord /\ rows \in [Addresses -> AddressRow]
  /\ BookWrites(w, context, rows) /\ Busy(w)
  /\ context.at \in {"idle", "promote"} /\ (context.at = "promote" => context.id = writer[w].id)
  /\ forsaken' \in BOOLEAN
  /\ AgesInv' /\ Dated' \subseteq Dated \cup {writer[w].id}
  /\ ~ raced /\ ~ writer[w].stale =>
       /\ AtMostOne(Defaults)'
       /\ context.at = "promote" => Defaults' = {}
       /\ ~ forsaken' /\ context.at # "promote" /\ (\A o \in Writers : o # w => writer[o].at # "promote")
            => (Book' # {} => Defaults' # {})

LEMMA WritingKeeps ==
  ASSUME BookInv, NEW w \in Writers, NEW context, NEW rows, MayWrite(w, context, rows)
  PROVE  BookInv'
  <1> USE DEF MayWrite
  <1>0. BookTypeOK /\ OwnInv /\ ChoiceInv
    BY DEF BookInv
  <1>1. /\ book' = rows
        /\ writer' = [o \in Writers |->
             IF o = w THEN context
             ELSE IF writer[o].at = "idle" THEN writer[o] ELSE [writer[o] EXCEPT !.stale = TRUE]]
        /\ raced' = (raced \/ writer[w].stale)
    BY DEF BookWrites
  <1>2. /\ writer' \in [Writers -> WriterRecord] /\ writer'[w] = context
        /\ \A o \in Writers : o # w =>
             /\ writer'[o].at = writer[o].at /\ writer'[o].id = writer[o].id
             /\ Busy(o) => writer'[o].stale
    BY <1>0, <1>1 DEF BookTypeOK, WriterRecord, Busy
  <1>3. BookTypeOK'
    <2>1. raced' \in BOOLEAN
      BY <1>0, <1>1 DEF BookTypeOK, WriterRecord
    <2>2. QED BY <1>0, <1>1, <1>2, <2>1 DEF BookTypeOK, Busy
  <1>4. OwnInv'
    <2> SUFFICES ASSUME NEW o \in Writers, writer'[o].at \in {"create", "insert"}
                 PROVE  /\ writer'[o].id \notin Dated'
                        /\ \A q \in Writers : q # o /\ Busy(q)' => writer'[q].id # writer'[o].id
      BY DEF OwnInv
    <2>1. o # w /\ writer'[o].id = writer[o].id /\ writer[o].at \in {"create", "insert"}
      BY <1>2
    <2>2. writer[o].id \notin Dated /\ writer[w].id # writer[o].id
      BY <1>0, <2>1 DEF OwnInv
    <2>3. ASSUME NEW q \in Writers, q # o, Busy(q)' PROVE writer'[q].id # writer'[o].id
      <3>1. CASE q # w
        BY <1>0, <1>2, <2>1, <2>3, <3>1 DEF OwnInv, Busy
      <3>2. CASE q = w
        BY <1>2, <2>1, <2>2, <2>3, <3>2 DEF Busy
      <3>3. QED BY <3>1, <3>2
    <2>4. QED BY <2>1, <2>2, <2>3
  <1>5. ChoiceInv'
    <2> SUFFICES ASSUME ~ raced'
                 PROVE  /\ AtMostOne(Defaults)'
                        /\ \A o \in Writers : Busy(o)' /\ ~ writer'[o].stale => ReadsHold(o)'
                        /\ ~ forsaken' /\ Promoted' => (Book' # {} => Defaults' # {})
      BY DEF ChoiceInv
    <2>1. ~ raced /\ ~ writer[w].stale
      BY <1>1
    <2>2. \A o \in Writers : Busy(o)' /\ ~ writer'[o].stale => o = w
      BY <1>2 DEF Busy
    <2>3. context.at = "promote" => ReadsHold(w)'
      BY <1>2, <2>1 DEF ReadsHold
    <2>4. Promoted' => context.at # "promote" /\ \A o \in Writers : o # w => writer[o].at # "promote"
      BY <1>2 DEF Promoted
    <2>5. QED BY <1>2, <2>1, <2>2, <2>3, <2>4 DEF Busy
  <1>6. QED BY <1>3, <1>4, <1>5 DEF BookInv

\* The fields of the contexts the requests start from.
LEMMA ContextFields ==
  /\ NoRead \in WriterRecord /\ NoRead.at = "idle" /\ NoRead.stale = FALSE /\ NoRead.cleared = {}
  BY DEF NoRead, WriterRecord, WriterStages

LEMMA CreateKeeps ==
  ASSUME BookInv, NEW w \in Writers, NEW a \in Addresses, NEW asked \in BOOLEAN, create(w, a, asked)
  PROVE  BookInv'
  <1> DEFINE d == asked \/ Defaults = {}
             context == [NoRead EXCEPT !.at = "create", !.id = a, !.default = d]
  <1>1. /\ book[a].age = 0 /\ \A o \in Writers : writer[o].id # a
        /\ writer[w].at = "idle" /\ writer' = [writer EXCEPT ![w] = context]
        /\ UNCHANGED <<book, forsaken, raced>>
    BY DEF create, BookReads
  <1>2. /\ context \in WriterRecord /\ context.at = "create" /\ context.id = a /\ context.default = d
    <2>1. d \in BOOLEAN /\ "create" \in WriterStages
      BY DEF WriterStages
    <2> HIDE DEF d
    <2>2. QED BY <2>1, ContextFields DEF WriterRecord
  <1>3. a \notin Dated
    BY <1>1 DEF Dated
  <1>4. writer'[w] = context /\ writer \in [Writers -> WriterRecord] /\ forsaken \in BOOLEAN
    BY <1>1 DEF BookInv, BookTypeOK
  <1>5. ReadsHold(w)'
    <2>1. ~ d => Defaults # {}
      OBVIOUS
    <2>2. Defaults' = Defaults
      BY <1>1 DEF Defaults, Book
    <2> HIDE DEF context, d
    <2>3. QED BY <1>2, <1>4, <2>1, <2>2 DEF ReadsHold
  <1> HIDE DEF context
  <1>6. MayRead(w, context)
    BY <1>1, <1>2, <1>3, <1>4, <1>5 DEF MayRead
  <1>7. QED BY <1>6, ReadingKeeps

LEMMA UpdateKeeps ==
  ASSUME BookInv, NEW w \in Writers, NEW a \in Addresses, NEW asked \in BOOLEAN, update(w, a, asked)
  PROVE  BookInv'
  <1> DEFINE context == [NoRead EXCEPT !.at = "update", !.id = a, !.default = asked]
  <1>1. /\ a \in Book /\ writer[w].at = "idle" /\ writer' = [writer EXCEPT ![w] = context]
        /\ UNCHANGED <<book, forsaken, raced>>
    BY DEF update, BookReads
  <1>2. /\ context \in WriterRecord /\ context.at = "update" /\ context.id = a
    BY ContextFields DEF WriterStages, WriterRecord
  <1>3. a \in Dated
    BY <1>1 DEF BookInv, AgesInv, Book
  <1>4. writer'[w] = context /\ forsaken \in BOOLEAN
    BY <1>1 DEF BookInv, BookTypeOK
  <1> HIDE DEF context
  <1>5. ReadsHold(w)'
    BY <1>2, <1>4 DEF ReadsHold
  <1>6. MayRead(w, context)
    BY <1>1, <1>2, <1>3, <1>4, <1>5 DEF MayRead, BookInv, OwnInv
  <1>7. QED BY <1>6, ReadingKeeps

LEMMA RemoveKeeps ==
  ASSUME BookInv, NEW w \in Writers, NEW a \in Addresses, remove(w, a)
  PROVE  BookInv'
  <1> DEFINE stage == IF book[a].used THEN "demote" ELSE "delete"
             context == [NoRead EXCEPT !.at = stage, !.id = a, !.default = book[a].isDefault]
  <1>1. /\ a \in Book /\ writer[w].at = "idle" /\ writer' = [writer EXCEPT ![w] = context]
        /\ UNCHANGED <<book, forsaken, raced>>
    BY DEF remove, BookReads
  <1>0. book[a].isDefault \in BOOLEAN /\ writer \in [Writers -> WriterRecord] /\ forsaken \in BOOLEAN
    BY DEF BookInv, BookTypeOK, AddressRow
  <1>2. /\ context \in WriterRecord /\ context.at \in {"demote", "delete"} /\ context.id = a
        /\ context.default = book[a].isDefault
    BY <1>0, ContextFields DEF WriterStages, WriterRecord
  <1>3. a \in Dated
    BY <1>1 DEF BookInv, AgesInv, Book
  <1>4. writer'[w] = context
    BY <1>0, <1>1
  <1>5. a \in Book' /\ (a \in Defaults' <=> book[a].isDefault)
    BY <1>1 DEF Defaults, Book
  <1> HIDE DEF context
  <1>6. ReadsHold(w)'
    BY <1>0, <1>2, <1>4, <1>5 DEF ReadsHold
  <1>7. MayRead(w, context)
    BY <1>0, <1>1, <1>2, <1>3, <1>4, <1>6 DEF MayRead, BookInv, OwnInv
  <1>8. QED BY <1>7, ReadingKeeps

LEMMA ClearDefaultsKeeps ==
  ASSUME BookInv, NEW w \in Writers, clearDefaults(w)
  PROVE  BookInv'
  <1> DEFINE stage == IF writer[w].at = "create" THEN "insert" ELSE "rewrite"
             cleared == IF writer[w].default THEN Defaults \ {writer[w].id} ELSE {}
             context == [writer[w] EXCEPT !.at = stage, !.cleared = cleared]
  <1>0. /\ writer \in [Writers -> WriterRecord] /\ writer[w] \in WriterRecord /\ forsaken \in BOOLEAN
        /\ OwnInv /\ ChoiceInv
        /\ Busy(w) => writer[w].id \in Addresses
    BY DEF BookInv, BookTypeOK
  <1>1. /\ writer[w].at \in {"create", "update"} /\ writer' = [writer EXCEPT ![w] = context]
        /\ UNCHANGED <<book, forsaken, raced>>
    BY <1>0 DEF clearDefaults
  <1>2. /\ context \in WriterRecord /\ context.at = stage /\ context.cleared = cleared
        /\ context.id = writer[w].id /\ context.default = writer[w].default
        /\ context.stale = writer[w].stale
    <2>1. stage \in WriterStages /\ cleared \in SUBSET Addresses
      BY DEF WriterStages, Defaults, Book
    <2> HIDE DEF stage, cleared
    <2>2. QED BY <1>0, <2>1 DEF WriterRecord
  <1>3. writer'[w] = context
    BY <1>0, <1>1
  <1>4. Defaults' = Defaults
    BY <1>1 DEF Defaults, Book
  <1>5. stage = "insert" => writer[w].at = "create"
    OBVIOUS
  <1>6. ~ context.stale /\ ~ raced => ReadsHold(w)'
    <2> SUFFICES ASSUME ~ context.stale, ~ raced PROVE ReadsHold(w)'
      OBVIOUS
    <2>1. writer[w].at = "create" /\ ~ writer[w].default => Defaults # {}
      BY <1>0, <1>1, <1>2 DEF ChoiceInv, ReadsHold, Busy
    <2>2. cleared = IF writer[w].default THEN Defaults \ {writer[w].id} ELSE {}
      OBVIOUS
    <2>3. stage \in {"insert", "rewrite"}
      OBVIOUS
    <2> HIDE DEF context, cleared, stage
    <2>4. QED BY <1>2, <1>3, <1>4, <1>5, <2>1, <2>2, <2>3 DEF ReadsHold
  <1>7. \A o \in Writers : o # w /\ writer[o].at \in {"create", "insert"} => writer[o].id # writer[w].id
    BY <1>0, <1>1 DEF OwnInv, Busy
  <1>8. stage = "insert" => /\ writer[w].id \notin Dated
                            /\ \A o \in Writers : o # w /\ Busy(o) => writer[o].id # writer[w].id
    BY <1>0, <1>5 DEF OwnInv
  <1>9. stage \notin {"create", "idle"}
    OBVIOUS
  <1> HIDE DEF context, stage, cleared
  <1>10. MayRead(w, context)
    BY <1>0, <1>1, <1>2, <1>3, <1>6, <1>7, <1>8, <1>9 DEF MayRead, Busy
  <1>11. QED BY <1>10, ReadingKeeps

LEMMA DroppedKeeps ==
  ASSUME BookInv, NEW w \in Writers, Busy(w),
         writer' = [writer EXCEPT ![w] = NoRead], UNCHANGED <<book, raced>>,
         forsaken' = (forsaken \/ writer[w].at = "promote")
  PROVE  BookInv'
  <1>1. forsaken' \in BOOLEAN
    OBVIOUS
  <1>2. MayRead(w, NoRead)
    BY <1>1, ContextFields DEF MayRead
  <1>3. QED BY <1>2, ReadingKeeps

LEMMA SameAges ==
  ASSUME BookInv, book' \in [Addresses -> AddressRow],
         \A a \in Addresses : /\ book'[a].age = book[a].age
                              /\ book'[a].exists => book[a].exists
                              /\ book'[a].used => book[a].used /\ book'[a].exists
  PROVE  AgesInv' /\ Dated' = Dated
  <1>1. Dated' = Dated
    BY DEF Dated
  <1>2. Oldest' = Oldest
    BY <1>1 DEF Oldest, Dated
  <1>3. AgesInv
    BY DEF BookInv
  <1>4. \A a \in Addresses : (book'[a].exists => a \in Dated') /\ book'[a].age <= Oldest'
    BY <1>1, <1>2, <1>3 DEF AgesInv
  <1>5. \A a, b \in Dated' : a # b => book'[a].age # book'[b].age
    BY <1>1, <1>3 DEF AgesInv, Dated
  <1>6. \A a \in Addresses : book'[a].used => a \in Book'
    BY DEF Book
  <1>7. QED BY <1>1, <1>3, <1>4, <1>5, <1>6 DEF AgesInv


\* What a request knows before its statement, unless another has written since.
LEMMA KnowsBefore ==
  ASSUME BookInv, NEW w \in Writers, Busy(w), ~ raced, ~ writer[w].stale
  PROVE  AtMostOne(Defaults) /\ ReadsHold(w)
  BY DEF BookInv, ChoiceInv

LEMMA CommitKeeps ==
  ASSUME BookInv, NEW w \in Writers, commitAddress(w)
  PROVE  BookInv'
  <1> DEFINE id == writer[w].id
             rows == [a \in Addresses |->
                        IF a = id THEN Written(w)
                        ELSE [book[a] EXCEPT !.isDefault = @ /\ a \notin writer[w].cleared]]
  <1>0. /\ BookTypeOK /\ AgesInv /\ OwnInv /\ ChoiceInv
        /\ book \in [Addresses -> AddressRow] /\ writer[w] \in WriterRecord
        /\ writer[w].default \in BOOLEAN /\ forsaken \in BOOLEAN
    BY DEF BookInv, BookTypeOK, WriterRecord
  <1>1. /\ writer[w].at = "insert" \/ (writer[w].at = "rewrite" /\ id \in Book)
        /\ BookWrites(w, NoRead, rows) /\ book' = rows
        /\ forsaken' = (forsaken /\ ~ writer[w].default)
    BY DEF commitAddress, BookWrites
  <1>2. Busy(w) /\ id \in Addresses /\ Oldest \in Nat
    BY <1>0, <1>1, FS_CardinalityType DEF Busy, BookTypeOK, AgesInv, Oldest, Dated
  <1>3. /\ Written(w) \in AddressRow /\ Written(w).exists
        /\ Written(w).isDefault = IF writer[w].at = "insert" THEN writer[w].default
                                  ELSE book[id].isDefault \/ writer[w].default
        /\ Written(w).age = IF writer[w].at = "insert" THEN Oldest + 1 ELSE book[id].age
    <2>1. CASE writer[w].at = "insert"
      <3>1. Unwrote \in AddressRow /\ Oldest + 1 \in Nat
        BY <1>2 DEF Unwrote, AddressRow
      <3>2. Written(w) = [Unwrote EXCEPT !.exists = TRUE, !.isDefault = writer[w].default, !.age = Oldest + 1]
        BY <2>1 DEF Written
      <3>3. QED BY <1>0, <2>1, <3>1, <3>2 DEF AddressRow
    <2>2. CASE writer[w].at = "rewrite"
      <3>1. book[id] \in AddressRow /\ book[id].exists
        BY <1>0, <1>1, <1>2, <2>2 DEF Book
      <3>2. Written(w) = [book[id] EXCEPT !.isDefault = book[id].isDefault \/ writer[w].default]
        BY <2>2, <3>1 DEF Written, AddressRow
      <3>3. book[id].isDefault \/ writer[w].default \in BOOLEAN
        BY <1>0, <3>1 DEF AddressRow
      <3>4. QED BY <2>2, <3>1, <3>2, <3>3 DEF AddressRow
    <2>3. QED BY <1>1, <2>1, <2>2
  <1>4. \A a \in Addresses : a # id =>
          /\ rows[a] \in AddressRow
          /\ rows[a].exists = book[a].exists /\ rows[a].used = book[a].used /\ rows[a].age = book[a].age
          /\ rows[a].isDefault = (book[a].isDefault /\ a \notin writer[w].cleared)
    BY <1>0 DEF AddressRow
  <1>5. rows[id] = Written(w)
    BY <1>2
  <1>6. rows \in [Addresses -> AddressRow]
    <2>1. \A a \in Addresses : rows[a] \in AddressRow
      <3> HIDE DEF rows
      <3> QED BY <1>3, <1>4, <1>5
    <2>2. QED BY <2>1
  <1>7. writer[w].at = "insert" => id \notin Dated /\ id \notin Book
    BY <1>0, <1>2 DEF OwnInv, AgesInv, Book
  <1> HIDE DEF rows
  <1>8. Book' = Book \cup {id}
    BY <1>1, <1>2, <1>3, <1>4, <1>5 DEF Book
  <1>9. AgesInv' /\ Dated' \subseteq Dated \cup {id}
    <2>1. CASE writer[w].at = "rewrite"
      <3>1. \A a \in Addresses : /\ book'[a].age = book[a].age
                                 /\ book'[a].exists => book[a].exists
                                 /\ book'[a].used => book[a].used /\ book'[a].exists
        <4>1. Written(w).used = book[id].used
          BY <1>0, <1>2, <2>1 DEF Written, AddressRow
        <4>2. book[id].exists
          BY <1>1, <2>1 DEF Book
        <4>3. \A a \in Addresses : book[a].used => book[a].exists
          BY <1>0 DEF AgesInv, Book
        <4>4. QED BY <1>1, <1>3, <1>4, <1>5, <2>1, <4>1, <4>2, <4>3
      <3>2. QED BY <1>1, <1>6, <3>1, SameAges
    <2>2. CASE writer[w].at = "insert"
      <3>1. Written(w).age = Oldest + 1 /\ ~ Written(w).used
        BY <1>3, <2>2 DEF Written, Unwrote
      <3>2. Dated' = Dated \cup {id}
        BY <1>1, <1>2, <1>4, <1>5, <3>1 DEF Dated
      <3>3. IsFiniteSet(Dated') /\ Oldest' = Oldest + 1
        <4>1. Oldest = Cardinality(Dated) /\ Oldest' = Cardinality(Dated') /\ IsFiniteSet(Dated)
          BY <1>0 DEF AgesInv, Oldest, Dated
        <4>2. QED BY <1>7, <2>2, <3>2, <4>1, FS_AddElement
      <3>4. \A a \in Addresses : a # id => book[a].age \in Nat /\ book[a].age <= Oldest
        BY <1>0 DEF AgesInv, AddressRow
      <3>5. \A a \in Addresses : book'[a].age <= Oldest'
        BY <1>1, <1>2, <1>4, <1>5, <3>1, <3>3, <3>4
      <3>6. \A a \in Addresses : book'[a].exists => a \in Dated'
        BY <1>0, <1>1, <1>4, <3>2 DEF AgesInv
      <3>7. \A a, b \in Dated' : a # b => book'[a].age # book'[b].age
        <4> SUFFICES ASSUME NEW a \in Dated', NEW b \in Dated', a # b PROVE book'[a].age # book'[b].age
          OBVIOUS
        <4>1. a \in Addresses /\ b \in Addresses
          BY <1>2, <3>2 DEF Dated
        <4>2. CASE a # id /\ b # id
          BY <1>0, <1>1, <1>4, <3>2, <4>1, <4>2 DEF AgesInv
        <4>3. CASE a = id
          BY <1>1, <1>2, <1>4, <1>5, <3>1, <3>4, <4>1, <4>3
        <4>4. CASE b = id
          BY <1>1, <1>2, <1>4, <1>5, <3>1, <3>4, <4>1, <4>4
        <4>5. QED BY <4>2, <4>3, <4>4
      <3>8. \A a \in Addresses : book'[a].used => a \in Book'
        BY <1>0, <1>1, <1>4, <1>5, <1>8, <3>1 DEF AgesInv
      <3>9. QED BY <3>2, <3>3, <3>5, <3>6, <3>7, <3>8 DEF AgesInv
    <2>3. QED BY <1>1, <2>1, <2>2
  <1>10. ASSUME ~ raced, ~ writer[w].stale
         PROVE  /\ AtMostOne(Defaults)'
                /\ ~ forsaken' /\ (\A o \in Writers : o # w => writer[o].at # "promote")
                     => (Book' # {} => Defaults' # {})
    <2>1. /\ AtMostOne(Defaults)
          /\ writer[w].cleared = IF writer[w].default THEN Defaults \ {id} ELSE {}
          /\ writer[w].at = "insert" /\ ~ writer[w].default => Defaults # {}
      BY <1>1, <1>2, <1>10, KnowsBefore DEF ReadsHold
    <2>2. \A a \in Addresses : a # id => (a \in Defaults' <=> a \in Defaults /\ a \notin writer[w].cleared)
      BY <1>1, <1>4 DEF Defaults, Book
    <2>3. id \in Defaults' <=> writer[w].default \/ id \in Defaults
      BY <1>1, <1>2, <1>3, <1>5, <1>7 DEF Defaults, Book
    <2>4. Defaults \subseteq Addresses /\ Defaults' \subseteq Addresses
      BY DEF Defaults, Book
    <2>5. CASE writer[w].default
      <3>1. Defaults' = {id}
        BY <1>2, <2>1, <2>2, <2>3, <2>4, <2>5
      <3>2. QED BY <3>1 DEF AtMostOne
    <2>6. CASE ~ writer[w].default
      <3>1. Defaults' = Defaults
        BY <1>2, <2>1, <2>2, <2>3, <2>4, <2>6
      <3>2. AtMostOne(Defaults)'
        BY <2>1, <3>1 DEF AtMostOne
      <3>3. ~ forsaken' => ~ forsaken
        BY <1>1, <2>6
      <3>4. writer[w].at # "promote"
        BY <1>1
      <3>5. writer[w].at = "insert" => Defaults # {}
        BY <2>1, <2>6
      <3>6. writer[w].at = "rewrite" => Book # {}
        BY <1>1
      <3>7. QED BY <1>0, <1>1, <1>10, <3>1, <3>2, <3>3, <3>4, <3>5, <3>6 DEF ChoiceInv, Promoted
    <2>7. QED BY <1>0, <2>5, <2>6
  <1>11. MayWrite(w, NoRead, rows)
    BY <1>0, <1>1, <1>2, <1>6, <1>9, <1>10, ContextFields DEF MayWrite
  <1>12. QED BY <1>11, WritingKeeps

LEMMA DemoteKeeps ==
  ASSUME BookInv, NEW w \in Writers, demote(w)
  PROVE  BookInv'
  <1> DEFINE id == writer[w].id
             rows == [book EXCEPT ![id].isDefault = FALSE]
  <1>0. /\ book \in [Addresses -> AddressRow] /\ Busy(w) /\ forsaken \in BOOLEAN
    BY DEF BookInv, BookTypeOK, demote, Busy
  <1>1. CASE writer[w].default
    <2>1. id \in Book /\ BookWrites(w, NoRead, rows) /\ book' = rows /\ forsaken' = TRUE
      BY <1>1 DEF demote, BookWrites
    <2>2. /\ rows \in [Addresses -> AddressRow]
          /\ \A a \in Addresses :
               /\ rows[a].exists = book[a].exists /\ rows[a].used = book[a].used
               /\ rows[a].age = book[a].age
               /\ rows[a].isDefault => book[a].isDefault
      BY <1>0 DEF AddressRow
    <2> HIDE DEF rows
    <2>3. \A a \in Addresses : book[a].used => book[a].exists
      BY DEF BookInv, AgesInv, Book
    <2>4. AgesInv' /\ Dated' = Dated
      BY <2>1, <2>2, <2>3, SameAges
    <2>5. Defaults' \subseteq Defaults
      BY <2>1, <2>2 DEF Defaults, Book
    <2>6. ~ raced /\ ~ writer[w].stale => AtMostOne(Defaults)'
      BY <1>0, <2>5, KnowsBefore DEF AtMostOne
    <2>7. MayWrite(w, NoRead, rows)
      BY <1>0, <2>1, <2>2, <2>4, <2>6, ContextFields DEF MayWrite
    <2>8. QED BY <2>7, WritingKeeps
  <1>2. CASE ~ writer[w].default
    BY <1>0, <1>2, DroppedKeeps DEF demote
  <1>3. QED BY <1>1, <1>2

LEMMA DeleteKeeps ==
  ASSUME BookInv, NEW w \in Writers, deleteAddress(w)
  PROVE  BookInv'
  <1> DEFINE id == writer[w].id
             row == [Unwrote EXCEPT !.age = book[id].age]
             rows == [book EXCEPT ![id] = row]
             context == IF writer[w].default THEN [writer[w] EXCEPT !.at = "promote"] ELSE NoRead
  <1>0. /\ book \in [Addresses -> AddressRow] /\ writer[w] \in WriterRecord /\ Busy(w)
        /\ forsaken \in BOOLEAN /\ id \in Addresses
        /\ AgesInv /\ ChoiceInv
    BY DEF BookInv, BookTypeOK, deleteAddress, Busy, Book
  <1>1. /\ writer[w].at = "delete" /\ id \in Book
        /\ BookWrites(w, context, rows) /\ book' = rows /\ forsaken' = forsaken
    BY DEF deleteAddress, BookWrites
  <1>2. row \in AddressRow /\ ~ row.exists /\ ~ row.used /\ row.age = book[id].age
    BY <1>0 DEF Unwrote, AddressRow
  <1>3. /\ context \in WriterRecord /\ context.at = IF writer[w].default THEN "promote" ELSE "idle"
        /\ context.at = "promote" => context.id = id
    BY <1>0, ContextFields DEF WriterRecord, WriterStages
  <1> HIDE DEF row, context
  <1>4. /\ rows \in [Addresses -> AddressRow]
        /\ \A a \in Addresses : rows[a] = IF a = id THEN row ELSE book[a]
    BY <1>0, <1>2
  <1> HIDE DEF rows
  <1>5. \A a \in Addresses : book[a].used => book[a].exists
    BY <1>0 DEF AgesInv, Book
  <1>6. AgesInv' /\ Dated' = Dated
    <2>1. \A a \in Addresses : /\ book'[a].age = book[a].age
                               /\ book'[a].exists => book[a].exists
                               /\ book'[a].used => book[a].used /\ book'[a].exists
      BY <1>1, <1>2, <1>4, <1>5
    <2>2. QED BY <1>1, <1>4, <2>1, SameAges
  <1>7. Book' = Book \ {id} /\ Defaults' = Defaults \ {id}
    BY <1>1, <1>2, <1>4 DEF Defaults, Book
  <1>8. ASSUME ~ raced, ~ writer[w].stale
        PROVE  /\ AtMostOne(Defaults)'
               /\ writer[w].default => Defaults' = {}
               /\ ~ writer[w].default => Defaults' = Defaults
    <2>1. AtMostOne(Defaults) /\ writer[w].default = (id \in Defaults)
      BY <1>0, <1>1, <1>8, KnowsBefore DEF ReadsHold
    <2>2. QED BY <1>7, <2>1 DEF AtMostOne
  <1>9. ASSUME ~ raced, ~ writer[w].stale, ~ forsaken', ~ writer[w].default,
               \A o \in Writers : o # w => writer[o].at # "promote"
        PROVE  Book' # {} => Defaults' # {}
    BY <1>0, <1>1, <1>7, <1>8, <1>9 DEF ChoiceInv, Promoted
  <1>10. MayWrite(w, context, rows)
    BY <1>0, <1>1, <1>3, <1>4, <1>6, <1>8, <1>9 DEF MayWrite
  <1>11. QED BY <1>10, WritingKeeps

LEMMA PromoteKeeps ==
  ASSUME BookInv, NEW w \in Writers, promoteNewest(w)
  PROVE  BookInv'
  <1> DEFINE rows == [a \in Addresses |->
                        IF a \in Newest THEN [book[a] EXCEPT !.isDefault = TRUE] ELSE book[a]]
  <1>0. /\ book \in [Addresses -> AddressRow] /\ Busy(w) /\ forsaken \in BOOLEAN
        /\ AgesInv /\ writer[w].at = "promote"
    BY DEF BookInv, BookTypeOK, promoteNewest, Busy
  <1>1. BookWrites(w, NoRead, rows) /\ book' = rows /\ forsaken' = (forsaken /\ Newest = {})
    BY DEF promoteNewest, BookWrites
  <1>2. /\ rows \in [Addresses -> AddressRow]
        /\ \A a \in Addresses :
             /\ rows[a].exists = book[a].exists /\ rows[a].used = book[a].used
             /\ rows[a].age = book[a].age
             /\ rows[a].isDefault = (book[a].isDefault \/ a \in Newest)
    BY <1>0 DEF AddressRow
  <1> HIDE DEF rows
  <1>3. \A a \in Addresses : book[a].used => book[a].exists
    BY <1>0 DEF AgesInv, Book
  <1>4. AgesInv' /\ Dated' = Dated
    BY <1>1, <1>2, <1>3, SameAges
  <1>5. Book' = Book /\ Defaults' = Defaults \cup Newest
    BY <1>1, <1>2 DEF Defaults, Book, Newest
  <1>6. AtMostOne(Newest)
    <2> SUFFICES ASSUME NEW a \in Newest, NEW b \in Newest, a # b PROVE FALSE
      BY DEF AtMostOne
    <2>1. a \in Dated /\ b \in Dated /\ book[a].age \in Nat /\ book[b].age \in Nat
      BY <1>0 DEF Newest, Book, AgesInv, AddressRow
    <2>2. book[a].age <= book[b].age /\ book[b].age <= book[a].age
      BY DEF Newest
    <2>3. QED BY <1>0, <2>1, <2>2 DEF AgesInv
  <1>7. ~ raced /\ ~ writer[w].stale => AtMostOne(Defaults)'
    BY <1>0, <1>5, <1>6, KnowsBefore DEF AtMostOne, ReadsHold
  <1>8. Book' # {} => Defaults' # {}
    BY <1>5, NewestIsThere
  <1>9. MayWrite(w, NoRead, rows)
    BY <1>0, <1>1, <1>2, <1>4, <1>7, <1>8, ContextFields DEF MayWrite
  <1>10. QED BY <1>9, WritingKeeps

LEMMA OrderToKeeps ==
  ASSUME BookInv, NEW a \in Addresses, orderTo(a)
  PROVE  BookInv'
  <1>0. BookTypeOK /\ AgesInv /\ OwnInv /\ ChoiceInv /\ book \in [Addresses -> AddressRow]
    BY DEF BookInv, BookTypeOK
  <1>1. /\ a \in Book /\ book' = [book EXCEPT ![a].used = TRUE]
        /\ UNCHANGED <<writer, forsaken, raced>>
    BY DEF orderTo
  <1>2. /\ book' \in [Addresses -> AddressRow]
        /\ \A b \in Addresses :
             /\ book'[b].exists = book[b].exists /\ book'[b].isDefault = book[b].isDefault
             /\ book'[b].age = book[b].age /\ (book'[b].used => book[b].used \/ b = a)
    BY <1>0, <1>1 DEF AddressRow
  <1>3. Dated' = Dated /\ Book' = Book /\ Defaults' = Defaults
    BY <1>2 DEF Dated, Book, Defaults
  <1>4. Oldest' = Oldest
    BY <1>3 DEF Oldest, Dated
  <1>5. AgesInv'
    <2>1. \A b \in Addresses : (book'[b].exists => b \in Dated') /\ book'[b].age <= Oldest'
      BY <1>0, <1>2, <1>3, <1>4 DEF AgesInv
    <2>2. \A b, c \in Dated' : b # c => book'[b].age # book'[c].age
      BY <1>0, <1>2, <1>3 DEF AgesInv, Dated
    <2>3. \A b \in Addresses : book'[b].used => b \in Book'
      BY <1>0, <1>1, <1>2, <1>3 DEF AgesInv
    <2>4. QED BY <1>0, <1>3, <2>1, <2>2, <2>3 DEF AgesInv
  <1>6. BookTypeOK'
    BY <1>0, <1>1, <1>2 DEF BookTypeOK, Busy
  <1>7. OwnInv'
    BY <1>0, <1>1, <1>3 DEF OwnInv, Busy
  <1>8. \A w \in Writers : ReadsHold(w)' = ReadsHold(w)
    BY <1>1, <1>3 DEF ReadsHold
  <1>9. ChoiceInv'
    BY <1>0, <1>1, <1>3, <1>8 DEF ChoiceInv, Busy, Promoted
  <1>10. QED BY <1>5, <1>6, <1>7, <1>9 DEF BookInv

LEMMA BookStep == BookInv /\ [BookNext]_bookVars => BookInv'
  <1> SUFFICES ASSUME BookInv, [BookNext]_bookVars PROVE BookInv'
    OBVIOUS
  <1>1. CASE UNCHANGED bookVars
    BY <1>1 DEF bookVars, BookInv, BookTypeOK, AgesInv, OwnInv, ChoiceInv, Busy, Dated, Oldest, Book,
                Defaults, ReadsHold, Promoted, AtMostOne
  <1>2. ASSUME NEW w \in Writers, addressFails(w) PROVE BookInv'
    BY <1>2, DroppedKeeps DEF addressFails, Busy
  <1>3. CASE BookNext
    BY <1>2, <1>3, CreateKeeps, UpdateKeeps, RemoveKeeps, ClearDefaultsKeeps, CommitKeeps, DemoteKeeps,
       DeleteKeeps, PromoteKeeps, OrderToKeeps DEF BookNext
  <1>4. QED BY <1>1, <1>3

(* The rows of the addresses and the requests that write them keep their    *)
(* shape.                                                                   *)
THEOREM BookTypeCorrectness == BookSpec => []BookTypeOK
  <1>1. BookInv => BookTypeOK
    BY DEF BookInv
  <1>2. QED BY <1>1, BookStart, BookStep, PTL DEF BookSpec

(* AddressesService, for any number of addresses and of requests at once:   *)
(* one default and no other, but for the three ways the code breaks it,     *)
(* and no address in use is removed.                                        *)
THEOREM BooksHaveOneDefault == BookSpec => []OneDefaultAddress
  <1>1. BookInv => OneDefaultAddress
    <2> SUFFICES ASSUME BookInv PROVE OneDefaultAddress
      OBVIOUS
    <2>1. AtMostOne(Defaults) => Cardinality(Defaults) <= 1
      <3> SUFFICES ASSUME AtMostOne(Defaults) PROVE Cardinality(Defaults) <= 1
        OBVIOUS
      <3>1. CASE Defaults = {}
        BY <3>1, FS_EmptySet
      <3>2. CASE Defaults # {}
        <4>1. PICK a : Defaults = {a}
          BY <3>2 DEF AtMostOne
        <4>2. QED BY <4>1, FS_Singleton
      <3>3. QED BY <3>1, <3>2
    <2>2. QED BY <2>1 DEF BookInv, ChoiceInv, AgesInv, Promoted, OneDefaultAddress
  <1>2. QED BY <1>1, BookStart, BookStep, PTL DEF BookSpec

-----------------------------------------------------------------------------
(* Referrals.  ClosingOK says what a transaction that closes a run knows at  *)
(* each statement, and that two of one buyer are told of in `overlapped`;    *)
(* AccountsOK says that nobody is his own referrer, through whatever chain,  *)
(* for who registers names somebody who was there before him.               *)

AccountRow ==
  [exists : BOOLEAN, referredBy : Users \cup {NoReferrer}, rewarded : BOOLEAN, credit : Nat]

ClosingRow ==
  [at : {"idle", "read", "written", "counts", "marks", "marked", "done"},
   order : Orders \cup {"none"}]

ReferralTypeOK ==
  /\ account \in [Users -> AccountRow]
  /\ orderRow \in [Orders -> {"road", "delivered", "moved on"}]
  /\ closing \in [Closers -> ClosingRow]
  /\ rewards \in [Users -> Nat]
  /\ overlapped \subseteq Users
  /\ \A c \in Closers : closing[c].at # "idle" => closing[c].order \in Orders

\* The transaction has written its order.
Wrote(c) == closing[c].at \notin {"idle", "read"}

ClosingOK(c) ==
  /\ closing[c].at # "idle" => account[buyer(c)].exists
  /\ closing[c].at = "done" => referrer(c) = NoReferrer \/ account[buyer(c)].rewarded
  /\ closing[c].at \in {"counts", "marks", "marked"} =>
       /\ referrer(c) # NoReferrer
       /\ buyer(c) \notin overlapped => rewards[buyer(c)] = 0
  /\ Wrote(c) /\ buyer(c) \notin overlapped =>
       \A other \in Closers \ {c} : Wrote(other) => buyer(other) # buyer(c)

Registered == {u \in Users : account[u].exists}
Referees(r) == {u \in Users : account[u].referredBy = r}

AccountsOK ==
  /\ \A u \in Users : ~ account[u].exists => account[u] = Unregistered
  /\ \A u \in Users : account[u].referredBy \in Registered \cup {NoReferrer}
  /\ \A S \in SUBSET Users : S # {} => \E u \in S : account[u].referredBy \notin S
  /\ IsFiniteSet(Registered)

CreditsOK ==
  /\ \A u \in Users : account[u].rewarded <=> rewards[u] > 0
  /\ \A u \in Users \ overlapped : rewards[u] <= 1
  /\ \A r \in Users : account[r].credit = Sum(rewards, Referees(r))

OrdersOK ==
  \A o \in Orders : orderRow[o] # "road" =>
    /\ account[buyerOf[o]].exists
    /\ account[buyerOf[o]].referredBy # NoReferrer => account[buyerOf[o]].rewarded

ReferralInv ==
  /\ ReferralTypeOK
  /\ \A c \in Closers : ClosingOK(c)
  /\ AccountsOK
  /\ CreditsOK
  /\ OrdersOK

LEMMA FinishedClosing ==
  /\ Idle \in ClosingRow /\ Idle.at = "idle"
  BY DEF Idle, ClosingRow

LEMMA ReferralStart == ReferralInit => ReferralInv
  <1> SUFFICES ASSUME ReferralInit PROVE ReferralInv
    OBVIOUS
  <1>1. Unregistered \in AccountRow /\ Unregistered.referredBy = NoReferrer
        /\ Unregistered.exists = FALSE /\ Unregistered.rewarded = FALSE /\ Unregistered.credit = 0
    BY DEF Unregistered, AccountRow
  <1>2. /\ \A u \in Users : account[u] = Unregistered /\ rewards[u] = 0
        /\ \A c \in Closers : closing[c].at = "idle"
    BY FinishedClosing DEF ReferralInit
  <1>3. ReferralTypeOK
    BY <1>1, <1>2, FinishedClosing DEF ReferralInit, ReferralTypeOK
  <1>4. AccountsOK
    <2>1. Registered = {}
      BY <1>1, <1>2 DEF Registered
    <2>2. \A S \in SUBSET Users : S # {} => \E u \in S : account[u].referredBy \notin S
      BY <1>1, <1>2, ReferralAssumption
    <2>3. QED BY <1>1, <1>2, <2>1, <2>2, FS_EmptySet DEF AccountsOK
  <1>5. CreditsOK
    <2>1. \A r \in Users : Referees(r) = {}
      BY <1>1, <1>2, ReferralAssumption DEF Referees
    <2>2. \A r \in Users : Sum(rewards, Referees(r)) = 0
      BY <2>1, SumOfNone
    <2>3. QED BY <1>1, <1>2, <2>2 DEF CreditsOK
  <1>6. OrdersOK
    BY DEF ReferralInit, OrdersOK
  <1>7. QED BY <1>2, <1>3, <1>4, <1>5, <1>6 DEF ReferralInv, ClosingOK, Wrote

LEMMA RefereesAreFinite ==
  ASSUME ReferralTypeOK, AccountsOK, NEW r \in Users
  PROVE  IsFiniteSet(Referees(r)) /\ Referees(r) \subseteq Registered
  <1>1. Referees(r) \subseteq Registered
    BY ReferralAssumption DEF Referees, Registered, AccountsOK, Unregistered
  <1>2. QED BY <1>1, FS_Subset DEF AccountsOK

\* Steps that write neither an account nor a reward.
LEMMA AccountsStay ==
  ASSUME ReferralInv, account' = account, rewards' = rewards, overlapped \subseteq overlapped'
  PROVE  AccountsOK' /\ CreditsOK'
  <1>1. \A r \in Users : Referees(r)' = Referees(r)
    BY DEF Referees
  <1>2. AccountsOK'
    BY DEF ReferralInv, AccountsOK, Registered
  <1>3. CreditsOK'
    <2>1. \A r \in Users : account'[r].credit = Sum(rewards', Referees(r)')
      BY <1>1 DEF ReferralInv, CreditsOK
    <2>2. QED BY <2>1 DEF ReferralInv, CreditsOK
  <1>4. QED BY <1>2, <1>3

LEMMA OrdersStay ==
  ASSUME ReferralInv, account' = account, orderRow' = orderRow
  PROVE  OrdersOK'
  BY DEF ReferralInv, OrdersOK

\* A step of one transaction, as the others see it: they may learn that they overlap.
Unnoticed(c) ==
  \A z \in Closers \ {c} :
    Wrote(z) /\ Wrote(c)' /\ buyer(z) = buyer(c)' =>
      (Wrote(c) /\ buyer(c) = buyer(c)') \/ buyer(z) \in overlapped'

LEMMA ClosingMoves ==
  ASSUME ReferralInv, NEW c \in Closers, closing' = [closing EXCEPT ![c] = closing'[c]],
         closing'[c] \in ClosingRow, closing'[c].at # "idle" => closing'[c].order \in Orders,
         account' = account, rewards' = rewards, orderRow' = orderRow,
         overlapped' \subseteq Users, overlapped \subseteq overlapped',
         Unnoticed(c), ClosingOK(c)'
  PROVE  ReferralInv'
  <1>1. \A z \in Closers \ {c} : closing'[z] = closing[z]
    BY DEF ReferralInv, ReferralTypeOK
  <1>2. ReferralTypeOK'
    <2>1. closing' \in [Closers -> ClosingRow]
      BY DEF ReferralInv, ReferralTypeOK
    <2>2. QED BY <1>1, <2>1 DEF ReferralInv, ReferralTypeOK
  <1>3. ASSUME NEW z \in Closers, z # c PROVE ClosingOK(z)'
    <2>1. closing'[z] = closing[z] /\ ClosingOK(z)
      BY <1>1, <1>3 DEF ReferralInv
    <2>2. /\ buyer(z)' = buyer(z) /\ referrer(z)' = referrer(z) /\ (Wrote(z)' <=> Wrote(z))
      BY <2>1 DEF buyer, referrer, Wrote
    <2>3. ASSUME Wrote(z), buyer(z) \notin overlapped', NEW y \in Closers \ {z}, Wrote(y)'
          PROVE  buyer(y)' # buyer(z)
      <3>1. CASE y = c
        <4>1. ASSUME buyer(c)' = buyer(z) PROVE FALSE
          <5>1. Wrote(c) /\ buyer(c) = buyer(z)
            BY <1>3, <2>3, <3>1, <4>1 DEF Unnoticed
          <5>2. QED BY <1>3, <2>1, <2>3, <3>1, <5>1 DEF ClosingOK
        <4>2. QED BY <3>1, <4>1
      <3>2. CASE y # c
        <4>1. Wrote(y) /\ buyer(y)' = buyer(y)
          BY <1>1, <2>3, <3>2 DEF Wrote, buyer
        <4>2. QED BY <2>1, <2>3, <4>1 DEF ClosingOK
      <3>3. QED BY <3>1, <3>2
    <2>4. QED BY <2>1, <2>2, <2>3 DEF ClosingOK
  <1>4. QED BY <1>2, <1>3, AccountsStay, OrdersStay DEF ReferralInv

LEMMA RegisterStep ==
  ASSUME ReferralInv, NEW u \in Users, NEW code \in Users \cup {NoReferrer}, register(u, code)
  PROVE  ReferralInv'
  <1> DEFINE row == [Unregistered EXCEPT !.exists = TRUE, !.referredBy = code]
  <1>1. /\ ~ account[u].exists /\ (code # NoReferrer => account[code].exists)
        /\ account' = [account EXCEPT ![u] = row]
        /\ UNCHANGED <<orderRow, closing, rewards, overlapped>>
    BY DEF register
  <1>2. row \in AccountRow /\ row.exists /\ row.referredBy = code /\ ~ row.rewarded /\ row.credit = 0
    BY DEF Unregistered, AccountRow
  <1> HIDE DEF row
  <1>3. ReferralTypeOK /\ AccountsOK /\ CreditsOK /\ OrdersOK
    BY DEF ReferralInv
  <1>4. account[u] = Unregistered /\ account[u].credit = 0 /\ ~ account[u].rewarded
        /\ account[u].referredBy = NoReferrer
    <2>1. account[u] = Unregistered
      BY <1>1, <1>3 DEF AccountsOK
    <2>2. QED BY <2>1 DEF Unregistered
  <1>5. account'[u] = row /\ \A w \in Users \ {u} : account'[w] = account[w]
    BY <1>1, <1>3 DEF ReferralTypeOK
  <1>6. ReferralTypeOK'
    BY <1>1, <1>2, <1>3 DEF ReferralTypeOK
  <1>7. code # u /\ \A w \in Users : account[w].referredBy # u
    BY <1>1, <1>3, ReferralAssumption DEF AccountsOK, Registered
  <1>8. Registered' = Registered \cup {u}
    BY <1>2, <1>5 DEF Registered
  <1>9. AccountsOK'
    <2>1. IsFiniteSet(Registered')
      BY <1>3, <1>8, FS_AddElement DEF AccountsOK
    <2>2. ASSUME NEW S \in SUBSET Users, S # {} PROVE \E w \in S : account'[w].referredBy \notin S
      <3>1. CASE S = {u}
        BY <1>2, <1>5, <1>7, <3>1
      <3>2. CASE S # {u}
        <4>1. PICK w \in S \ {u} : account[w].referredBy \notin S \ {u}
          BY <1>3, <2>2, <3>2 DEF AccountsOK
        <4>2. QED BY <1>5, <1>7, <4>1
      <3>3. QED BY <3>1, <3>2
    <2>3. \A w \in Users : account'[w].referredBy \in Registered' \cup {NoReferrer}
      <3>1. code \in Registered' \cup {NoReferrer}
        BY <1>1, <1>8 DEF Registered
      <3>2. QED BY <1>2, <1>3, <1>5, <1>8, <3>1 DEF AccountsOK
    <2>4. \A w \in Users : ~ account'[w].exists => account'[w] = Unregistered
      BY <1>2, <1>3, <1>5 DEF AccountsOK
    <2>5. QED BY <2>1, <2>2, <2>3, <2>4 DEF AccountsOK
  <1>10. rewards[u] = 0
    <2>1. rewards[u] \in Nat /\ ~ (rewards[u] > 0)
      BY <1>3, <1>4 DEF CreditsOK, ReferralTypeOK
    <2>2. QED BY <2>1
  <1>11. CreditsOK'
    <2>1. ASSUME NEW r \in Users PROVE Sum(rewards, Referees(r)') = Sum(rewards, Referees(r))
      <3>1. CASE r = code
        <4>1. Referees(r)' = Referees(r) \cup {u} /\ u \notin Referees(r)
          BY <1>2, <1>4, <1>5, <3>1, ReferralAssumption DEF Referees
        <4>2. IsFiniteSet(Referees(r)')
          BY <1>3, <4>1, RefereesAreFinite, FS_AddElement
        <4>3. \A w \in Referees(r)' : rewards[w] \in Int
          <5>1. Referees(r)' \subseteq Users /\ \A w \in Users : rewards[w] \in Nat
            BY <1>3 DEF ReferralTypeOK, Referees
          <5>2. QED BY <5>1
        <4>4. u \in Referees(r)' /\ Referees(r)' \ {u} = Referees(r)
          BY <4>1
        <4>5. Sum(rewards, Referees(r)') = rewards[u] + Sum(rewards, Referees(r)' \ {u})
          BY <4>2, <4>3, <4>4, SumTakesAny
        <4>6. Sum(rewards, Referees(r)) \in Int
          BY <1>3, <4>3, <4>4, RefereesAreFinite, SumIsInteger
        <4>7. QED BY <1>10, <4>4, <4>5, <4>6
      <3>2. CASE r # code
        <4>1. Referees(r)' = Referees(r)
          BY <1>2, <1>4, <1>5, <3>2, ReferralAssumption DEF Referees
        <4>2. QED BY <4>1
      <3>3. QED BY <3>1, <3>2
    <2>2. \A r \in Users : account'[r].credit = account[r].credit
                            /\ (account'[r].rewarded <=> account[r].rewarded)
      BY <1>2, <1>4, <1>5
    <2>3. QED BY <1>1, <1>3, <2>1, <2>2 DEF CreditsOK
  <1>12. OrdersOK'
    BY <1>1, <1>3, <1>5, ReferralAssumption DEF OrdersOK
  <1>13. ASSUME NEW c \in Closers PROVE ClosingOK(c)'
    <2>1. ClosingOK(c) /\ (closing[c].at # "idle" => closing[c].order \in Orders)
      BY <1>3 DEF ReferralInv, ReferralTypeOK
    <2>2. closing[c].at # "idle" => buyer(c) \in Users \ {u}
      BY <1>1, <2>1, ReferralAssumption DEF ClosingOK, buyer
    <2>3. closing[c].at # "idle" => account'[buyer(c)] = account[buyer(c)]
      BY <1>5, <2>2
    <2>4. /\ closing' = closing /\ \A z \in Closers : buyer(z)' = buyer(z) /\ (Wrote(z)' <=> Wrote(z))
      BY <1>1 DEF buyer, Wrote
    <2>5. QED BY <1>1, <2>1, <2>3, <2>4 DEF ClosingOK, referrer, Wrote
  <1>14. QED BY <1>6, <1>9, <1>11, <1>12, <1>13 DEF ReferralInv

LEMMA ClosingIsTyped ==
  ASSUME ReferralInv, NEW c \in Closers
  PROVE  /\ closing \in [Closers -> ClosingRow] /\ closing[c] \in ClosingRow /\ ClosingOK(c)
         /\ closing[c].at # "idle" => closing[c].order \in Orders /\ buyer(c) \in Users
         /\ overlapped \subseteq Users
  BY ReferralAssumption DEF ReferralInv, ReferralTypeOK, buyer

\* The run of an order is closed.
LEMMA ReadsStep ==
  ASSUME ReferralInv, NEW c \in Closers, NEW o \in Orders, ClosingReads(c, o)
  PROVE  ReferralInv'
  <1>1. /\ closing' = [closing EXCEPT ![c] = [at |-> "read", order |-> o]]
        /\ account[buyerOf[o]].exists /\ UNCHANGED <<account, orderRow, rewards, overlapped>>
    BY DEF ClosingReads
  <1>2. closing'[c] = [at |-> "read", order |-> o]
    BY <1>1, ClosingIsTyped
  <1>3. closing'[c].at = "read" /\ closing'[c].order = o /\ closing'[c] \in ClosingRow
    BY <1>2 DEF ClosingRow
  <1>4. ClosingOK(c)'
    BY <1>1, <1>3 DEF ClosingOK, Wrote, buyer
  <1>5. Unnoticed(c)
    BY <1>3 DEF Unnoticed, Wrote
  <1>6. QED BY <1>1, <1>2, <1>3, <1>4, <1>5, ClosingIsTyped, ClosingMoves

\* The other statements keep the order.
LEMMA KeepsOrder ==
  ASSUME ReferralInv, NEW c \in Closers, closing[c].at # "idle",
         NEW at \in {"written", "counts", "marks", "marked", "done"},
         closing' = [closing EXCEPT ![c].at = at]
  PROVE  /\ closing' = [closing EXCEPT ![c] = closing'[c]] /\ closing'[c] \in ClosingRow
         /\ closing'[c].at = at /\ closing'[c].order = closing[c].order
         /\ closing'[c].order \in Orders /\ buyer(c)' = buyer(c) /\ Wrote(c)'
         /\ \A z \in Closers \ {c} : closing'[z] = closing[z]
  <1>1. closing \in [Closers -> ClosingRow] /\ closing[c] \in ClosingRow /\ closing[c].order \in Orders
    BY ClosingIsTyped
  <1> DEFINE x == [closing[c] EXCEPT !.at = at]
  <1>2. x \in ClosingRow /\ x.at = at /\ x.order = closing[c].order
    BY <1>1 DEF ClosingRow
  <1>3. closing' = [closing EXCEPT ![c] = x]
    BY <1>1
  <1> HIDE DEF x
  <1>4. closing'[c] = x /\ \A z \in Closers \ {c} : closing'[z] = closing[z]
    BY <1>1, <1>3
  <1>5. QED BY <1>1, <1>2, <1>3, <1>4 DEF buyer, Wrote

\* A statement of a transaction that had written its order disturbs nobody.
LEMMA StatementStep ==
  ASSUME ReferralInv, NEW c \in Closers, Wrote(c),
         NEW at \in {"written", "counts", "marks", "marked", "done"},
         closing' = [closing EXCEPT ![c].at = at],
         UNCHANGED <<account, orderRow, rewards, overlapped>>,
         at = "done" => referrer(c) = NoReferrer \/ account[buyer(c)].rewarded,
         at \in {"counts", "marks", "marked"} =>
           referrer(c) # NoReferrer /\ (buyer(c) \notin overlapped => rewards[buyer(c)] = 0)
  PROVE  ReferralInv'
  <1>1. /\ closing' = [closing EXCEPT ![c] = closing'[c]] /\ closing'[c] \in ClosingRow
        /\ closing'[c].at = at /\ closing'[c].order \in Orders
        /\ buyer(c)' = buyer(c) /\ Wrote(c)' /\ \A z \in Closers \ {c} : closing'[z] = closing[z]
    BY KeepsOrder DEF Wrote
  <1>2. Unnoticed(c)
    BY <1>1 DEF Unnoticed
  <1>3. ClosingOK(c)'
    <2>1. ClosingOK(c) /\ closing[c].at # "idle"
      BY ClosingIsTyped DEF Wrote
    <2>2. referrer(c)' = referrer(c) /\ account[buyer(c)].exists
      BY <1>1, <2>1 DEF referrer, ClosingOK
    <2>3. \A z \in Closers \ {c} : buyer(z)' = buyer(z) /\ (Wrote(z)' <=> Wrote(z))
      BY <1>1 DEF buyer, Wrote
    <2>4. QED BY <1>1, <2>1, <2>2, <2>3 DEF ClosingOK
  <1>4. QED BY <1>1, <1>2, <1>3, ClosingIsTyped, ClosingMoves

\* Writing the order tells who overlaps.
LEMMA WritesStep ==
  ASSUME ReferralInv, NEW c \in Closers, ClosingWrites(c)
  PROVE  ReferralInv'
  <1>1. /\ closing[c].at = "read" /\ closing' = [closing EXCEPT ![c].at = "written"]
        /\ overlapped' = IF \E z \in Closers \ {c} : Wrote(z) /\ buyer(z) = buyer(c)
                         THEN overlapped \cup {buyer(c)} ELSE overlapped
        /\ UNCHANGED <<account, orderRow, rewards>>
    BY DEF ClosingWrites, Wrote
  <1>2. /\ closing' = [closing EXCEPT ![c] = closing'[c]] /\ closing'[c] \in ClosingRow
        /\ closing'[c].at = "written" /\ closing'[c].order \in Orders
        /\ buyer(c)' = buyer(c) /\ Wrote(c)' /\ \A z \in Closers \ {c} : closing'[z] = closing[z]
    BY <1>1, KeepsOrder
  <1>3. overlapped' \subseteq Users /\ overlapped \subseteq overlapped'
    BY <1>1, ClosingIsTyped
  <1>4. Unnoticed(c)
    BY <1>1, <1>2 DEF Unnoticed
  <1>5. ClosingOK(c)'
    <2>1. account[buyer(c)].exists
      BY <1>1, ClosingIsTyped DEF ClosingOK
    <2>2. \A z \in Closers \ {c} : buyer(z)' = buyer(z) /\ (Wrote(z)' <=> Wrote(z))
      BY <1>2 DEF buyer, Wrote
    <2>3. QED BY <1>1, <1>2, <2>1, <2>2 DEF ClosingOK
  <1>6. QED BY <1>1, <1>2, <1>3, <1>4, <1>5, ClosingMoves

LEMMA AwardReadsStep ==
  ASSUME ReferralInv, NEW c \in Closers, AwardReads(c)
  PROVE  ReferralInv'
  <1> DEFINE at == IF referrer(c) = NoReferrer \/ account[buyer(c)].rewarded THEN "done" ELSE "counts"
  <1>1. /\ closing' = [closing EXCEPT ![c].at = at] /\ Wrote(c) /\ buyer(c) \in Users
        /\ UNCHANGED <<account, orderRow, rewards, overlapped>>
    BY ClosingIsTyped DEF AwardReads, Wrote
  <1>2. \A u \in Users : ~ account[u].rewarded => rewards[u] = 0
    <2>1. ASSUME NEW u \in Users, ~ account[u].rewarded PROVE rewards[u] = 0
      <3>1. rewards[u] \in Nat /\ ~ (rewards[u] > 0)
        BY <2>1 DEF ReferralInv, ReferralTypeOK, CreditsOK
      <3>2. QED BY <3>1
    <2>2. QED BY <2>1
  <1>3. CASE referrer(c) = NoReferrer \/ account[buyer(c)].rewarded
    BY <1>1, <1>3, StatementStep
  <1>4. CASE ~ (referrer(c) = NoReferrer \/ account[buyer(c)].rewarded)
    <2>1. closing' = [closing EXCEPT ![c].at = "counts"] /\ rewards[buyer(c)] = 0
      BY <1>1, <1>2, <1>4
    <2>2. QED BY <1>1, <1>4, <2>1, StatementStep
  <1>5. QED BY <1>3, <1>4

LEMMA AwardCountsStep ==
  ASSUME ReferralInv, NEW c \in Closers, AwardCounts(c)
  PROVE  ReferralInv'
  <1>1. /\ closing[c].at = "counts" /\ Wrote(c) /\ buyer(c) \in Users
        /\ closing[c].order \in Orders /\ ClosingOK(c)
        /\ UNCHANGED <<account, orderRow, rewards, overlapped>>
    BY ClosingIsTyped DEF AwardCounts, Wrote
  <1>2. CASE deliveredCount(c) = 1
    <2>1. closing' = [closing EXCEPT ![c].at = "marks"]
      BY <1>2 DEF AwardCounts
    <2>2. QED BY <1>1, <2>1, StatementStep DEF ClosingOK
  <1>3. CASE deliveredCount(c) # 1
    <2> DEFINE D == {o \in Orders : buyerOf[o] = buyer(c)
                                      /\ (orderRow[o] = "delivered" \/ closing[c].order = o)}
    <2>1. closing' = [closing EXCEPT ![c].at = "done"]
      BY <1>3 DEF AwardCounts
    <2>2. closing[c].order \in D
      BY <1>1 DEF buyer
    <2>3. D # {closing[c].order}
      BY <1>3, FS_Singleton DEF deliveredCount
    <2>4. PICK o \in D : o # closing[c].order
      BY <2>2, <2>3
    <2>5. account[buyer(c)].rewarded \/ referrer(c) = NoReferrer
      BY <2>4 DEF ReferralInv, OrdersOK, referrer
    <2>6. QED BY <1>1, <2>1, <2>5, StatementStep
  <1>4. QED BY <1>2, <1>3

LEMMA AwardMarksStep ==
  ASSUME ReferralInv, NEW c \in Closers, AwardMarks(c)
  PROVE  ReferralInv'
  <1>1. /\ closing[c].at = "marks" /\ closing' = [closing EXCEPT ![c].at = "marked"]
        /\ Wrote(c) /\ ClosingOK(c) /\ UNCHANGED <<account, orderRow, rewards, overlapped>>
    BY ClosingIsTyped DEF AwardMarks, Wrote
  <1>2. QED BY <1>1, StatementStep DEF ClosingOK

LEMMA RollsBackStep ==
  ASSUME ReferralInv, NEW c \in Closers, ClosingRollsBack(c)
  PROVE  ReferralInv'
  <1>1. /\ closing' = [closing EXCEPT ![c] = Idle]
        /\ UNCHANGED <<account, orderRow, rewards, overlapped>>
    BY DEF ClosingRollsBack
  <1>2. closing'[c] = Idle
    BY <1>1, ClosingIsTyped
  <1>3. ClosingOK(c)'
    BY <1>2, FinishedClosing DEF ClosingOK, Wrote
  <1>4. Unnoticed(c)
    BY <1>2, FinishedClosing DEF Unnoticed, Wrote
  <1>5. QED BY <1>1, <1>2, <1>3, <1>4, FinishedClosing, ClosingIsTyped, ClosingMoves

LEMMA AdvanceStep ==
  ASSUME ReferralInv, NEW o \in Orders, StaleAdvance(o)
  PROVE  ReferralInv'
  <1>1. /\ orderRow[o] = "delivered" /\ orderRow' = [orderRow EXCEPT ![o] = "moved on"]
        /\ UNCHANGED <<account, closing, rewards, overlapped>>
    BY DEF StaleAdvance
  <1>2. ReferralTypeOK'
    BY <1>1 DEF ReferralInv, ReferralTypeOK
  <1>3. OrdersOK'
    BY <1>1 DEF ReferralInv, ReferralTypeOK, OrdersOK
  <1>4. \A c \in Closers : ClosingOK(c)'
    <2>1. ASSUME NEW c \in Closers PROVE ClosingOK(c)'
      <3>1. ClosingOK(c)
        BY DEF ReferralInv
      <3>2. QED BY <1>1, <3>1 DEF ClosingOK, Wrote, buyer, referrer
    <2>2. QED BY <2>1
  <1>5. QED BY <1>1, <1>2, <1>3, <1>4, AccountsStay DEF ReferralInv

LEMMA CommitsStep ==
  ASSUME ReferralInv, NEW c \in Closers, ClosingCommits(c)
  PROVE  ReferralInv'
  <1>1. /\ closing[c].at = "done" /\ closing' = [closing EXCEPT ![c] = Idle]
        /\ orderRow' = [orderRow EXCEPT ![closing[c].order] = "delivered"]
        /\ UNCHANGED <<account, rewards, overlapped>>
        /\ closing[c].order \in Orders /\ ClosingOK(c)
    BY ClosingIsTyped DEF ClosingCommits, WritesDelivered
  <1>2. ReferralTypeOK'
    BY <1>1, FinishedClosing DEF ReferralInv, ReferralTypeOK
  <1>3. OrdersOK'
    <2>1. account[buyer(c)].exists /\ (referrer(c) = NoReferrer \/ account[buyer(c)].rewarded)
      BY <1>1 DEF ClosingOK
    <2>2. QED BY <1>1, <2>1 DEF ReferralInv, ReferralTypeOK, OrdersOK, buyer, referrer
  <1>4. ASSUME NEW z \in Closers PROVE ClosingOK(z)'
    <2>1. ClosingOK(z) /\ \A y \in Closers \ {c} : closing'[y] = closing[y]
      BY <1>1, ClosingIsTyped DEF ReferralInv
    <2>2. ~ Wrote(c)' /\ closing'[c].at = "idle"
      BY <1>1, ClosingIsTyped, FinishedClosing DEF Wrote
    <2>3. \A y \in Closers \ {c} : buyer(y)' = buyer(y) /\ (Wrote(y)' <=> Wrote(y))
      BY <2>1 DEF buyer, Wrote
    <2>4. CASE z = c
      BY <2>2, <2>4 DEF ClosingOK
    <2>5. CASE z # c
      BY <1>1, <2>1, <2>2, <2>3, <2>5 DEF ClosingOK, referrer
    <2>6. QED BY <2>4, <2>5
  <1>5. QED BY <1>1, <1>2, <1>3, <1>4, AccountsStay DEF ReferralInv

LEMMA CreditsStep ==
  ASSUME ReferralInv, NEW c \in Closers, AwardCredits(c)
  PROVE  ReferralInv'
  <1> DEFINE b == buyer(c)
             r == referrer(c)
  <1>0. ReferralTypeOK /\ AccountsOK /\ CreditsOK /\ OrdersOK
    BY DEF ReferralInv
  <1>1. /\ closing[c].at = "marked" /\ closing' = [closing EXCEPT ![c] = Idle]
        /\ orderRow' = [orderRow EXCEPT ![closing[c].order] = "delivered"]
        /\ account' = [account EXCEPT ![b].rewarded = TRUE, ![r].credit = @ + 1]
        /\ rewards' = [rewards EXCEPT ![b] = @ + 1] /\ overlapped' = overlapped
        /\ closing[c].order \in Orders /\ ClosingOK(c) /\ b \in Users
        /\ b = buyerOf[closing[c].order] /\ r = account[b].referredBy
    BY ClosingIsTyped DEF AwardCredits, WritesDelivered, buyer, referrer
  <1>2. r \in Users /\ r # NoReferrer /\ account[b].exists
        /\ (b \notin overlapped => rewards[b] = 0)
    BY <1>0, <1>1 DEF ClosingOK, ReferralTypeOK, AccountRow
  <1> HIDE DEF b, r
  <1>3. r # b
    <2>1. \E u \in {b} : account[u].referredBy \notin {b}
      BY <1>0, <1>1 DEF AccountsOK
    <2>2. QED BY <1>1, <2>1
  <1>4. /\ account'[b] = [account[b] EXCEPT !.rewarded = TRUE]
        /\ account'[r] = [account[r] EXCEPT !.credit = @ + 1]
        /\ \A u \in Users \ {b, r} : account'[u] = account[u]
    BY <1>0, <1>1, <1>2, <1>3 DEF ReferralTypeOK
  <1>5. account[b] \in AccountRow /\ account[r] \in AccountRow
    BY <1>0, <1>1, <1>2 DEF ReferralTypeOK
  <1>6. account'[b] \in AccountRow /\ account'[b].rewarded /\ account'[b].credit = account[b].credit
        /\ account'[b].exists = account[b].exists /\ account'[b].referredBy = account[b].referredBy
    BY <1>4, <1>5 DEF AccountRow
  <1>7. account'[r] \in AccountRow /\ account'[r].rewarded = account[r].rewarded
        /\ account'[r].credit = account[r].credit + 1
        /\ account'[r].exists = account[r].exists /\ account'[r].referredBy = account[r].referredBy
    BY <1>4, <1>5 DEF AccountRow
  <1>8. \A u \in Users : /\ account'[u].exists = account[u].exists
                         /\ account'[u].referredBy = account[u].referredBy
    BY <1>4, <1>6, <1>7
  <1>9. ReferralTypeOK'
    <2>1. account' \in [Users -> AccountRow]
      <3>1. account' = [account EXCEPT ![b] = account'[b], ![r] = account'[r]]
        BY <1>0, <1>1, <1>2, <1>3, <1>4 DEF ReferralTypeOK
      <3>2. QED BY <1>0, <1>6, <1>7, <3>1 DEF ReferralTypeOK
    <2>2. rewards' \in [Users -> Nat]
      <3>0. rewards \in [Users -> Nat] /\ b \in Users
        BY <1>0, <1>1 DEF ReferralTypeOK
      <3>1. rewards \in [Users -> Nat] /\ rewards[b] + 1 \in Nat
        BY <3>0
      <3>2. QED BY <1>1, <3>1
    <2>3. closing' \in [Closers -> ClosingRow]
          /\ \A z \in Closers : closing'[z].at # "idle" => closing'[z].order \in Orders
      BY <1>0, <1>1, FinishedClosing DEF ReferralTypeOK
    <2>4. orderRow' \in [Orders -> {"road", "delivered", "moved on"}]
      BY <1>0, <1>1 DEF ReferralTypeOK
    <2>5. QED BY <1>0, <1>1, <2>1, <2>2, <2>3, <2>4 DEF ReferralTypeOK
  <1>10. /\ rewards[b] \in Nat /\ rewards'[b] = rewards[b] + 1
         /\ \A u \in Users \ {b} : rewards'[u] = rewards[u]
    BY <1>0, <1>1 DEF ReferralTypeOK
  <1>11. Registered' = Registered /\ \A s \in Users : Referees(s)' = Referees(s)
    BY <1>8 DEF Registered, Referees
  <1>12. AccountsOK'
    <2>1. ASSUME NEW u \in Users, ~ account'[u].exists PROVE account'[u] = Unregistered
      <3>1. account[u] = Unregistered /\ ~ account[u].exists
        BY <1>0, <1>8, <2>1 DEF AccountsOK
      <3>2. account[r].exists
        BY <1>0, <1>1, <1>2 DEF AccountsOK, Registered
      <3>3. QED BY <1>2, <1>4, <3>1, <3>2
    <2>2. \A S \in SUBSET Users : S # {} => \E u \in S : account'[u].referredBy \notin S
      BY <1>0, <1>8 DEF AccountsOK
    <2>3. QED BY <1>0, <1>8, <1>11, <2>1, <2>2 DEF AccountsOK
  <1>13. CreditsOK'
    <2>1. ASSUME NEW u \in Users PROVE account'[u].rewarded <=> rewards'[u] > 0
      <3>1. CASE u = b
        BY <1>6, <1>10, <3>1
      <3>2. CASE u # b
        BY <1>0, <1>4, <1>7, <1>10, <3>2 DEF CreditsOK
      <3>3. QED BY <3>1, <3>2
    <2>2. ASSUME NEW u \in Users \ overlapped' PROVE rewards'[u] <= 1
      <3>1. CASE u = b
        <4>1. b \notin overlapped
          BY <1>1, <2>2, <3>1
        <4>2. rewards'[b] = 0 + 1
          BY <1>2, <1>10, <4>1
        <4>3. QED BY <3>1, <4>2
      <3>2. CASE u # b
        BY <1>0, <1>1, <1>10, <2>2, <3>2 DEF CreditsOK
      <3>3. QED BY <3>1, <3>2
    <2>3. ASSUME NEW s \in Users PROVE account'[s].credit = Sum(rewards', Referees(s))
      <3>1. IsFiniteSet(Referees(s)) /\ Referees(s) \subseteq Users
        BY <1>0, RefereesAreFinite DEF Referees
      <3>2. account[s].credit = Sum(rewards, Referees(s))
        BY <1>0 DEF CreditsOK
      <3>3. CASE s = r
        <4> DEFINE R == Referees(s)
        <4>1. b \in R
          BY <1>1, <3>3 DEF Referees
        <4>2. IsFiniteSet(R) /\ IsFiniteSet(R \ {b})
          BY <3>1, FS_Subset
        <4>3. \A u \in R : rewards[u] \in Int /\ rewards'[u] \in Int
          <5>1. \A u \in Users : rewards[u] \in Nat /\ rewards'[u] \in Nat
            BY <1>0, <1>9 DEF ReferralTypeOK
          <5>2. QED BY <3>1, <5>1
        <4> HIDE DEF R
        <4>4. Sum(rewards, R) = rewards[b] + Sum(rewards, R \ {b})
          BY <4>1, <4>2, <4>3, SumTakesAny
        <4>5. Sum(rewards', R) = rewards'[b] + Sum(rewards', R \ {b})
          BY <4>1, <4>2, <4>3, SumTakesAny
        <4>6. Sum(rewards, R \ {b}) = Sum(rewards', R \ {b})
          <5>1. \A u \in R \ {b} : rewards[u] = rewards'[u]
            BY <1>10, <3>1 DEF R
          <5>2. QED BY <4>2, <5>1, SumsEqual
        <4>7. Sum(rewards, R \ {b}) \in Int
          BY <4>2, <4>3, SumIsInteger
        <4>8. QED BY <1>7, <1>10, <3>2, <3>3, <4>4, <4>5, <4>6, <4>7 DEF R
      <3>4. CASE s # r
        <4>1. b \notin Referees(s)
          BY <1>1, <3>4 DEF Referees
        <4>2. \A u \in Referees(s) : rewards[u] = rewards'[u]
          BY <1>10, <3>1, <4>1
        <4>3. Sum(rewards, Referees(s)) = Sum(rewards', Referees(s))
          BY <3>1, <4>2, SumsEqual
        <4>4. account'[s].credit = account[s].credit
          BY <1>4, <1>6, <3>4
        <4>5. QED BY <3>2, <4>3, <4>4
      <3>5. QED BY <3>3, <3>4
    <2>4. QED BY <1>11, <2>1, <2>2, <2>3 DEF CreditsOK
  <1>14. \A u \in Users : account[u].rewarded => account'[u].rewarded
    BY <1>4, <1>6, <1>7
  <1>15. OrdersOK'
    <2>1. ASSUME NEW o \in Orders, orderRow'[o] # "road"
          PROVE  /\ account'[buyerOf[o]].exists
                 /\ account'[buyerOf[o]].referredBy # NoReferrer => account'[buyerOf[o]].rewarded
      <3>1. CASE o = closing[c].order
        BY <1>1, <1>2, <1>6, <3>1
      <3>2. CASE o # closing[c].order
        <4>1. orderRow'[o] = orderRow[o] /\ buyerOf[o] \in Users
          BY <1>0, <1>1, <3>2, ReferralAssumption DEF ReferralTypeOK
        <4>2. QED BY <1>0, <1>8, <1>14, <2>1, <4>1 DEF OrdersOK
      <3>3. QED BY <3>1, <3>2
    <2>2. QED BY <2>1 DEF OrdersOK
  <1>16. ASSUME NEW z \in Closers PROVE ClosingOK(z)'
    <2>1. /\ ClosingOK(z) /\ \A y \in Closers \ {c} : closing'[y] = closing[y]
          /\ (closing[z].at # "idle" => buyer(z) \in Users)
      BY <1>1, ClosingIsTyped DEF ReferralInv
    <2>2. ~ Wrote(c)' /\ closing'[c].at = "idle"
      BY <1>1, ClosingIsTyped, FinishedClosing DEF Wrote
    <2>3. \A y \in Closers \ {c} : buyer(y)' = buyer(y) /\ (Wrote(y)' <=> Wrote(y))
      BY <2>1 DEF buyer, Wrote
    <2>4. CASE z = c
      BY <2>2, <2>4 DEF ClosingOK
    <2>5. CASE z # c /\ closing[z].at = "idle"
      BY <2>1, <2>5 DEF ClosingOK, Wrote
    <2>6. CASE z # c /\ closing[z].at # "idle"
      <3>1. /\ buyer(z)' = buyer(z) /\ closing'[z] = closing[z] /\ buyer(z) \in Users
            /\ (Wrote(z)' <=> Wrote(z)) /\ referrer(z)' = referrer(z)
        BY <1>8, <2>1, <2>3, <2>6 DEF referrer
      <3>2. ASSUME Wrote(z), buyer(z) \notin overlapped PROVE rewards'[buyer(z)] = rewards[buyer(z)]
        <4>1. Wrote(c)
          BY <1>1 DEF Wrote
        <4>2. buyer(z) # b
          BY <2>1, <2>6, <3>2, <4>1 DEF ClosingOK, b
        <4>3. QED BY <1>10, <3>1, <4>2
      <3>3. Wrote(z) <=> closing[z].at \notin {"idle", "read"}
        BY DEF Wrote
      <3>4. account'[buyer(z)].exists
        BY <1>8, <2>1, <2>6, <3>1 DEF ClosingOK
      <3>5. closing[z].at = "done" => referrer(z) = NoReferrer \/ account'[buyer(z)].rewarded
        BY <1>14, <2>1, <3>1 DEF ClosingOK
      <3>6. QED BY <1>1, <2>1, <2>2, <2>3, <3>1, <3>2, <3>3, <3>4, <3>5 DEF ClosingOK
    <2>7. QED BY <2>4, <2>5, <2>6
  <1>17. QED BY <1>9, <1>12, <1>13, <1>15, <1>16 DEF ReferralInv

LEMMA ReferralStep == ReferralInv /\ [ReferralNext]_referralVars => ReferralInv'
  <1> SUFFICES ASSUME ReferralInv, [ReferralNext]_referralVars PROVE ReferralInv'
    OBVIOUS
  <1>1. CASE UNCHANGED referralVars
    <2>1. /\ account' = account /\ rewards' = rewards /\ orderRow' = orderRow
          /\ closing' = closing /\ overlapped' = overlapped
      BY <1>1 DEF referralVars
    <2>2. AccountsOK' /\ CreditsOK' /\ OrdersOK'
      BY <2>1, AccountsStay, OrdersStay
    <2>3. ReferralTypeOK'
      BY <2>1 DEF ReferralInv, ReferralTypeOK
    <2>4. ASSUME NEW c \in Closers PROVE ClosingOK(c)'
      BY <2>1 DEF ReferralInv, ClosingOK, Wrote, buyer, referrer
    <2>5. QED BY <2>2, <2>3, <2>4 DEF ReferralInv
  <1>2. CASE ReferralNext
    BY <1>2, RegisterStep, ReadsStep, WritesStep, AwardReadsStep, AwardCountsStep, AwardMarksStep,
       CreditsStep, CommitsStep, RollsBackStep, AdvanceStep DEF ReferralNext
  <1>3. QED BY <1>1, <1>2

\* The rows of two referees are never held across one another: some transaction goes on.
LEMMA SomeoneMoves ==
  ASSUME ReferralInv, NEW d \in Closers, closing[d].at # "idle"
  PROVE  \E c \in Closers : closing[c].at # "idle" /\ WaitsFor(c) = {}
  <1>1. CASE \E c \in Closers : closing[c].at = "marked"
    <2> DEFINE S == {u \in Users : \E c \in Closers : closing[c].at = "marked" /\ buyer(c) = u}
    <2>1. S # {}
      BY <1>1, ClosingIsTyped
    <2>2. PICK u \in S : account[u].referredBy \notin S
      BY <2>1 DEF ReferralInv, AccountsOK
    <2>3. PICK c \in Closers : closing[c].at = "marked" /\ buyer(c) = u
      BY <2>2
    <2>4. referrer(c) \in Users
      <3>1. ClosingOK(c) /\ account[u] \in AccountRow
        BY <2>2 DEF ReferralInv, ReferralTypeOK
      <3>2. QED BY <2>3, <3>1 DEF ClosingOK, referrer, AccountRow
    <2>5. \A other \in Closers : ~ HoldsUser(other, referrer(c))
      BY <2>2, <2>3, <2>4 DEF HoldsUser, referrer
    <2>6. QED BY <2>3, <2>5 DEF WaitsFor
  <1>2. CASE (\A c \in Closers : closing[c].at # "marked")
             /\ \E c \in Closers : closing[c].at \notin {"idle", "read"}
    <2>1. PICK c \in Closers : closing[c].at \notin {"idle", "read", "marked"}
      BY <1>2
    <2>2. QED BY <1>2, <2>1 DEF WaitsFor, HoldsUser
  <1>3. CASE \A c \in Closers : closing[c].at \in {"idle", "read"}
    BY <1>3 DEF WaitsFor, HoldsOrder
  <1>4. QED BY <1>1, <1>2, <1>3

LEMMA CreditsAddUp ==
  ASSUME NEW R
  PROVE  MapThenSumSet(LAMBDA u : rewards[u], R) = Sum(rewards, R)
  BY DEF MapThenSumSet, MapThenFoldSet, Sum, Adds, Picked

(* However closings, registrations and stale advances cross, a referee whose *)
(* order was delivered has brought one credit, or as many as closings of his *)
(* orders overlapped; a credit is the sum of what the referees brought; and  *)
(* closings never all wait for one another.                                 *)
THEOREM DeliveriesAreRewarded == ReferralSpec => []RewardFollowsDelivery
  <1>1. ASSUME ReferralInv PROVE RewardFollowsDelivery
    <2>1. \A r \in Users :
            account[r].credit
              = MapThenSumSet(LAMBDA u : rewards[u], {u \in Users : account[u].referredBy = r})
      BY <1>1, CreditsAddUp DEF ReferralInv, CreditsOK, Referees
    <2>2. (\E c \in Closers : closing[c].at # "idle") =>
            \E c \in Closers : closing[c].at # "idle" /\ WaitsFor(c) = {}
      BY <1>1, SomeoneMoves
    <2>3. QED BY <1>1, <2>1, <2>2 DEF ReferralInv, OrdersOK, CreditsOK, RewardFollowsDelivery
  <1>2. QED BY <1>1, ReferralStart, ReferralStep, PTL DEF ReferralSpec

-----------------------------------------------------------------------------
(* Spreads of the handlers over the counts, and their order.               *)

Counts == 0 .. MaxWrongCodes - 1

\* Fewer handlers at the first count where the two differ.
Lower(s, t) == \E v \in Counts : s[v] < t[v] /\ \A u \in Counts : u < v => s[u] = t[u]

\* The spreads that are already behind.
Behind(s) == {t \in Spreads : Lower(s, t)}

LEMMA SpreadsAreFinite == IsFiniteSet(Spreads)
  <1> DEFINE n == Cardinality(Guessers)
             Grid == SUBSET (Counts \X (0 .. n))
             graph == [s \in Spreads |-> {<<v, s[v]>> : v \in Counts}]
  <1>1. n \in Nat
    BY ResetBounds, FS_CardinalityType
  <1>2. IsFiniteSet(Grid)
    <2>1. IsFiniteSet(Counts) /\ IsFiniteSet(0 .. n)
      BY <1>1, FS_Interval, ResetBounds DEF Counts
    <2>2. QED BY <2>1, FS_Product, FS_SUBSET
  <1>3. graph \in Injection(Spreads, Grid)
    <2>1. ASSUME NEW s \in Spreads PROVE graph[s] \in Grid
      BY DEF Spreads, Counts
    <2>2. ASSUME NEW s \in Spreads, NEW t \in Spreads, graph[s] = graph[t] PROVE s = t
      <3>1. ASSUME NEW v \in Counts PROVE s[v] = t[v]
        <4>1. <<v, s[v]>> \in graph[t]
          BY <2>2
        <4>2. PICK w \in Counts : <<v, s[v]>> = <<w, t[w]>>
          BY <4>1
        <4>3. QED BY <4>2
      <3>2. s = [v \in Counts |-> s[v]] /\ t = [v \in Counts |-> t[v]]
        BY DEF Spreads, Counts
      <3>3. QED BY <3>1, <3>2
    <2>3. QED BY <2>1, <2>2 DEF Injection, IsInjective
  <1>4. QED BY <1>2, <1>3, FS_Injection

LEMMA SpreadsCount ==
  \A s \in Spreads : IsFiniteSet(Behind(s)) /\ Cardinality(Behind(s)) \in Nat
  BY SpreadsAreFinite, FS_Subset, FS_CardinalityType DEF Behind

LEMMA LowerIsStrict ==
  \A s, t \in Spreads : Lower(s, t) => ~ Lower(t, s) /\ s # t
  <1> SUFFICES ASSUME NEW s \in Spreads, NEW t \in Spreads, Lower(s, t)
      PROVE ~ Lower(t, s) /\ s # t
    OBVIOUS
  <1>1. \A v \in Counts : v \in Int /\ s[v] \in Int /\ t[v] \in Int
    BY ResetBounds, FS_CardinalityType DEF Spreads, Counts
  <1>2. PICK v \in Counts : s[v] < t[v] /\ \A u \in Counts : u < v => s[u] = t[u]
    BY DEF Lower
  <1>3. s # t
    BY <1>1, <1>2
  <1>4. ASSUME NEW w \in Counts, t[w] < s[w], \A u \in Counts : u < w => t[u] = s[u]
        PROVE  FALSE
    BY <1>1, <1>2, <1>4
  <1>5. QED BY <1>3, <1>4 DEF Lower

LEMMA LowerIsTransitive ==
  \A s, t, r \in Spreads : Lower(s, t) /\ Lower(t, r) => Lower(s, r)
  <1> SUFFICES ASSUME NEW s \in Spreads, NEW t \in Spreads, NEW r \in Spreads,
                      Lower(s, t), Lower(t, r)
      PROVE Lower(s, r)
    OBVIOUS
  <1>1. \A v \in Counts : v \in Int /\ s[v] \in Int /\ t[v] \in Int /\ r[v] \in Int
    BY ResetBounds, FS_CardinalityType DEF Spreads, Counts
  <1>2. PICK v \in Counts : s[v] < t[v] /\ \A u \in Counts : u < v => s[u] = t[u]
    BY DEF Lower
  <1>3. PICK w \in Counts : t[w] < r[w] /\ \A u \in Counts : u < w => t[u] = r[u]
    BY DEF Lower
  <1>4. CASE v < w
    <2>1. s[v] < r[v] /\ \A u \in Counts : u < v => s[u] = r[u]
      BY <1>1, <1>2, <1>3, <1>4
    <2>2. QED BY <2>1 DEF Lower
  <1>5. CASE w <= v
    <2>1. s[w] < r[w] /\ \A u \in Counts : u < w => s[u] = r[u]
      BY <1>1, <1>2, <1>3, <1>5
    <2>2. QED BY <2>1 DEF Lower
  <1>6. QED BY <1>1, <1>4, <1>5

\* Going down leaves one more spread behind.
LEMMA LowerLeavesOneMore ==
  \A s, t \in Spreads : Lower(s, t) => Cardinality(Behind(t)) + 1 <= Cardinality(Behind(s))
  <1> SUFFICES ASSUME NEW s \in Spreads, NEW t \in Spreads, Lower(s, t)
      PROVE Cardinality(Behind(t)) + 1 <= Cardinality(Behind(s))
    OBVIOUS
  <1>1. Behind(t) \cup {t} \subseteq Behind(s)
    BY LowerIsTransitive DEF Behind
  <1>2. t \notin Behind(t)
    BY LowerIsStrict DEF Behind
  <1>3. IsFiniteSet(Behind(t)) /\ IsFiniteSet(Behind(s))
    BY SpreadsCount
  <1>4. Cardinality(Behind(t) \cup {t}) = Cardinality(Behind(t)) + 1
    BY <1>2, <1>3, FS_AddElement
  <1>5. Cardinality(Behind(t) \cup {t}) <= Cardinality(Behind(s))
    BY <1>1, <1>3, FS_Subset
  <1>6. QED BY <1>4, <1>5

LEMMA BehindIsNotAll ==
  \A s \in Spreads : Cardinality(Behind(s)) < Cardinality(Spreads)
  <1> SUFFICES ASSUME NEW s \in Spreads PROVE Cardinality(Behind(s)) < Cardinality(Spreads)
    OBVIOUS
  <1>1. s \notin Behind(s)
    BY LowerIsStrict DEF Behind
  <1>2. Behind(s) \in SUBSET Spreads /\ Behind(s) # Spreads
    BY <1>1 DEF Behind
  <1>3. Cardinality(Behind(s)) <= Cardinality(Spreads) /\ Cardinality(Behind(s)) # Cardinality(Spreads)
    BY <1>2, SpreadsAreFinite, FS_Subset
  <1>4. Cardinality(Behind(s)) \in Nat /\ Cardinality(Spreads) \in Nat
    BY SpreadsCount, SpreadsAreFinite, FS_CardinalityType
  <1>5. QED BY <1>3, <1>4

\* Not more handlers up to some count, and fewer at that one.
LEMMA LowerSomewhere ==
  \A s, t \in Spreads : \A b \in Counts :
    s[b] < t[b] /\ (\A v \in Counts : v <= b => s[v] <= t[v]) => Lower(s, t)
  <1> SUFFICES ASSUME NEW s \in Spreads, NEW t \in Spreads, NEW b \in Counts,
                      s[b] < t[b], \A v \in Counts : v <= b => s[v] <= t[v]
      PROVE Lower(s, t)
    OBVIOUS
  <1> DEFINE D == {v \in Counts : s[v] < t[v]}
  <1>1. \A v \in Counts : v \in Int /\ s[v] \in Int /\ t[v] \in Int
    BY ResetBounds, FS_CardinalityType DEF Spreads, Counts
  <1>2. D \in SUBSET Nat /\ D # {} /\ b \in D
    BY ResetBounds DEF Counts
  <1> HIDE DEF D
  <1>3. PICK v \in D : \A u \in D : v <= u
    BY <1>2, LeastNatural
  <1>4. v \in Counts /\ s[v] < t[v] /\ v <= b
    BY <1>2, <1>3 DEF D
  <1>5. \A u \in Counts : u < v => s[u] = t[u]
    BY <1>1, <1>3, <1>4 DEF D
  <1>6. QED BY <1>4, <1>5 DEF Lower

-----------------------------------------------------------------------------
(* The count each handler of a code may still write back.                  *)

Found(c, row) == IF row.code = c /\ row.attempts < MaxWrongCodes THEN row.attempts ELSE MaxWrongCodes

\* A handler that has read keeps what it read; the others would read the row.
CountOf(h, row, c, g) == Found(c, IF h[g].at = "read" THEN h[g].copy ELSE row)

Upto(h, row, c, v) == {g \in Guessers : CountOf(h, row, c, g) <= v}
SpreadOf(h, row, c) == [v \in Counts |-> Cardinality(Upto(h, row, c, v))]

ResetRowType == [code : 0 .. MaxCodes, attempts : 0 .. MaxWrongCodes]
GuessRecord == [at : {"idle", "read"}, copy : ResetRowType, guess : 0 .. MaxCodes]
HandlersType == [Guessers -> GuessRecord]

ResetTypeOK ==
  /\ resetRow \in ResetRowType /\ codesSent \in 0 .. MaxCodes
  /\ guesser \in HandlersType /\ wrongGuesses \in [Codes -> Nat]
  /\ resetRow.code <= codesSent
  /\ \A g \in Guessers : guesser[g].at = "read" =>
       /\ guesser[g].copy.code \in 1 .. codesSent
       /\ guesser[g].copy.attempts < MaxWrongCodes
  /\ \A c \in Codes : c > codesSent => wrongGuesses[c] = 0

\* Each wrong guess of a code has left a spread behind.
GuessesOK ==
  \A c \in Codes : wrongGuesses[c] <= Cardinality(Behind(SpreadOf(guesser, resetRow, c)))

LEMMA CountsAreBounded ==
  \A h \in HandlersType, row \in ResetRowType, c \in Codes, g \in Guessers :
    CountOf(h, row, c, g) \in 0 .. MaxWrongCodes
  BY ResetBounds DEF HandlersType, CountOf, Found, ResetRowType, GuessRecord

LEMMA UptoIsFinite ==
  \A h, row, c, v :
    IsFiniteSet(Upto(h, row, c, v)) /\ Cardinality(Upto(h, row, c, v)) \in 0 .. Cardinality(Guessers)
  <1> SUFFICES ASSUME NEW h, NEW row, NEW c, NEW v
      PROVE /\ IsFiniteSet(Upto(h, row, c, v))
            /\ Cardinality(Upto(h, row, c, v)) \in 0 .. Cardinality(Guessers)
    OBVIOUS
  <1>1. Upto(h, row, c, v) \in SUBSET Guessers
    BY DEF Upto
  <1>2. QED BY <1>1, ResetBounds, FS_Subset, FS_CardinalityType

LEMMA SpreadIsSpread ==
  \A h \in HandlersType, row \in ResetRowType, c \in Codes : SpreadOf(h, row, c) \in Spreads
  <1> SUFFICES ASSUME NEW h \in HandlersType, NEW row \in ResetRowType, NEW c \in Codes
      PROVE SpreadOf(h, row, c) \in Spreads
    OBVIOUS
  <1>1. SpreadOf(h, row, c) \in [Counts -> 0 .. Cardinality(Guessers)]
    BY UptoIsFinite DEF SpreadOf
  <1>2. ASSUME NEW v \in Counts, NEW w \in Counts, v <= w
        PROVE  SpreadOf(h, row, c)[v] <= SpreadOf(h, row, c)[w]
    <2>1. Upto(h, row, c, v) \subseteq Upto(h, row, c, w)
      BY <1>2, CountsAreBounded, ResetBounds DEF Upto, Counts
    <2>2. QED BY <2>1, UptoIsFinite, FS_Subset DEF SpreadOf
  <1>3. QED BY <1>1, <1>2 DEF Spreads, Counts

\* Fewer handlers up to a count, or the same: the sets give the order of the spreads.
LEMMA NoCountFalls ==
  \A h, i \in HandlersType, row, r \in ResetRowType, c \in Codes :
    (\A v \in Counts : Upto(i, r, c, v) \subseteq Upto(h, row, c, v)) =>
      Cardinality(Behind(SpreadOf(h, row, c))) <= Cardinality(Behind(SpreadOf(i, r, c)))
  <1> SUFFICES ASSUME NEW h \in HandlersType, NEW i \in HandlersType,
                      NEW row \in ResetRowType, NEW r \in ResetRowType, NEW c \in Codes,
                      \A v \in Counts : Upto(i, r, c, v) \subseteq Upto(h, row, c, v)
      PROVE Cardinality(Behind(SpreadOf(h, row, c))) <= Cardinality(Behind(SpreadOf(i, r, c)))
    OBVIOUS
  <1> DEFINE s == SpreadOf(i, r, c)
             t == SpreadOf(h, row, c)
  <1>1. s \in Spreads /\ t \in Spreads
    BY SpreadIsSpread
  <1>2. \A v \in Counts : s[v] <= t[v] /\ s[v] \in Int /\ t[v] \in Int
    BY UptoIsFinite, FS_Subset, FS_CardinalityType, ResetBounds DEF SpreadOf
  <1>3. CASE s = t
    BY <1>1, <1>3, SpreadsCount
  <1>4. CASE s # t
    <2>1. PICK b \in Counts : s[b] # t[b]
      BY <1>4 DEF SpreadOf
    <2>2. s[b] < t[b]
      BY <1>2, <2>1
    <2>3. Lower(s, t)
      BY <1>1, <1>2, <2>2, LowerSomewhere
    <2>4. Cardinality(Behind(t)) + 1 <= Cardinality(Behind(s))
      BY <1>1, <2>3, LowerLeavesOneMore
    <2>5. QED BY <1>1, <2>4, SpreadsCount
  <1>5. QED BY <1>3, <1>4

\* A handler leaves a count, and nobody comes to it or to a lower one.
LEMMA OneCountRises ==
  \A h, i \in HandlersType, row, r \in ResetRowType, c \in Codes, b \in Counts :
    /\ \A v \in Counts : v <= b => Upto(i, r, c, v) \subseteq Upto(h, row, c, v)
    /\ Upto(i, r, c, b) # Upto(h, row, c, b)
    => Cardinality(Behind(SpreadOf(h, row, c))) + 1 <= Cardinality(Behind(SpreadOf(i, r, c)))
  <1> SUFFICES ASSUME NEW h \in HandlersType, NEW i \in HandlersType,
                      NEW row \in ResetRowType, NEW r \in ResetRowType, NEW c \in Codes,
                      NEW b \in Counts,
                      \A v \in Counts : v <= b => Upto(i, r, c, v) \subseteq Upto(h, row, c, v),
                      Upto(i, r, c, b) # Upto(h, row, c, b)
      PROVE Cardinality(Behind(SpreadOf(h, row, c))) + 1 <= Cardinality(Behind(SpreadOf(i, r, c)))
    OBVIOUS
  <1> DEFINE s == SpreadOf(i, r, c)
             t == SpreadOf(h, row, c)
  <1>1. s \in Spreads /\ t \in Spreads
    BY SpreadIsSpread
  <1>2. \A v \in Counts : v <= b => s[v] <= t[v]
    BY UptoIsFinite, FS_Subset DEF SpreadOf
  <1>3. b <= b
    BY ResetBounds DEF Counts
  <1>4. Upto(i, r, c, b) \in SUBSET Upto(h, row, c, b)
    BY <1>3
  <1>5. Cardinality(Upto(i, r, c, b)) # Cardinality(Upto(h, row, c, b))
    BY <1>4, UptoIsFinite, FS_Subset
  <1>6. s[b] < t[b]
    <2>1. s[b] <= t[b]
      BY <1>2, <1>3
    <2>2. s[b] # t[b] /\ s[b] \in Int /\ t[b] \in Int
      BY <1>5, UptoIsFinite, FS_CardinalityType, ResetBounds DEF SpreadOf
    <2>3. QED BY <2>1, <2>2
  <1>7. QED BY <1>1, <1>2, <1>6, LowerSomewhere, LowerLeavesOneMore

-----------------------------------------------------------------------------
(* The steps.                                                              *)

LEMMA ResetInitTypeOK == ResetInit => ResetTypeOK
  BY ResetBounds DEF ResetInit, ResetTypeOK, NoRow, NoGuess, ResetRowType, GuessRecord,
     HandlersType, Codes

LEMMA ResetStepTypeOK ==
  ASSUME ResetTypeOK, [ResetNext]_resetVars
  PROVE  ResetTypeOK'
  <1> USE DEF ResetTypeOK, ResetRowType, GuessRecord, HandlersType, NoRow, NoGuess, Codes
  <1>1. ASSUME requestPasswordReset PROVE ResetTypeOK'
    BY <1>1, ResetBounds DEF requestPasswordReset
  <1>2. ASSUME dropReset PROVE ResetTypeOK'
    BY <1>2, ResetBounds DEF dropReset
  <1>3. ASSUME NEW g \in Guessers, NEW guess \in 0 .. MaxCodes, readReset(g, guess)
        PROVE  ResetTypeOK'
    <2>1. guesser'[g] = [at |-> "read", copy |-> resetRow, guess |-> guess]
          /\ resetRow.code \in 1 .. codesSent /\ resetRow.attempts < MaxWrongCodes
      BY <1>3 DEF readReset
    <2>2. \A o \in Guessers : o # g => guesser'[o] = guesser[o]
      BY <1>3 DEF readReset
    <2>3. UNCHANGED <<resetRow, codesSent, wrongGuesses>> /\ guesser' \in HandlersType
      BY <1>3 DEF readReset
    <2>4. \A o \in Guessers : guesser'[o].at = "read" =>
            guesser'[o].copy.code \in 1 .. codesSent /\ guesser'[o].copy.attempts < MaxWrongCodes
      <3>1. ASSUME NEW o \in Guessers, guesser'[o].at = "read"
            PROVE  guesser'[o].copy.code \in 1 .. codesSent
                   /\ guesser'[o].copy.attempts < MaxWrongCodes
        <4>1. CASE o = g BY <4>1, <2>1
        <4>2. CASE o # g BY <4>2, <2>2, <3>1
        <4>3. QED BY <4>1, <4>2
      <3>2. QED BY <3>1
    <2>5. QED BY <2>3, <2>4
  <1>4. ASSUME NEW g \in Guessers, wrongCode(g) PROVE ResetTypeOK'
    <2> DEFINE copy == guesser[g].copy
    <2>1. copy.code \in 1 .. codesSent /\ copy.attempts < MaxWrongCodes /\ copy \in ResetRowType
      BY <1>4 DEF wrongCode
    <2>2. resetRow' \in ResetRowType /\ resetRow'.code <= codesSent
      <3>1. [copy EXCEPT !.attempts = @ + 1] \in ResetRowType
            /\ [copy EXCEPT !.attempts = @ + 1].code = copy.code
        <4>1. copy.attempts + 1 \in 0 .. MaxWrongCodes
          BY <2>1, ResetBounds
        <4>2. QED BY <4>1, <2>1
      <3>2. NoRow \in ResetRowType /\ NoRow.code <= codesSent
        BY ResetBounds
      <3>3. resetRow' \in {NoRow, [copy EXCEPT !.attempts = @ + 1]}
        BY <1>4 DEF wrongCode
      <3> HIDE DEF NoRow, ResetRowType
      <3>4. CASE resetRow' = NoRow
        BY <3>2, <3>4
      <3>5. CASE resetRow' = [copy EXCEPT !.attempts = @ + 1]
        BY <3>1, <3>5, <2>1
      <3>6. QED BY <3>3, <3>4, <3>5
    <2>3. wrongGuesses' \in [Codes -> Nat] /\ codesSent' = codesSent
          /\ \A c \in Codes : c > codesSent => wrongGuesses'[c] = 0
      BY <1>4, <2>1 DEF wrongCode
    <2>4. guesser' = [guesser EXCEPT ![g] = NoGuess]
      BY <1>4 DEF wrongCode
    <2>5. QED BY <2>2, <2>3, <2>4, ResetBounds
  <1>5. ASSUME NEW g \in Guessers, rightCode(g) \/ rightCodeOfClosedAccount(g)
        PROVE  ResetTypeOK'
    <2>1. /\ guesser' = [guesser EXCEPT ![g] = NoGuess] /\ resetRow' = NoRow
          /\ UNCHANGED <<codesSent, wrongGuesses>>
      BY <1>5 DEF rightCode, rightCodeOfClosedAccount
    <2>2. guesser' \in HandlersType
      BY <2>1, ResetBounds
    <2>3. \A o \in Guessers : guesser'[o].at = "read" => guesser'[o] = guesser[o]
      BY <2>1
    <2>4. resetRow' \in ResetRowType /\ resetRow'.code <= codesSent
      BY <2>1, ResetBounds
    <2>5. QED BY <2>1, <2>2, <2>3, <2>4
  <1>6. CASE UNCHANGED resetVars
    BY <1>6 DEF resetVars
  <1>7. QED BY <1>1, <1>2, <1>3, <1>4, <1>5, <1>6 DEF ResetNext

LEMMA ResetInitGuesses == ResetInit => GuessesOK
  <1> SUFFICES ASSUME ResetInit PROVE GuessesOK
    OBVIOUS
  <1>1. ResetTypeOK
    BY ResetInitTypeOK
  <1>2. \A c \in Codes : wrongGuesses[c] = 0
    BY DEF ResetInit
  <1>3. \A c \in Codes : Cardinality(Behind(SpreadOf(guesser, resetRow, c))) \in Nat
    BY <1>1, SpreadIsSpread, SpreadsCount DEF ResetTypeOK
  <1>4. QED BY <1>2, <1>3 DEF GuessesOK

LEMMA ResetStepGuesses ==
  ASSUME ResetTypeOK, ResetTypeOK', GuessesOK, [ResetNext]_resetVars
  PROVE  GuessesOK'
  <1> USE DEF ResetTypeOK
  <1>1. ASSUME NEW c \in Codes, wrongGuesses'[c] = wrongGuesses[c],
               \A g \in Guessers :
                 CountOf(guesser, resetRow, c, g) <= CountOf(guesser', resetRow', c, g)
        PROVE  wrongGuesses'[c] <= Cardinality(Behind(SpreadOf(guesser', resetRow', c)))
    <2>1. \A v \in Counts :
            Upto(guesser', resetRow', c, v) \subseteq Upto(guesser, resetRow, c, v)
      BY <1>1, CountsAreBounded, ResetBounds DEF Upto, Counts
    <2>2. Cardinality(Behind(SpreadOf(guesser, resetRow, c)))
            <= Cardinality(Behind(SpreadOf(guesser', resetRow', c)))
      BY <2>1, NoCountFalls
    <2>3. Cardinality(Behind(SpreadOf(guesser, resetRow, c))) \in Nat
          /\ Cardinality(Behind(SpreadOf(guesser', resetRow', c))) \in Nat
      BY SpreadIsSpread, SpreadsCount
    <2>4. QED BY <1>1, <2>2, <2>3 DEF GuessesOK
  <1>2. ASSUME requestPasswordReset PROVE GuessesOK'
    <2>1. ASSUME NEW c \in Codes, c = codesSent + 1
          PROVE  wrongGuesses'[c] <= Cardinality(Behind(SpreadOf(guesser', resetRow', c)))
      <3>1. wrongGuesses'[c] = 0
        BY <1>2, <2>1 DEF requestPasswordReset
      <3>2. QED BY <3>1, SpreadIsSpread, SpreadsCount
    <2>2. ASSUME NEW c \in Codes, c # codesSent + 1, NEW g \in Guessers
          PROVE  CountOf(guesser, resetRow, c, g) <= CountOf(guesser', resetRow', c, g)
      <3>1. CountOf(guesser, resetRow, c, g) \in 0 .. MaxWrongCodes
        BY CountsAreBounded
      <3>2. guesser' = guesser /\ resetRow'.code # c
        BY <1>2, <2>2 DEF requestPasswordReset
      <3>3. QED BY <3>1, <3>2, ResetBounds DEF CountOf, Found
    <2>3. wrongGuesses' = wrongGuesses
      BY <1>2 DEF requestPasswordReset
    <2>4. QED BY <1>1, <2>1, <2>2, <2>3 DEF GuessesOK
  <1>3. ASSUME NEW g \in Guessers, NEW guess \in 0 .. MaxCodes, readReset(g, guess)
        PROVE  GuessesOK'
    <2>1. ASSUME NEW c \in Codes, NEW o \in Guessers
          PROVE  CountOf(guesser', resetRow', c, o) = CountOf(guesser, resetRow, c, o)
      BY <1>3 DEF readReset, CountOf, HandlersType
    <2>2. ASSUME NEW c \in Codes, NEW o \in Guessers
          PROVE  CountOf(guesser, resetRow, c, o) <= CountOf(guesser', resetRow', c, o)
      BY <2>1, CountsAreBounded, ResetBounds
    <2>3. wrongGuesses' = wrongGuesses
      BY <1>3 DEF readReset
    <2>4. QED BY <1>1, <2>2, <2>3 DEF GuessesOK
  \* Once the row is gone, or of another code, those who have not read can read nothing.
  <1>4. ASSUME NEW c \in Codes, resetRow'.code # c, NEW g,
               guesser' \in {guesser, [guesser EXCEPT ![g] = NoGuess]},
               NEW o \in Guessers
        PROVE  CountOf(guesser, resetRow, c, o) <= CountOf(guesser', resetRow', c, o)
    <2>1. CountOf(guesser, resetRow, c, o) \in 0 .. MaxWrongCodes
      BY CountsAreBounded
    <2>2. guesser'[o] = guesser[o] \/ guesser'[o].at = "idle"
      BY <1>4 DEF HandlersType, NoGuess
    <2>3. CASE guesser'[o].at = "idle"
      BY <1>4, <2>1, <2>3, ResetBounds DEF CountOf, Found
    <2>4. CASE guesser'[o] = guesser[o] /\ guesser[o].at = "read"
      BY <2>1, <2>4, ResetBounds DEF CountOf
    <2>5. guesser[o].at \in {"idle", "read"}
      BY DEF HandlersType, GuessRecord
    <2>6. QED BY <2>2, <2>3, <2>4, <2>5
  <1>5. ASSUME dropReset PROVE GuessesOK'
    <2>1. \A c \in Codes : resetRow'.code # c
      BY <1>5 DEF dropReset, NoRow, Codes
    <2>2. guesser' = guesser /\ wrongGuesses' = wrongGuesses
      BY <1>5 DEF dropReset
    <2>3. QED BY <1>1, <1>4, <2>1, <2>2 DEF GuessesOK
  <1>6. ASSUME NEW g \in Guessers, rightCode(g) \/ rightCodeOfClosedAccount(g)
        PROVE  GuessesOK'
    <2>1. \A c \in Codes : resetRow'.code # c
      BY <1>6 DEF rightCode, rightCodeOfClosedAccount, NoRow, Codes
    <2>2. guesser' = [guesser EXCEPT ![g] = NoGuess] /\ wrongGuesses' = wrongGuesses
      BY <1>6 DEF rightCode, rightCodeOfClosedAccount
    <2>3. guesser' \in {guesser, [guesser EXCEPT ![g] = NoGuess]}
      BY <2>2
    <2>4. \A c \in Codes : wrongGuesses'[c] = wrongGuesses[c]
      BY <2>2
    <2>5. QED BY <1>1, <1>4, <2>1, <2>3, <2>4 DEF GuessesOK
  <1>7. ASSUME NEW g \in Guessers, wrongCode(g) PROVE GuessesOK'
    <2> DEFINE copy == guesser[g].copy
               b == copy.attempts
    <2>1. /\ guesser[g].at = "read" /\ guesser' = [guesser EXCEPT ![g] = NoGuess]
          /\ wrongGuesses' = [wrongGuesses EXCEPT ![copy.code] = @ + 1]
          /\ resetRow' = IF resetRow.code = 0 THEN NoRow ELSE [copy EXCEPT !.attempts = @ + 1]
      BY <1>7 DEF wrongCode
    <2>2. copy.code \in Codes /\ b \in Counts /\ b \in Nat
      BY <2>1, ResetBounds DEF HandlersType, GuessRecord, ResetRowType, Codes, Counts
    <2>3. ASSUME NEW c \in Codes, c # copy.code
          PROVE  wrongGuesses'[c] <= Cardinality(Behind(SpreadOf(guesser', resetRow', c)))
      <3>1. resetRow'.code # c
        BY <2>1, <2>2, <2>3 DEF NoRow, Codes, HandlersType, GuessRecord, ResetRowType
      <3>2. wrongGuesses'[c] = wrongGuesses[c]
        BY <2>1, <2>3
      <3>3. guesser' \in {guesser, [guesser EXCEPT ![g] = NoGuess]}
        BY <2>1
      <3>4. QED BY <1>1, <1>4, <3>1, <3>2, <3>3
    <2>4. wrongGuesses'[copy.code]
            <= Cardinality(Behind(SpreadOf(guesser', resetRow', copy.code)))
      <3> DEFINE c == copy.code
      <3>1. CountOf(guesser, resetRow, c, g) = b
        BY <2>1, <2>2 DEF CountOf, Found, Counts
      <3>2. resetRow'.code = c => resetRow'.attempts = b + 1
        BY <2>1, <2>2 DEF NoRow, Codes, HandlersType, GuessRecord, ResetRowType
      <3>3. Found(c, resetRow') > b
        BY <3>2, <2>2, ResetBounds DEF Found, Counts
      <3>4. \A o \in Guessers : guesser'[o].at = "read" => guesser'[o] = guesser[o]
        BY <2>1 DEF NoGuess, HandlersType
      <3>5. \A o \in Guessers : CountOf(guesser', resetRow', c, o) <= b =>
              CountOf(guesser', resetRow', c, o) = CountOf(guesser, resetRow, c, o)
        <4>1. ASSUME NEW o \in Guessers, CountOf(guesser', resetRow', c, o) <= b
              PROVE  CountOf(guesser', resetRow', c, o) = CountOf(guesser, resetRow, c, o)
          <5>1. guesser'[o].at = "read"
            <6>1. CASE guesser'[o].at # "read"
              <7>1. CountOf(guesser', resetRow', c, o) = Found(c, resetRow')
                BY <6>1 DEF CountOf
              <7>2. CountOf(guesser', resetRow', c, o) \in Nat
                BY <2>2, CountsAreBounded, ResetBounds
              <7>3. QED BY <4>1, <7>1, <7>2, <3>3, <2>2
            <6>2. QED BY <6>1
          <5>2. QED BY <5>1, <3>4 DEF CountOf
        <4>2. QED BY <4>1
      <3>6. g \in Upto(guesser, resetRow, c, b)
        BY <3>1, <2>2 DEF Upto
      <3>7. g \notin Upto(guesser', resetRow', c, b)
        <4>1. CountOf(guesser', resetRow', c, g) = Found(c, resetRow')
          BY <2>1 DEF CountOf, NoGuess, HandlersType
        <4>2. Found(c, resetRow') \in Nat
          BY <4>1, <2>2, CountsAreBounded, ResetBounds
        <4>3. QED BY <4>1, <4>2, <3>3, <2>2 DEF Upto
      <3>8. ASSUME NEW v \in Counts, v <= b
            PROVE  Upto(guesser', resetRow', c, v) \subseteq Upto(guesser, resetRow, c, v)
        <4>1. ASSUME NEW o \in Guessers, CountOf(guesser', resetRow', c, o) <= v
              PROVE  CountOf(guesser, resetRow, c, o) <= v
          <5>1. CountOf(guesser', resetRow', c, o) \in Nat /\ v \in Nat
            BY <2>2, CountsAreBounded, ResetBounds DEF Counts
          <5>2. CountOf(guesser', resetRow', c, o) <= b
            BY <5>1, <4>1, <3>8, <2>2
          <5>3. QED BY <5>2, <3>5, <4>1
        <4>2. QED BY <4>1 DEF Upto
      <3>9. Cardinality(Behind(SpreadOf(guesser, resetRow, c))) + 1
              <= Cardinality(Behind(SpreadOf(guesser', resetRow', c)))
        BY <3>6, <3>7, <3>8, <2>2, OneCountRises
      <3>10. Cardinality(Behind(SpreadOf(guesser, resetRow, c))) \in Nat
             /\ Cardinality(Behind(SpreadOf(guesser', resetRow', c))) \in Nat
        BY <2>2, SpreadIsSpread, SpreadsCount
      <3>11. wrongGuesses'[c] = wrongGuesses[c] + 1 /\ wrongGuesses[c] \in Nat
        BY <2>1, <2>2
      <3>12. wrongGuesses[c] <= Cardinality(Behind(SpreadOf(guesser, resetRow, c)))
        BY <2>2 DEF GuessesOK
      <3>13. QED BY <3>9, <3>10, <3>11, <3>12
    <2>5. QED BY <2>3, <2>4 DEF GuessesOK
  <1>8. CASE UNCHANGED resetVars
    BY <1>8 DEF resetVars, GuessesOK
  <1>9. QED BY <1>2, <1>3, <1>5, <1>6, <1>7, <1>8 DEF ResetNext

(* A reset code is compared with fewer wrong guesses than there are ways to spread    *)
(* the handlers over the counts, however they rewind one another (AuthService.        *)
(* resetPassword reads the count, verifies, then writes it back).                     *)
THEOREM GuessesAreBounded == ResetSpec => []GuessesBounded
  <1> DEFINE ResetInv == ResetTypeOK /\ GuessesOK
  <1>1. ResetInit => ResetInv
    BY ResetInitTypeOK, ResetInitGuesses
  <1>2. ResetInv /\ [ResetNext]_resetVars => ResetInv'
    BY ResetStepTypeOK, ResetStepGuesses
  <1>3. ResetInv => GuessesBounded
    <2> SUFFICES ASSUME ResetInv, NEW c \in Codes
        PROVE  wrongGuesses[c] < Cardinality(Spreads)
      BY DEF GuessesBounded
    <2> DEFINE behind == Cardinality(Behind(SpreadOf(guesser, resetRow, c)))
    <2>1. wrongGuesses[c] <= behind /\ wrongGuesses[c] \in Nat
      BY DEF GuessesOK, ResetTypeOK
    <2>2. behind < Cardinality(Spreads) /\ behind \in Nat
      BY SpreadIsSpread, BehindIsNotAll, SpreadsCount DEF ResetTypeOK
    <2>3. Cardinality(Spreads) \in Nat
      BY SpreadsAreFinite, FS_CardinalityType
    <2>4. QED BY <2>1, <2>2, <2>3
  <1>4. QED BY <1>1, <1>2, <1>3, PTL DEF ResetSpec
=============================================================================
