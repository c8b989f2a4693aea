--------------------------- MODULE DirectPayments ---------------------------
(***************************************************************************)
(* Payment by direct transfer (DirectPaymentsService).  The customer sends *)
(* the money to AGRIM's own number, then declares the reference of the     *)
(* transfer; a person of the staff finds the transfer on the account and   *)
(* accepts, rejects or keeps the declaration under review.  No operator is *)
(* asked anything: the only proof is the reference, which may pay for one  *)
(* order only, and the decision, which must be taken once.                 *)
(*                                                                          *)
(* Declarations and reviews read the payment in one round trip and write   *)
(* it in a later transaction.  They run beside the requests that move the  *)
(* order itself (OrderLifecycle), which they never look at again.          *)
(***************************************************************************)
EXTENDS OrderLifecycle, FiniteSets

CONSTANTS
  Desks,        \* request contexts that serve declarations and reviews
  Spellings,    \* references as customers type them: spaces, lower case
  Transfer,     \* the transfer a spelling designates, as a function
  maxPerOrder,  \* PAYMENT_DECLARATION_LIMITS.maxPerOrder
  MaxConfirmed  \* bound: no new review of a payment confirmed this often

ASSUME DesksAssumption == IsFiniteSet(Desks) /\ Desks # {}
ASSUME TransferAssumption ==
  /\ Transfer \in [Spellings -> Spellings]
  /\ \A s \in Spellings : Transfer[Transfer[s]] = Transfer[s]
ASSUME LimitsAssumption == maxPerOrder \in Nat \ {0} /\ MaxConfirmed \in Nat

VARIABLES
  payment,      \* payment.status of each order
  declaration,  \* the declarations, by their unique normalised reference
  confirmed,    \* history: confirmations written for each order
  reopened,     \* history: writes that took the payment out of SUCCEEDED
  desk          \* the request contexts

directVars == <<payment, declaration, confirmed, reopened, desk>>
allDirectVars == <<vars, directVars>>

PAYMENT_STATUSES ==
  {"PENDING", "DECLARED_BY_CUSTOMER", "UNDER_REVIEW", "SUCCEEDED", "REJECTED"}

DECLARATION_STATUSES == {"DECLARED", "VERIFYING", "ACCEPTED", "REJECTED"}

\* The statuses that wait for a decision of the staff.
AWAITING_REVIEW == {"DECLARED_BY_CUSTOMER", "UNDER_REVIEW"}

NoDeclaration == [order |-> NoOrder, status |-> "NONE"]
Declaration == [order : Orders, status : DECLARATION_STATUSES]

DeskIdle ==
  [at |-> "idle", order |-> NoOrder, reference |-> "none", matches |-> TRUE, seen |-> NoStatus]

ASSUME NoReferenceAssumption == "none" \notin Spellings

DeskContext ==
  [at : {"idle", "declareTxn", "reviewTxn", "rejectTxn", "confirmTxn"},
   order : Orders \cup {NoOrder},
   reference : Spellings \cup {"none"},
   matches : BOOLEAN,
   seen : ORDER_STATUSES \cup {NoStatus}]

\* The declarations filed for an order.
DeclarationsOf(o) == {k \in Spellings : declaration[k].order = o}

\* What listDeclarations shows when no filter is asked for.
listDeclarations == {k \in Spellings : declaration[k].status \in {"DECLARED", "VERIFYING"}}

DirectTypeOK ==
  /\ payment \in [Orders -> PAYMENT_STATUSES]
  /\ declaration \in [Spellings -> Declaration \cup {NoDeclaration}]
  /\ confirmed \in [Orders -> Nat]
  /\ reopened \in [Orders -> Nat]
  /\ desk \in [Desks -> DeskContext]

\* The order has just been placed: nothing is declared yet.
DirectInit ==
  /\ status = [o \in Orders |-> "PENDING"]
  /\ returned = [o \in Orders |-> 0]
  /\ revived = [o \in Orders |-> 0]
  /\ reservation \in [Orders -> {"NONE", "CONFIRMED"}]
  /\ req = [r \in Requests |-> Idle]
  /\ payment = [o \in Orders |-> "PENDING"]
  /\ declaration = [k \in Spellings |-> NoDeclaration]
  /\ confirmed = [o \in Orders |-> 0]
  /\ reopened = [o \in Orders |-> 0]
  /\ desk = [d \in Desks |-> DeskIdle]

-----------------------------------------------------------------------------
(* Writes.                                                                 *)

\* Faulty variant: the reference is kept as it was typed.
asTyped(s) == s

\* `trim`, white space removed, upper case: one spelling for each transfer.
normalised(s) == Transfer[s]

\* payment.update({ data: { status } }) with no condition on the row.
SetPayment(o, s) ==
  /\ payment' = [payment EXCEPT ![o] = s]
  /\ reopened' =
       [reopened EXCEPT ![o] = IF payment[o] = "SUCCEEDED" /\ s # "SUCCEEDED" THEN @ + 1 ELSE @]

SetDeclaration(k, s) == declaration' = [declaration EXCEPT ![k].status = s]

DeskStarts(d, at, o, k, matches) ==
  desk' = [desk EXCEPT ![d] =
             [at |-> at, order |-> o, reference |-> k, matches |-> matches, seen |-> status[o]]]

DeskEnds(d) == desk' = [desk EXCEPT ![d] = DeskIdle]

-----------------------------------------------------------------------------
(* The customer declares.                                                  *)

\* declare up to its transaction: order, payment and declarations are read once.
Declare(d, o, s, matches) ==
  /\ desk[d].at = "idle"
  /\ status[o] # "CANCELLED"
  /\ payment[o] # "SUCCEEDED"
  /\ Cardinality(DeclarationsOf(o)) < maxPerOrder
  /\ DeskStarts(d, "declareTxn", o, normalised(s), matches)
  /\ UNCHANGED <<payment, declaration, confirmed, reopened>>

(* The transaction: the declaration, then the payment, whatever became of   *)
(* it since; an amount that differs goes straight under review.            *)
DeclareCommits(d) ==
  LET k == desk[d].reference
      o == desk[d].order IN
  /\ desk[d].at = "declareTxn"
  /\ declaration[k] = NoDeclaration
  /\ declaration' = [declaration EXCEPT ![k] = [order |-> o, status |-> "DECLARED"]]
  /\ SetPayment(o, IF desk[d].matches THEN "DECLARED_BY_CUSTOMER" ELSE "UNDER_REVIEW")
  /\ DeskEnds(d)
  /\ UNCHANGED confirmed

\* P2002 on the normalised reference: 409, the transaction writes nothing.
DeclareRefused(d) ==
  /\ desk[d].at = "declareTxn"
  /\ declaration[desk[d].reference] # NoDeclaration
  /\ DeskEnds(d)
  /\ UNCHANGED <<payment, declaration, confirmed, reopened>>

-----------------------------------------------------------------------------
(* The staff reviews.                                                      *)

\* review up to its transaction: any declaration that exists may be decided.
Review(d, k, at) ==
  /\ desk[d].at = "idle"
  /\ declaration[k] # NoDeclaration
  /\ confirmed[declaration[k].order] < MaxConfirmed
  /\ DeskStarts(d, at, declaration[k].order, k, TRUE)
  /\ UNCHANGED <<payment, declaration, confirmed, reopened>>

\* Faulty variant: only the payment is put under review.
ReviewPaymentOnly(d) ==
  /\ desk[d].at = "reviewTxn"
  /\ SetPayment(desk[d].order, "UNDER_REVIEW")
  /\ DeskEnds(d)
  /\ UNCHANGED <<declaration, confirmed>>

\* REVIEW: no condition, a confirmed payment goes back under review.
ReviewCommits(d) ==
  /\ desk[d].at = "reviewTxn"
  /\ SetDeclaration(desk[d].reference, "VERIFYING")
  /\ SetPayment(desk[d].order, "UNDER_REVIEW")
  /\ DeskEnds(d)
  /\ UNCHANGED confirmed

\* Faulty variant: the rejection of a settled payment still marks the declaration.
RejectDeclarationAnyway(d) ==
  LET o == desk[d].order IN
  /\ desk[d].at = "rejectTxn"
  /\ SetDeclaration(desk[d].reference, "REJECTED")
  /\ IF payment[o] = "SUCCEEDED"
     THEN UNCHANGED <<payment, reopened>>
     ELSE SetPayment(o, "REJECTED")
  /\ DeskEnds(d)
  /\ UNCHANGED confirmed

\* REJECT: the payment is claimed by the WHERE of its UPDATE; the order stays.
RejectCommits(d) ==
  /\ desk[d].at = "rejectTxn"
  /\ payment[desk[d].order] # "SUCCEEDED"
  /\ SetPayment(desk[d].order, "REJECTED")
  /\ SetDeclaration(desk[d].reference, "REJECTED")
  /\ DeskEnds(d)
  /\ UNCHANGED confirmed

\* updateMany where the status is not settled: one confirmation has it.
ClaimPayment(o) ==
  /\ payment[o] # "SUCCEEDED"
  /\ payment' = [payment EXCEPT ![o] = "SUCCEEDED"]
  /\ confirmed' = [confirmed EXCEPT ![o] = @ + 1]
  /\ UNCHANGED reopened

(* CONFIRM: the payment is claimed, the declaration accepted, and the order *)
(* confirmed if it was PENDING when it was read.  True if it won.          *)
ConfirmCommits(d) ==
  /\ desk[d].at = "confirmTxn"
  /\ ClaimPayment(desk[d].order)
  /\ SetDeclaration(desk[d].reference, "ACCEPTED")
  /\ IF desk[d].seen = "PENDING"
     THEN updateStatusOf(desk[d].order, "CONFIRMED")
     ELSE UNCHANGED <<status, returned, revived>>
  /\ DeskEnds(d)

\* The claim found the payment settled: 409, nothing is applied twice.
ReviewLoses(d) ==
  /\ desk[d].at \in {"rejectTxn", "confirmTxn"}
  /\ payment[desk[d].order] = "SUCCEEDED"
  /\ DeskEnds(d)
  /\ UNCHANGED <<payment, declaration, confirmed, reopened>>

\* The process is recycled before the transaction.
DeskAbandoned(d) ==
  /\ desk[d].at # "idle"
  /\ DeskEnds(d)
  /\ UNCHANGED <<payment, declaration, confirmed, reopened>>

-----------------------------------------------------------------------------
CustomerDeclares(d) ==
  \/ \E o \in Orders, s \in Spellings, matches \in BOOLEAN : Declare(d, o, s, matches)
  \/ DeclareCommits(d)
  \/ DeclareRefused(d)

StaffReviews(d) ==
  \/ \E k \in Spellings, at \in {"reviewTxn", "rejectTxn", "confirmTxn"} : Review(d, k, at)
  \/ ReviewCommits(d)
  \/ RejectCommits(d)
  \/ ReviewLoses(d)

DeskStep(d) == CustomerDeclares(d) \/ StaffReviews(d) \/ DeskAbandoned(d)

DirectNext ==
  \/ Next /\ UNCHANGED directVars
  \/ \E d \in Desks : DeskStep(d) /\ UNCHANGED vars
  \/ \E d \in Desks : ConfirmCommits(d) /\ UNCHANGED <<reservation, req>>

DirectSpec == DirectInit /\ [][DirectNext]_allDirectVars

-----------------------------------------------------------------------------
(* Properties.                                                             *)

(* A payment is SUCCEEDED only while one of the order's own declarations    *)
(* is accepted: whatever declarations, reviews and rejections cross, the    *)
(* staff can always show which transfer paid for the order.                *)
SuccessHasItsDeclaration ==
  \A o \in Orders :
    payment[o] = "SUCCEEDED" => \E k \in DeclarationsOf(o) : declaration[k].status = "ACCEPTED"

(* A payment that waits for the staff is in the list the staff works from:  *)
(* a customer told "AGRIM verifie" is never forgotten, even when another    *)
(* declaration of the same order is decided in between.                    *)
WaitingPaymentIsQueued ==
  \A o \in Orders :
    payment[o] \in AWAITING_REVIEW => DeclarationsOf(o) \cap listDeclarations # {}

(* The customer is told the payment is confirmed once for each time it was  *)
(* reopened: of two people confirming together one gets 409.               *)
ConfirmedOncePerOpening ==
  \A o \in Orders :
    confirmed[o] = reopened[o] + (IF payment[o] = "SUCCEEDED" THEN 1 ELSE 0)

(* The limit of declarations is checked on a count that parallel requests   *)
(* all read: it can be passed, by no more than the requests in flight.     *)
DeclarationsBounded ==
  \A o \in Orders :
    Cardinality(DeclarationsOf(o)) + Cardinality({d \in Desks : desk[d].at = "declareTxn" /\ desk[d].order = o})
      <= maxPerOrder + Cardinality(Desks) - 1

(* One transfer pays for one order: however the reference is typed, two     *)
(* declarations of the same transfer are never both accepted.              *)
TransferPaysOneOrder ==
  \A j, k \in Spellings :
    /\ declaration[j].status = "ACCEPTED"
    /\ declaration[k].status = "ACCEPTED"
    /\ Transfer[j] = Transfer[k]
    => j = k

\* How the payment of each order stands, and the transfers accepted for it.
standing == [o \in Orders |-> IF payment[o] = "SUCCEEDED" THEN "paid" ELSE "undecided"]
transfersFound == {o \in Orders : \E k \in DeclarationsOf(o) : declaration[k].status = "ACCEPTED"}
holders == {o \in Orders : status[o] \in STOCK_HELD_STATUSES}

Paying == INSTANCE PaymentContract
  WITH outcome <- standing, money <- transfersFound, held <- holders, decisions <- confirmed

(* Declarations and reviews implement the payment contract: whatever people  *)
(* declare and decide together, a payment is confirmed once for each time it *)
(* is opened, on a transfer accepted for that order, and that transfer       *)
(* cannot be refused while the payment stands.                              *)
ImplementsPaymentContract == Paying!Spec
=============================================================================
