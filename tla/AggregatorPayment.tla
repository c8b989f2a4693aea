------------------------- MODULE AggregatorPayment -------------------------
(***************************************************************************)
(* Payment of an order through the aggregator (PaymentsService), composed  *)
(* with the order row of OrderLifecycle.                                    *)
(*                                                                          *)
(* Four callers settle a payment and none of them waits for the others:    *)
(* the customer who opens a transaction, the customer who reads the status *)
(* of the payment, the operator's webhook, and the reconciliation sweep.   *)
(* Each of them reads the payment, talks to the gateway, and writes in a   *)
(* later transaction, so each is a context `call[c]` with a program point.  *)
(*                                                                          *)
(* A transaction of the gateway identifies the opening that created it:    *)
(* expiresAt is written with providerReference, so the validation window   *)
(* is that of the transaction.  The gateway is external: it tells the truth *)
(* when it is asked (verify), and announces what it likes in a webhook.    *)
(***************************************************************************)
EXTENDS OrderLifecycle, FiniteSets

CONSTANTS
  Transactions,  \* what the gateway can open: bounds how often a payment is initiated
  Callers,       \* the contexts that run a handler of PaymentsService
  Sweeper        \* the one of them the reconciliation job runs in

NoTransaction == "NoTransaction"
ASSUME SweeperAssumption == Sweeper \in Callers
ASSUME NoTransactionAssumption == NoTransaction \notin Transactions

VARIABLES
  payment,            \* payment.status of each order
  providerReference,  \* payment.providerReference
  elapsed,            \* transactions whose validation window is over
  gateway,            \* external: the state of each transaction at the operator
  owner,              \* external: the order each transaction was opened for
  webhookEvent,       \* transactions already in the register of webhooks
  refundAlert,        \* orders for which "REMBOURSEMENT À TRAITER" was logged
  dismissed,          \* history: orders whose paid transaction was announced once EXPIRED
  settlements,        \* history: settlements won, per order
  reopenings,         \* history: settled payments taken back to an open status
  call                \* the contexts of the handlers

payVars == <<payment, providerReference, elapsed, gateway, owner, webhookEvent,
             refundAlert, dismissed, settlements, reopenings, call>>
allVars == <<vars, payVars>>

SETTLED == {"SUCCEEDED", "FAILED", "EXPIRED", "REFUNDED"}

Nothing == [at |-> "idle", order |-> NoOrder, tx |-> NoTransaction, says |-> "NONE"]

\* A handler between two of its calls; `says` is what it knows of the outcome.
CallContext ==
  [at : {"idle", "initiateCall", "initiateWrite", "lookup", "verify",
         "poll", "settle", "release"},
   order : Orders \cup {NoOrder},
   tx : Transactions \cup {NoTransaction},
   says : {"NONE", "PENDING", "PAID", "FAILED", "EXPIRED"}]

PaymentTypeOK ==
  /\ TypeOK
  /\ payment \in [Orders -> {"PENDING", "AWAITING_CONFIRMATION"} \cup SETTLED]
  /\ providerReference \in [Orders -> Transactions \cup {NoTransaction}]
  /\ elapsed \subseteq Transactions
  /\ gateway \in [Transactions -> {"UNUSED", "OPEN", "PAID", "REFUSED"}]
  /\ owner \in [Transactions -> Orders \cup {NoOrder}]
  /\ webhookEvent \subseteq Transactions
  /\ refundAlert \subseteq Orders
  /\ dismissed \subseteq Orders
  /\ settlements \in [Orders -> Nat]
  /\ reopenings \in [Orders -> Nat]
  /\ call \in [Callers -> CallContext]

PaymentInit ==
  /\ Init
  /\ payment = [o \in Orders |-> "PENDING"]
  /\ providerReference = [o \in Orders |-> NoTransaction]
  /\ elapsed = {}
  /\ gateway = [t \in Transactions |-> "UNUSED"]
  /\ owner = [t \in Transactions |-> NoOrder]
  /\ webhookEvent = {}
  /\ refundAlert = {}
  /\ dismissed = {}
  /\ settlements = [o \in Orders |-> 0]
  /\ reopenings = [o \in Orders |-> 0]
  /\ call = [c \in Callers |-> Nothing]

-----------------------------------------------------------------------------
(* Contexts.                                                               *)

Goes(c, at, o, t, says) ==
  call' = [call EXCEPT ![c] = [at |-> at, order |-> o, tx |-> t, says |-> says]]

Finishes(c) == call' = [call EXCEPT ![c] = Nothing]

historyAndRegister == <<webhookEvent, refundAlert, dismissed, settlements, reopenings>>

-----------------------------------------------------------------------------
(* The operator and the clock.                                             *)

\* The customer validates, or refuses, on the phone.
CustomerAnswers(t, answer) ==
  /\ gateway[t] = "OPEN"
  /\ answer \in {"PAID", "REFUSED"}
  /\ gateway' = [gateway EXCEPT ![t] = answer]
  /\ UNCHANGED <<vars, payment, providerReference, elapsed, owner, historyAndRegister, call>>

\* Every window has the same length: the older ones of the order end first.
WindowElapses(o) ==
  LET t == providerReference[o] IN
  /\ t # NoTransaction
  /\ t \notin elapsed
  /\ elapsed' = elapsed \cup {u \in Transactions : owner[u] = o}
  /\ UNCHANGED <<vars, payment, providerReference, gateway, owner, historyAndRegister, call>>

-----------------------------------------------------------------------------
(* initiate.                                                               *)

\* The order and its payment are read; a paid or cancelled one is refused.
InitiateRead(c, o) ==
  /\ c # Sweeper
  /\ call[c].at = "idle"
  /\ payment[o] # "SUCCEEDED"
  /\ status[o] # "CANCELLED"
  /\ Goes(c, "initiateCall", o, NoTransaction, "NONE")
  /\ UNCHANGED <<vars, payment, providerReference, elapsed, gateway, owner, historyAndRegister>>

\* The gateway opens a transaction, or refuses it at once.
InitiateCall(c, t, says) ==
  /\ call[c].at = "initiateCall"
  /\ gateway[t] = "UNUSED"
  /\ says \in {"PENDING", "FAILED"}
  /\ gateway' = [gateway EXCEPT ![t] = IF says = "PENDING" THEN "OPEN" ELSE "REFUSED"]
  /\ owner' = [owner EXCEPT ![t] = call[c].order]
  /\ Goes(c, "initiateWrite", call[c].order, t, says)
  /\ UNCHANGED <<vars, payment, providerReference, elapsed, historyAndRegister>>

\* Faulty variant: an immediate refusal is written, and nobody settles it.
InitiateForgets(c) ==
  LET o == call[c].order
      t == call[c].tx IN
  /\ call[c].at = "initiateWrite"
  /\ payment' = [payment EXCEPT ![o] =
                   IF call[c].says = "PENDING" THEN "AWAITING_CONFIRMATION" ELSE "PENDING"]
  /\ providerReference' = [providerReference EXCEPT ![o] = t]
  /\ elapsed' = elapsed \ {t}
  /\ reopenings' = [reopenings EXCEPT ![o] = IF payment[o] \in SETTLED THEN @ + 1 ELSE @]
  /\ Finishes(c)
  /\ UNCHANGED <<vars, gateway, owner, webhookEvent, refundAlert, dismissed, settlements>>

(* The payment is updated with no condition on its status; an immediate     *)
(* answer of the gateway is settled next.                                   *)
InitiateWrite(c) ==
  LET o == call[c].order
      t == call[c].tx IN
  /\ call[c].at = "initiateWrite"
  /\ payment' = [payment EXCEPT ![o] =
                   IF call[c].says = "PENDING" THEN "AWAITING_CONFIRMATION" ELSE "PENDING"]
  /\ providerReference' = [providerReference EXCEPT ![o] = t]
  /\ elapsed' = elapsed \ {t}
  /\ reopenings' = [reopenings EXCEPT ![o] = IF payment[o] \in SETTLED THEN @ + 1 ELSE @]
  /\ IF call[c].says = "PENDING"
       THEN Finishes(c)
       ELSE Goes(c, "settle", o, t, call[c].says)
  /\ UNCHANGED <<vars, gateway, owner, webhookEvent, refundAlert, dismissed, settlements>>

-----------------------------------------------------------------------------
(* handleCallback.                                                         *)

(* What a webhook may be about: any transaction that was opened, whatever it  *)
(* says of it, since one of the operators does not sign what it announces.   *)
Announced(t) == gateway[t] # "UNUSED"

(* recordWebhook: the unique index tells a replay, which is acknowledged    *)
(* and dropped; when the register is down the handler goes on without it.   *)
CallbackArrives(c, t, says) ==
  /\ c # Sweeper
  /\ call[c].at = "idle"
  /\ Announced(t)
  /\ \/ /\ t \notin webhookEvent
        /\ webhookEvent' \in {webhookEvent, webhookEvent \cup {t}}
        /\ Goes(c, "lookup", NoOrder, t, says)
        /\ UNCHANGED dismissed
     \/ /\ t \in webhookEvent
        /\ dismissed' =
             dismissed \cup {o \in Orders : /\ providerReference[o] = t
                                            /\ payment[o] = "EXPIRED"
                                            /\ says = "PAID"
                                            /\ gateway[t] = "PAID"}
        /\ UNCHANGED <<webhookEvent, call>>
  /\ UNCHANGED <<vars, payment, providerReference, elapsed, gateway, owner,
                 refundAlert, settlements, reopenings>>

\* The payment is looked up by the reference of the transaction: none is ignored.
CallbackUnknown(c) ==
  /\ call[c].at = "lookup"
  /\ \A o \in Orders : providerReference[o] # call[c].tx
  /\ Finishes(c)
  /\ UNCHANGED <<vars, payment, providerReference, elapsed, gateway, owner, historyAndRegister>>

(* A settled payment is left alone; a success announced on an expired one   *)
(* is logged for a manual refund.                                           *)
CallbackSettled(c, o) ==
  /\ call[c].at = "lookup"
  /\ providerReference[o] = call[c].tx
  /\ payment[o] \in SETTLED
  /\ LET orphan == {x \in {o} : payment[x] = "EXPIRED" /\ call[c].says = "PAID"} IN
     /\ refundAlert' = refundAlert \cup orphan
     /\ dismissed' = dismissed \cup orphan
  /\ Finishes(c)
  /\ UNCHANGED <<vars, payment, providerReference, elapsed, gateway, owner,
                 webhookEvent, settlements, reopenings>>

\* Faulty variant: a success announced by the webhook is believed.
CallbackBelieved(c, o) ==
  /\ call[c].at = "lookup"
  /\ providerReference[o] = call[c].tx
  /\ payment[o] \notin SETTLED
  /\ IF call[c].says = "PENDING"
       THEN Finishes(c)
       ELSE Goes(c, "settle", o, call[c].tx, call[c].says)
  /\ UNCHANGED <<vars, payment, providerReference, elapsed, gateway, owner, historyAndRegister>>

\* An open payment: a success is verified first, a failure is settled as told.
CallbackOpen(c, o) ==
  /\ call[c].at = "lookup"
  /\ providerReference[o] = call[c].tx
  /\ payment[o] \notin SETTLED
  /\ \/ call[c].says = "PAID" /\ Goes(c, "verify", o, call[c].tx, "NONE")
     \/ call[c].says = "FAILED" /\ Goes(c, "settle", o, call[c].tx, "FAILED")
     \/ call[c].says = "PENDING" /\ Finishes(c)
  /\ UNCHANGED <<vars, payment, providerReference, elapsed, gateway, owner, historyAndRegister>>

-----------------------------------------------------------------------------
(* status and reconcilePending.                                            *)

\* The customer reads the payment: an open transaction is verified.
Poll(c, o) ==
  /\ c # Sweeper
  /\ call[c].at = "idle"
  /\ payment[o] = "AWAITING_CONFIRMATION"
  /\ Goes(c, "poll", o, providerReference[o], "NONE")
  /\ UNCHANGED <<vars, payment, providerReference, elapsed, gateway, owner, historyAndRegister>>

\* Faulty variant: the window is never looked at, the gateway alone decides.
ReconcileByGateway(o) ==
  /\ call[Sweeper].at = "idle"
  /\ payment[o] = "AWAITING_CONFIRMATION"
  /\ Goes(Sweeper, "verify", o, providerReference[o], "NONE")
  /\ UNCHANGED <<vars, payment, providerReference, elapsed, gateway, owner, historyAndRegister>>

(* The sweep takes one payment of its batch: expiry is looked at first, and *)
(* only a window that is still open is verified.                            *)
Reconcile(o) ==
  LET t == providerReference[o] IN
  /\ call[Sweeper].at = "idle"
  /\ payment[o] = "AWAITING_CONFIRMATION"
  /\ \/ t \in elapsed /\ Goes(Sweeper, "settle", o, t, "EXPIRED")
     \/ t \notin elapsed /\ Goes(Sweeper, "verify", o, t, "NONE")
  /\ UNCHANGED <<vars, payment, providerReference, elapsed, gateway, owner, historyAndRegister>>

\* What the gateway answers about t when it answers.
verify(t) ==
  CASE gateway[t] = "PAID" -> "PAID" [] gateway[t] = "REFUSED" -> "FAILED" [] OTHER -> "PENDING"

\* The gateway answers that the transaction is decided.
VerifyDecided(c) ==
  /\ call[c].at \in {"verify", "poll"}
  /\ verify(call[c].tx) # "PENDING"
  /\ Goes(c, "settle", call[c].order, call[c].tx, verify(call[c].tx))
  /\ UNCHANGED <<vars, payment, providerReference, elapsed, gateway, owner, historyAndRegister>>

\* It answers "in progress", or not at all: only a read of the status may expire.
VerifyUndecided(c) ==
  /\ call[c].at \in {"verify", "poll"}
  /\ IF call[c].at = "poll" /\ call[c].tx \in elapsed
       THEN Goes(c, "settle", call[c].order, call[c].tx, "EXPIRED")
       ELSE Finishes(c)
  /\ UNCHANGED <<vars, payment, providerReference, elapsed, gateway, owner, historyAndRegister>>

-----------------------------------------------------------------------------
(* settle.                                                                 *)

SettledStatus(says) ==
  CASE says = "PAID" -> "SUCCEEDED" [] says = "EXPIRED" -> "EXPIRED" [] OTHER -> "FAILED"

\* Faulty variant: the status read in the transaction decides, nothing claims.
ClaimBlindly(c) ==
  LET o == call[c].order IN
  /\ call[c].at = "settle"
  /\ payment' = [payment EXCEPT ![o] = SettledStatus(call[c].says)]
  /\ settlements' = [settlements EXCEPT ![o] = @ + 1]

\* The conditional switch that designates the only winner of a settlement.
Claim(c) ==
  LET o == call[c].order IN
  /\ call[c].at = "settle"
  /\ payment[o] \notin SETTLED
  /\ payment' = [payment EXCEPT ![o] = SettledStatus(call[c].says)]
  /\ settlements' = [settlements EXCEPT ![o] = @ + 1]

settleFrame == <<providerReference, elapsed, gateway, owner, webhookEvent, refundAlert,
                 dismissed, reopenings>>

\* A success confirms the order, whatever the order has become.
SettlePaid(c) ==
  /\ call[c].says = "PAID"
  /\ Claim(c)
  /\ updateStatusOf(call[c].order, "CONFIRMED")
  /\ Finishes(c)
  /\ UNCHANGED <<reservation, req, settleFrame>>

\* Faulty variant: the payment is settled and the order left to the manager.
SettleWithoutOrder(c) ==
  /\ call[c].says \in {"FAILED", "EXPIRED"}
  /\ Claim(c)
  /\ Finishes(c)
  /\ UNCHANGED <<vars, settleFrame>>

\* A failure or an expiry cancels the order, through the single point.
SettleUnpaid(c) ==
  LET o == call[c].order IN
  /\ call[c].says \in {"FAILED", "EXPIRED"}
  /\ Claim(c)
  /\ cancelOrderAndReleaseStock(o)
  /\ IF reservation[o] = "NONE"
       THEN Finishes(c)
       ELSE Goes(c, "release", o, call[c].tx, call[c].says)
  /\ UNCHANGED <<reservation, req, settleFrame>>

\* The order was already cancelled, or delivered: only the payment is settled.
SettleUnpaidTooLate(c) ==
  /\ call[c].says \in {"FAILED", "EXPIRED"}
  /\ Claim(c)
  /\ status[call[c].order] \notin STOCK_HELD_STATUSES
  /\ Finishes(c)
  /\ UNCHANGED <<vars, settleFrame>>

\* The loser finds the payment settled and does nothing.
SettleLoses(c) ==
  /\ call[c].at = "settle"
  /\ payment[call[c].order] \in SETTLED
  /\ Finishes(c)
  /\ UNCHANGED <<vars, payment, providerReference, elapsed, gateway, owner, historyAndRegister>>

\* The network call that follows a cancellation; a failure is only logged.
SettleReleases(c) ==
  /\ call[c].at = "release"
  /\ \/ siteLiberer(call[c].order)
     \/ UNCHANGED reservation
  /\ Finishes(c)
  /\ UNCHANGED <<status, returned, revived, req, payment, providerReference, elapsed, gateway,
                 owner, historyAndRegister>>

\* The process is recycled, or the gateway or the database refuses.
CallAbandoned(c) ==
  /\ call[c].at # "idle"
  /\ Finishes(c)
  /\ UNCHANGED <<vars, payment, providerReference, elapsed, gateway, owner, historyAndRegister>>

-----------------------------------------------------------------------------
HandlerStarts(c) ==
  \/ \E o \in Orders : InitiateRead(c, o) \/ Poll(c, o)
  \/ \E t \in Transactions, says \in {"PENDING", "PAID", "FAILED"} :
       CallbackArrives(c, t, says)

HandlerStep(c) ==
  \/ \E t \in Transactions, says \in {"PENDING", "FAILED"} : InitiateCall(c, t, says)
  \/ InitiateWrite(c)
  \/ CallbackUnknown(c)
  \/ \E o \in Orders : CallbackSettled(c, o) \/ CallbackOpen(c, o)
  \/ VerifyDecided(c) \/ VerifyUndecided(c)
  \/ SettlePaid(c) \/ SettleUnpaid(c) \/ SettleUnpaidTooLate(c) \/ SettleLoses(c)
  \/ SettleReleases(c)

OrderNext == Next /\ UNCHANGED payVars

PaymentNext ==
  \/ OrderNext
  \/ \E t \in Transactions, answer \in {"PAID", "REFUSED"} : CustomerAnswers(t, answer)
  \/ \E o \in Orders : WindowElapses(o) \/ Reconcile(o)
  \/ \E c \in Callers : HandlerStarts(c) \/ HandlerStep(c) \/ CallAbandoned(c)

PaymentSpec == PaymentInit /\ [][PaymentNext]_allVars

(* Time passes, so windows elapse; the job runs every few minutes and its   *)
(* batch covers every open payment, so no payment is skipped for ever, and  *)
(* a pass is not interrupted for ever (strong fairness).  The gateway may   *)
(* never answer, a webhook may never come and the customer never returns.   *)
FairPaymentSpec ==
  /\ PaymentSpec
  /\ \A o \in Orders : WF_allVars(WindowElapses(o)) /\ SF_allVars(Reconcile(o))
  /\ SF_allVars(HandlerStep(Sweeper))

-----------------------------------------------------------------------------
(* Properties.                                                             *)

(* "Un succès annoncé n'est jamais cru sur parole": a payment is recorded   *)
(* as succeeded only when a transaction of its order was really paid at the *)
(* operator, whatever webhooks announced and however they were interleaved. *)
SucceededOnlyIfPaid ==
  \A o \in Orders :
    payment[o] = "SUCCEEDED" => \E t \in Transactions : owner[t] = o /\ gateway[t] = "PAID"

(* The webhook, the sweep, the customer's poll and an immediate refusal may *)
(* all settle the same payment: one of them wins, and another settlement is *)
(* possible only after a new initiation reopened the payment.               *)
OneSettlementPerOpening ==
  \A o \in Orders :
    settlements[o] = reopenings[o] + (IF payment[o] \in SETTLED THEN 1 ELSE 0)

(* "Un paiement refusé ou abandonné doit rendre le stock, sinon le rayon se *)
(* vide de commandes qui n'ont jamais été payées": when a payment is failed *)
(* or expired, its order no longer holds goods.                             *)
UnpaidOrderHoldsNothing ==
  \A o \in Orders :
    payment[o] \in {"FAILED", "EXPIRED"} => status[o] \notin STOCK_HELD_STATUSES

\* The sweep reads the payment, or a handler is about to settle it.
Watched(o) ==
  \/ payment[o] = "AWAITING_CONFIRMATION"
  \/ payment[o] \notin SETTLED /\ \E c \in Callers : call[c].at = "settle" /\ call[c].order = o

\* It was opened, is not paid, and the order holds goods all the same.
Unwatched(o) ==
  /\ providerReference[o] # NoTransaction /\ payment[o] # "SUCCEEDED"
  /\ status[o] \in STOCK_HELD_STATUSES
  /\ ~ Watched(o)

(* "Un paiement mobile money abandonné laissait sa commande en attente et    *)
(* son stock décrémenté POUR TOUJOURS": an order whose payment was opened    *)
(* and did not succeed keeps its goods only while something will decide it.  *)
(* No step leaves it with nobody watching, but two: a process recycled       *)
(* between the write of an immediate refusal (PENDING, which the sweep does  *)
(* not read) and its settlement, and a manager who moves an order whose      *)
(* payment is settled.                                                      *)
NoOrderIsForgotten ==
  [][\A o \in Orders :
       Unwatched(o)' =>
         \/ Unwatched(o)
         \/ status'[o] # status[o]
         \/ \E c \in Callers :
              call[c].at = "settle" /\ call[c].order = o /\ CallAbandoned(c)]_allVars

\* How the payment of each order stands, and what the operator holds for it.
standing ==
  [o \in Orders |-> CASE payment[o] = "SUCCEEDED" -> "paid"
                      [] payment[o] \in SETTLED \ {"SUCCEEDED"} -> "unpaid"
                      [] OTHER -> "undecided"]
moneyTaken == {o \in Orders : \E t \in Transactions : owner[t] = o /\ gateway[t] = "PAID"}
holders == {o \in Orders : status[o] \in STOCK_HELD_STATUSES}

Paying == INSTANCE PaymentContract
  WITH outcome <- standing, money <- moneyTaken, held <- holders, decisions <- settlements

(* The handlers implement the payment contract: whatever webhooks, polls,    *)
(* sweeps and openings cross, a payment is decided once for each time it is  *)
(* opened, "paid" on money the operator took for that order ("Un succès      *)
(* annoncé n'est jamais cru sur parole"), "unpaid" with its goods returned.  *)
ImplementsPaymentContract == Paying!Spec

(* An open transaction does not stay open: when the webhook is lost, the     *)
(* gateway silent and the customer gone, the sweep expires the payment.       *)
AwaitedPaymentMoves ==
  \A o \in Orders :
    payment[o] = "AWAITING_CONFIRMATION" ~> payment[o] # "AWAITING_CONFIRMATION"

(* "Statuts de paiement déjà réglés : aucune transition ne peut les         *)
(* rouvrir": a payment that succeeded stays succeeded.                      *)
PaidStaysPaid ==
  [][\A o \in Orders : payment[o] = "SUCCEEDED" => payment'[o] = "SUCCEEDED"]_allVars

=============================================================================
