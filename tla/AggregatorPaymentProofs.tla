---------------------- MODULE AggregatorPaymentProofs ----------------------
(***************************************************************************)
(* Proofs about AggregatorPayment for any number of orders, transactions   *)
(* and concurrent handlers.  PayInv joins the invariant of the order row,  *)
(* which every settlement must keep, with what a handler knows at its      *)
(* program point: above all that a handler about to record a success has   *)
(* been told by the operator that this transaction of this order is paid.  *)
(***************************************************************************)
EXTENDS AggregatorPayment, OrderLifecycleProofs

CallTyped(c) ==
  /\ call[c].at \notin {"idle", "lookup"} => call[c].order \in Orders
  /\ call[c].at \in {"initiateWrite", "lookup", "verify", "poll", "settle"} =>
       call[c].tx \in Transactions
  /\ call[c].at = "initiateWrite" => call[c].says \in {"PENDING", "FAILED"}

\* The transaction a handler works on is one of the order it works on.
CallOwned(c) ==
  /\ call[c].tx # NoTransaction => gateway[call[c].tx] # "UNUSED"
  /\ call[c].at \in {"initiateWrite", "verify", "poll", "settle"} =>
       owner[call[c].tx] = call[c].order

\* A success about to be recorded is a fact at the operator.
CallTruthful(c) ==
  call[c].at = "settle" /\ call[c].says = "PAID" => gateway[call[c].tx] = "PAID"

\* The release call of a settlement follows its cancellation.
CallReleases(c) ==
  call[c].at = "release" =>
    status[call[c].order] = "CANCELLED" \/ revived[call[c].order] > 0

CallsOK ==
  \A c \in Callers : CallTyped(c) /\ CallOwned(c) /\ CallTruthful(c) /\ CallReleases(c)

\* An awaited payment names a transaction, which was opened for its order.
ReferencesOK ==
  \A o \in Orders :
    /\ payment[o] = "AWAITING_CONFIRMATION" => providerReference[o] # NoTransaction
    /\ providerReference[o] # NoTransaction =>
         /\ owner[providerReference[o]] = o
         /\ gateway[providerReference[o]] # "UNUSED"

PayInv ==
  /\ IInv
  /\ PaymentTypeOK
  /\ CallsOK
  /\ ReferencesOK
  /\ SucceededOnlyIfPaid
  /\ OneSettlementPerOpening

LEMMA PayInvInit == PaymentInit => PayInv
  <1> SUFFICES ASSUME PaymentInit PROVE PayInv
    OBVIOUS
  <1>1. IInv
    BY InitIInv DEF PaymentInit
  <1>2. PaymentTypeOK
    BY <1>1, NoTransactionAssumption, NoOrderAssumption
    DEF IInv, PaymentInit, PaymentTypeOK, Nothing, CallContext, SETTLED
  <1>3. CallsOK
    BY DEF PaymentInit, CallsOK, CallTyped, CallOwned, CallTruthful, CallReleases, Nothing
  <1>4. ReferencesOK /\ SucceededOnlyIfPaid /\ OneSettlementPerOpening
    BY DEF PaymentInit, ReferencesOK, SucceededOnlyIfPaid, OneSettlementPerOpening, SETTLED
  <1>5. QED
    BY <1>1, <1>2, <1>3, <1>4 DEF PayInv

-----------------------------------------------------------------------------
(* Steps that move a context and leave the tables alone.                   *)

\* The context of c becomes one that is consistent with the tables.
LEMMA ContextMoves ==
  ASSUME PayInv, NEW c \in Callers, NEW k \in CallContext,
         call' = [call EXCEPT ![c] = k],
         UNCHANGED <<vars, payment, providerReference, elapsed, gateway, owner,
                     settlements, reopenings>>,
         webhookEvent' \subseteq Transactions, refundAlert' \subseteq Orders,
         dismissed' \subseteq Orders,
         k.at \notin {"idle", "lookup"} => k.order \in Orders,
         k.at \in {"initiateWrite", "lookup", "verify", "poll", "settle"} => k.tx \in Transactions,
         k.at = "initiateWrite" => k.says \in {"PENDING", "FAILED"},
         k.tx # NoTransaction => gateway[k.tx] # "UNUSED",
         k.at \in {"initiateWrite", "verify", "poll", "settle"} => owner[k.tx] = k.order,
         k.at = "settle" /\ k.says = "PAID" => gateway[k.tx] = "PAID",
         k.at = "release" => status[k.order] = "CANCELLED" \/ revived[k.order] > 0
  PROVE  PayInv'
  <1>1. IInv'
    BY StepIInv DEF PayInv
  <1>2. PaymentTypeOK'
    BY <1>1 DEF IInv, PayInv, PaymentTypeOK
  <1>3. CallsOK'
    BY DEF PayInv, PaymentTypeOK, vars, CallsOK, CallTyped, CallOwned, CallTruthful, CallReleases
  <1>4. ReferencesOK' /\ SucceededOnlyIfPaid' /\ OneSettlementPerOpening'
    BY DEF PayInv, ReferencesOK, SucceededOnlyIfPaid, OneSettlementPerOpening
  <1>5. QED
    BY <1>1, <1>2, <1>3, <1>4 DEF PayInv

LEMMA NothingIsAContext ==
  /\ Nothing \in CallContext
  /\ Nothing.at = "idle" /\ Nothing.tx = NoTransaction
  BY DEF Nothing, CallContext

\* A handler that ends, whatever it wrote in the registers.
LEMMA ContextEnds ==
  ASSUME PayInv, NEW c \in Callers, Finishes(c),
         UNCHANGED <<vars, payment, providerReference, elapsed, gateway, owner,
                     settlements, reopenings>>,
         webhookEvent' \subseteq Transactions, refundAlert' \subseteq Orders,
         dismissed' \subseteq Orders
  PROVE  PayInv'
  BY NothingIsAContext, ContextMoves DEF Finishes

-----------------------------------------------------------------------------
(* The operator, the clock and the opening of a transaction.               *)

LEMMA StepOperator ==
  ASSUME PayInv, NEW t \in Transactions, NEW answer \in {"PAID", "REFUSED"},
         CustomerAnswers(t, answer)
  PROVE  PayInv'
  <1>1. IInv'
    BY StepIInv DEF PayInv, CustomerAnswers
  <1>2. PaymentTypeOK'
    BY <1>1 DEF IInv, PayInv, PaymentTypeOK, CustomerAnswers, historyAndRegister
  <1>3. CallsOK'
    BY DEF PayInv, PaymentTypeOK, CustomerAnswers, vars, CallsOK, CallTyped, CallOwned,
           CallTruthful, CallReleases, historyAndRegister
  <1>4. ReferencesOK' /\ SucceededOnlyIfPaid' /\ OneSettlementPerOpening'
    BY DEF PayInv, PaymentTypeOK, CustomerAnswers, ReferencesOK, SucceededOnlyIfPaid,
           OneSettlementPerOpening, historyAndRegister
  <1>5. QED
    BY <1>1, <1>2, <1>3, <1>4 DEF PayInv

LEMMA StepClock ==
  ASSUME PayInv, NEW o \in Orders, WindowElapses(o)
  PROVE  PayInv'
  <1>1. IInv'
    BY StepIInv DEF PayInv, WindowElapses
  <1>2. PaymentTypeOK'
    BY <1>1 DEF IInv, PayInv, PaymentTypeOK, WindowElapses, historyAndRegister
  <1>3. CallsOK'
    BY DEF PayInv, WindowElapses, vars, CallsOK, CallTyped, CallOwned,
           CallTruthful, CallReleases, historyAndRegister
  <1>4. ReferencesOK' /\ SucceededOnlyIfPaid' /\ OneSettlementPerOpening'
    BY DEF PayInv, WindowElapses, ReferencesOK, SucceededOnlyIfPaid,
           OneSettlementPerOpening, historyAndRegister
  <1>5. QED
    BY <1>1, <1>2, <1>3, <1>4 DEF PayInv

LEMMA StepInitiateCall ==
  ASSUME PayInv, NEW c \in Callers, NEW t \in Transactions, NEW says \in {"PENDING", "FAILED"},
         InitiateCall(c, t, says)
  PROVE  PayInv'
  <1>0. call[c].order \in Orders /\ t # NoTransaction
    BY NoTransactionAssumption DEF PayInv, CallsOK, CallTyped, InitiateCall
  <1>1. IInv'
    BY StepIInv DEF PayInv, InitiateCall
  <1>2. PaymentTypeOK'
    BY <1>0, <1>1 DEF IInv, PayInv, PaymentTypeOK, InitiateCall, Goes, CallContext,
                      historyAndRegister
  <1>3. CallsOK'
    BY <1>0 DEF PayInv, PaymentTypeOK, InitiateCall, Goes, vars, CallsOK, CallTyped, CallOwned,
                CallTruthful, CallReleases, CallContext
  <1>4. ReferencesOK'
    BY DEF PayInv, PaymentTypeOK, InitiateCall, ReferencesOK
  <1>5. SucceededOnlyIfPaid' /\ OneSettlementPerOpening'
    BY DEF PayInv, PaymentTypeOK, InitiateCall, SucceededOnlyIfPaid, OneSettlementPerOpening,
           historyAndRegister
  <1>6. QED
    BY <1>1, <1>2, <1>3, <1>4, <1>5 DEF PayInv

LEMMA StepInitiateWrite ==
  ASSUME PayInv, NEW c \in Callers, InitiateWrite(c)
  PROVE  PayInv'
  <1> DEFINE o == call[c].order
             t == call[c].tx
  <1>0. /\ o \in Orders /\ t \in Transactions /\ t # NoTransaction
        /\ owner[t] = o /\ gateway[t] # "UNUSED"
    BY NoTransactionAssumption
    DEF PayInv, CallsOK, CallTyped, CallOwned, InitiateWrite
  <1>1. IInv'
    BY StepIInv DEF PayInv, InitiateWrite
  <1>k. PICK k \in CallContext :
          /\ call' = [call EXCEPT ![c] = k]
          /\ \/ k = Nothing
             \/ k = [at |-> "settle", order |-> o, tx |-> t, says |-> "FAILED"]
    BY <1>0, NothingIsAContext
    DEF InitiateWrite, Goes, Finishes, PayInv, CallsOK, CallTyped, CallContext
  <1>p. PICK s \in {"PENDING", "AWAITING_CONFIRMATION"} :
          payment' = [payment EXCEPT ![o] = s]
    BY DEF InitiateWrite
  <1>f. /\ providerReference' = [providerReference EXCEPT ![o] = t]
        /\ elapsed' = elapsed \ {t}
        /\ reopenings' = [reopenings EXCEPT ![o] = IF payment[o] \in SETTLED
                                                     THEN reopenings[o] + 1 ELSE reopenings[o]]
        /\ UNCHANGED <<vars, gateway, owner, webhookEvent, refundAlert, dismissed, settlements>>
    BY DEF InitiateWrite
  <1> HIDE DEF o, t
  <1>2. PaymentTypeOK'
    BY <1>0, <1>1, <1>k, <1>p, <1>f DEF IInv, PayInv, PaymentTypeOK
  <1>3. CallsOK'
    BY <1>0, <1>k, <1>f, NothingIsAContext
    DEF PayInv, PaymentTypeOK, vars, CallsOK, CallTyped, CallOwned, CallTruthful, CallReleases
  <1>4. ReferencesOK'
    BY <1>0, <1>p, <1>f DEF PayInv, PaymentTypeOK, ReferencesOK
  <1>5. SucceededOnlyIfPaid'
    BY <1>0, <1>p, <1>f DEF PayInv, PaymentTypeOK, SucceededOnlyIfPaid
  <1>6. OneSettlementPerOpening'
    BY <1>0, <1>p, <1>f DEF PayInv, PaymentTypeOK, OneSettlementPerOpening, SETTLED
  <1>7. QED
    BY <1>1, <1>2, <1>3, <1>4, <1>5, <1>6 DEF PayInv

-----------------------------------------------------------------------------
(* Settlements.                                                            *)

\* What a won claim does to the payment, whatever happens to the order.
LEMMA ClaimKeepsAccounts ==
  ASSUME PayInv, NEW c \in Callers, Claim(c),
         UNCHANGED <<providerReference, gateway, owner, reopenings>>
  PROVE  /\ SucceededOnlyIfPaid' /\ OneSettlementPerOpening' /\ ReferencesOK'
         /\ payment' \in [Orders -> {"PENDING", "AWAITING_CONFIRMATION"} \cup SETTLED]
         /\ settlements' \in [Orders -> Nat]
  <1> DEFINE o == call[c].order
             s == SettledStatus(call[c].says)
  <1>0. o \in Orders /\ call[c].tx \in Transactions /\ owner[call[c].tx] = o
    BY DEF Claim, PayInv, CallsOK, CallTyped, CallOwned
  <1>1. s \in {"SUCCEEDED", "FAILED", "EXPIRED"} /\ (s = "SUCCEEDED" => call[c].says = "PAID")
    BY DEF SettledStatus
  <1>2. /\ payment[o] \notin SETTLED
        /\ payment' = [payment EXCEPT ![o] = s]
        /\ settlements' = [settlements EXCEPT ![o] = settlements[o] + 1]
    BY DEF Claim
  <1>3. call[c].says = "PAID" => gateway[call[c].tx] = "PAID"
    BY DEF Claim, PayInv, CallsOK, CallTruthful
  <1> HIDE DEF o, s
  <1>4. SucceededOnlyIfPaid'
    BY <1>0, <1>1, <1>2, <1>3 DEF PayInv, PaymentTypeOK, SucceededOnlyIfPaid
  <1>5. OneSettlementPerOpening'
    BY <1>0, <1>1, <1>2 DEF PayInv, PaymentTypeOK, OneSettlementPerOpening, SETTLED
  <1>6. ReferencesOK'
    BY <1>0, <1>1, <1>2 DEF PayInv, PaymentTypeOK, ReferencesOK
  <1>7. QED
    BY <1>0, <1>1, <1>2, <1>4, <1>5, <1>6 DEF PayInv, PaymentTypeOK, SETTLED

LEMMA StepSettlePaid ==
  ASSUME PayInv, NEW c \in Callers, SettlePaid(c)
  PROVE  PayInv'
  <1>0. call[c].order \in Orders
    BY DEF SettlePaid, Claim, PayInv, CallsOK, CallTyped
  <1>1. IInv'
    BY <1>0, UpdateKeepsIInv DEF SettlePaid, PayInv, ORDER_STATUSES
  <1>2. /\ SucceededOnlyIfPaid' /\ OneSettlementPerOpening' /\ ReferencesOK'
        /\ payment' \in [Orders -> {"PENDING", "AWAITING_CONFIRMATION"} \cup SETTLED]
        /\ settlements' \in [Orders -> Nat]
    BY ClaimKeepsAccounts DEF SettlePaid, settleFrame
  <1>3. PaymentTypeOK'
    BY <1>1, <1>2, NothingIsAContext
    DEF IInv, PayInv, PaymentTypeOK, SettlePaid, settleFrame, Finishes
  <1>4. ASSUME NEW d \in Callers
        PROVE  (CallTyped(d) /\ CallOwned(d) /\ CallTruthful(d) /\ CallReleases(d))'
    <2>1. CallTyped(d)' /\ CallOwned(d)' /\ CallTruthful(d)'
      BY NothingIsAContext
      DEF PayInv, PaymentTypeOK, CallsOK, CallTyped, CallOwned, CallTruthful, SettlePaid,
          settleFrame, Finishes
    <2>2. CallReleases(d)'
      <3> SUFFICES ASSUME call'[d].at = "release" PROVE CallReleases(d)'
        BY DEF CallReleases
      <3>1. d # c /\ call'[d] = call[d]
        BY NothingIsAContext DEF SettlePaid, Finishes, PayInv, PaymentTypeOK
      <3>2. /\ call[d].order \in Orders
            /\ status[call[d].order] = "CANCELLED" \/ revived[call[d].order] > 0
        BY <3>1 DEF PayInv, CallsOK, CallReleases, CallTyped
      <3>3. \E s \in ORDER_STATUSES : updateStatusOf(call[c].order, s)
        BY DEF SettlePaid, ORDER_STATUSES
      <3>4. QED
        BY <1>0, <3>1, <3>2, <3>3, CancelledOrRevivedStays DEF PayInv, CallReleases
    <2>3. QED BY <2>1, <2>2
  <1>5. CallsOK'
    BY <1>4 DEF CallsOK
  <1>6. QED
    BY <1>1, <1>2, <1>3, <1>5 DEF PayInv

LEMMA StepSettleUnpaid ==
  ASSUME PayInv, NEW c \in Callers, SettleUnpaid(c)
  PROVE  PayInv'
  <1> DEFINE o == call[c].order
             t == call[c].tx
  <1>0. o \in Orders /\ t \in Transactions /\ gateway[t] # "UNUSED"
    BY NoTransactionAssumption DEF SettleUnpaid, Claim, PayInv, CallsOK, CallTyped, CallOwned
  <1>1. IInv' /\ status'[o] = "CANCELLED"
    BY <1>0, CancelKeepsIInv DEF SettleUnpaid, PayInv
  <1>2. /\ SucceededOnlyIfPaid' /\ OneSettlementPerOpening' /\ ReferencesOK'
        /\ payment' \in [Orders -> {"PENDING", "AWAITING_CONFIRMATION"} \cup SETTLED]
        /\ settlements' \in [Orders -> Nat]
    BY ClaimKeepsAccounts DEF SettleUnpaid, settleFrame
  <1>k. PICK k \in CallContext :
          /\ call' = [call EXCEPT ![c] = k]
          /\ \/ k = Nothing
             \/ k.at = "release" /\ k.order = o /\ k.tx = t
    BY <1>0, NothingIsAContext DEF SettleUnpaid, Goes, Finishes, CallContext
  <1>c. cancelOrderAndReleaseStock(o) /\ UNCHANGED settleFrame
    BY DEF SettleUnpaid
  <1> HIDE DEF o, t
  <1>3. PaymentTypeOK'
    BY <1>1, <1>2, <1>k, <1>c DEF IInv, PayInv, PaymentTypeOK, settleFrame
  <1>4. ASSUME NEW d \in Callers
        PROVE  (CallTyped(d) /\ CallOwned(d) /\ CallTruthful(d) /\ CallReleases(d))'
    <2>1. CASE d = c
      BY <1>0, <1>1, <1>k, <1>c, <2>1, NothingIsAContext
      DEF PayInv, PaymentTypeOK, CallTyped, CallOwned, CallTruthful, CallReleases, settleFrame
    <2>2. CASE d # c
      <3>1. call'[d] = call[d]
        BY <1>k, <2>2 DEF PayInv, PaymentTypeOK
      <3>2. CallTyped(d)' /\ CallOwned(d)' /\ CallTruthful(d)'
        BY <1>c, <3>1 DEF PayInv, CallsOK, CallTyped, CallOwned, CallTruthful, settleFrame
      <3>3. call[d].at = "release" =>
              status'[call[d].order] = "CANCELLED" \/ revived'[call[d].order] > 0
        BY <1>0, <1>c, CancelledOrRevivedStays DEF PayInv, CallsOK, CallReleases, CallTyped
      <3>4. QED
        BY <3>1, <3>2, <3>3 DEF CallReleases
    <2>3. QED BY <2>1, <2>2
  <1>5. CallsOK'
    BY <1>4 DEF CallsOK
  <1>6. QED
    BY <1>1, <1>2, <1>3, <1>5 DEF PayInv

LEMMA StepSettleUnpaidTooLate ==
  ASSUME PayInv, NEW c \in Callers, SettleUnpaidTooLate(c)
  PROVE  PayInv'
  <1>1. IInv'
    BY StepIInv DEF SettleUnpaidTooLate, PayInv
  <1>2. /\ SucceededOnlyIfPaid' /\ OneSettlementPerOpening' /\ ReferencesOK'
        /\ payment' \in [Orders -> {"PENDING", "AWAITING_CONFIRMATION"} \cup SETTLED]
        /\ settlements' \in [Orders -> Nat]
    BY ClaimKeepsAccounts DEF SettleUnpaidTooLate, settleFrame
  <1>3. PaymentTypeOK'
    BY <1>1, <1>2, NothingIsAContext
    DEF IInv, PayInv, PaymentTypeOK, SettleUnpaidTooLate, settleFrame, Finishes
  <1>4. CallsOK'
    BY NothingIsAContext
    DEF PayInv, PaymentTypeOK, CallsOK, CallTyped, CallOwned, CallTruthful, CallReleases,
        SettleUnpaidTooLate, settleFrame, Finishes, vars
  <1>5. QED
    BY <1>1, <1>2, <1>3, <1>4 DEF PayInv

LEMMA StepSettleReleases ==
  ASSUME PayInv, NEW c \in Callers, SettleReleases(c)
  PROVE  PayInv'
  <1>0. /\ call[c].order \in Orders
        /\ status[call[c].order] = "CANCELLED" \/ revived[call[c].order] > 0
    BY DEF SettleReleases, PayInv, CallsOK, CallTyped, CallReleases
  <1>1. IInv'
    BY <1>0, LiberKeepsIInv DEF SettleReleases, PayInv
  <1>2. PaymentTypeOK'
    BY <1>1, NothingIsAContext
    DEF IInv, PayInv, PaymentTypeOK, SettleReleases, Finishes, historyAndRegister
  <1>3. CallsOK'
    BY NothingIsAContext
    DEF PayInv, PaymentTypeOK, CallsOK, CallTyped, CallOwned, CallTruthful, CallReleases,
        SettleReleases, Finishes
  <1>4. ReferencesOK' /\ SucceededOnlyIfPaid' /\ OneSettlementPerOpening'
    BY DEF PayInv, SettleReleases, ReferencesOK, SucceededOnlyIfPaid, OneSettlementPerOpening,
           historyAndRegister
  <1>5. QED
    BY <1>1, <1>2, <1>3, <1>4 DEF PayInv

-----------------------------------------------------------------------------
(* Steps that only move a context or end a handler.                        *)

LEMMA StepEnds ==
  ASSUME PayInv, NEW c \in Callers,
         \/ CallbackUnknown(c) \/ SettleLoses(c) \/ CallAbandoned(c)
         \/ \E o \in Orders : CallbackSettled(c, o)
  PROVE  PayInv'
  <1>1. /\ Finishes(c)
        /\ UNCHANGED <<vars, payment, providerReference, elapsed, gateway, owner,
                       settlements, reopenings>>
        /\ webhookEvent' \subseteq Transactions /\ refundAlert' \subseteq Orders
        /\ dismissed' \subseteq Orders
    BY DEF CallbackUnknown, SettleLoses, CallAbandoned, CallbackSettled, historyAndRegister,
           PayInv, PaymentTypeOK
  <1>2. QED
    BY <1>1, ContextEnds

LEMMA StepInitiateRead ==
  ASSUME PayInv, NEW c \in Callers, NEW o \in Orders, InitiateRead(c, o)
  PROVE  PayInv'
  <1> DEFINE k == [at |-> "initiateCall", order |-> o, tx |-> NoTransaction, says |-> "NONE"]
  <1>1. k \in CallContext /\ call' = [call EXCEPT ![c] = k]
    BY DEF InitiateRead, Goes, CallContext
  <1>2. QED
    BY <1>1, ContextMoves
    DEF InitiateRead, historyAndRegister, PayInv, PaymentTypeOK

LEMMA StepCallbackArrives ==
  ASSUME PayInv, NEW c \in Callers, NEW t \in Transactions,
         NEW says \in {"PENDING", "PAID", "FAILED"}, CallbackArrives(c, t, says)
  PROVE  PayInv'
  <1>0. gateway[t] # "UNUSED"
    BY DEF CallbackArrives, Announced
  <1>f. /\ UNCHANGED <<vars, payment, providerReference, elapsed, gateway, owner,
                       refundAlert, settlements, reopenings>>
        /\ webhookEvent' \subseteq Transactions
        /\ dismissed' \subseteq Orders /\ refundAlert' \subseteq Orders
    BY DEF CallbackArrives, PayInv, PaymentTypeOK
  <1>1. CASE t \notin webhookEvent
    <2> DEFINE k == [at |-> "lookup", order |-> NoOrder, tx |-> t, says |-> says]
    <2>1. k \in CallContext /\ call' = [call EXCEPT ![c] = k]
      BY <1>1 DEF CallbackArrives, Goes, CallContext
    <2>2. QED
      BY <1>0, <1>f, <2>1, ContextMoves
  <1>2. CASE t \in webhookEvent
    <2>1. /\ call[c] \in CallContext
          /\ call' = [call EXCEPT ![c] = call[c]]
          /\ call[c].at = "idle"
      BY <1>2 DEF CallbackArrives, PayInv, PaymentTypeOK
    <2>2. call[c].tx # NoTransaction => gateway[call[c].tx] # "UNUSED"
      BY DEF PayInv, CallsOK, CallOwned
    <2>3. QED
      BY <1>f, <2>1, <2>2, ContextMoves
  <1>3. QED BY <1>1, <1>2

LEMMA StepCallbackOpen ==
  ASSUME PayInv, NEW c \in Callers, NEW o \in Orders, CallbackOpen(c, o)
  PROVE  PayInv'
  <1> DEFINE t == call[c].tx
  <1>0. /\ t \in Transactions /\ t # NoTransaction
        /\ owner[t] = o /\ gateway[t] # "UNUSED"
    BY NoTransactionAssumption DEF CallbackOpen, PayInv, CallsOK, CallTyped, ReferencesOK
  <1>k. PICK k \in CallContext :
          /\ call' = [call EXCEPT ![c] = k]
          /\ \/ k = Nothing
             \/ k = [at |-> "verify", order |-> o, tx |-> t, says |-> "NONE"]
             \/ k = [at |-> "settle", order |-> o, tx |-> t, says |-> "FAILED"]
    BY <1>0, NothingIsAContext DEF CallbackOpen, Goes, Finishes, CallContext
  <1>f. /\ UNCHANGED <<vars, payment, providerReference, elapsed, gateway, owner,
                       settlements, reopenings>>
        /\ webhookEvent' \subseteq Transactions
        /\ dismissed' \subseteq Orders /\ refundAlert' \subseteq Orders
    BY DEF CallbackOpen, historyAndRegister, PayInv, PaymentTypeOK
  <1> HIDE DEF t
  <1>1. QED
    BY <1>0, <1>k, <1>f, ContextMoves, NothingIsAContext

LEMMA StepPoll ==
  ASSUME PayInv, NEW c \in Callers, NEW o \in Orders,
         \/ Poll(c, o)
         \/ c = Sweeper /\ Reconcile(o)
  PROVE  PayInv'
  <1> DEFINE t == providerReference[o]
  <1>f. /\ UNCHANGED <<vars, payment, providerReference, elapsed, gateway, owner,
                       settlements, reopenings>>
        /\ webhookEvent' \subseteq Transactions
        /\ dismissed' \subseteq Orders /\ refundAlert' \subseteq Orders
    BY DEF Poll, Reconcile, historyAndRegister, PayInv, PaymentTypeOK
  <1>0. t \in Transactions /\ owner[t] = o /\ gateway[t] # "UNUSED"
    BY DEF Poll, Reconcile, PayInv, ReferencesOK, PaymentTypeOK
  <1>k. PICK k \in CallContext :
          /\ call' = [call EXCEPT ![c] = k]
          /\ \/ k = [at |-> "poll", order |-> o, tx |-> t, says |-> "NONE"]
             \/ k = [at |-> "verify", order |-> o, tx |-> t, says |-> "NONE"]
             \/ k = [at |-> "settle", order |-> o, tx |-> t, says |-> "EXPIRED"]
    BY <1>0 DEF Poll, Reconcile, Goes, CallContext
  <1> HIDE DEF t
  <1>1. QED
    BY <1>0, <1>k, <1>f, ContextMoves

LEMMA StepVerify ==
  ASSUME PayInv, NEW c \in Callers, VerifyDecided(c) \/ VerifyUndecided(c)
  PROVE  PayInv'
  <1> DEFINE o == call[c].order
             t == call[c].tx
  <1>0. /\ o \in Orders /\ t \in Transactions /\ t # NoTransaction
        /\ owner[t] = o /\ gateway[t] # "UNUSED"
    BY NoTransactionAssumption
    DEF VerifyDecided, VerifyUndecided, PayInv, CallsOK, CallTyped, CallOwned
  <1>k. PICK k \in CallContext :
          /\ call' = [call EXCEPT ![c] = k]
          /\ \/ k = Nothing
             \/ /\ k.at = "settle" /\ k.order = o /\ k.tx = t
                /\ k.says = "PAID" => gateway[t] = "PAID"
    BY <1>0, NothingIsAContext DEF verify, VerifyDecided, VerifyUndecided, Goes, Finishes, CallContext
  <1>f. /\ UNCHANGED <<vars, payment, providerReference, elapsed, gateway, owner,
                       settlements, reopenings>>
        /\ webhookEvent' \subseteq Transactions
        /\ dismissed' \subseteq Orders /\ refundAlert' \subseteq Orders
    BY DEF VerifyDecided, VerifyUndecided, historyAndRegister, PayInv, PaymentTypeOK
  <1> HIDE DEF o, t
  <1>1. QED
    BY <1>0, <1>k, <1>f, ContextMoves, NothingIsAContext

-----------------------------------------------------------------------------
(* Steps of the order row itself.                                          *)

LEMMA StepOrderNext ==
  ASSUME PayInv, OrderNext
  PROVE  PayInv'
  <1>1. IInv'
    BY StepIInv DEF OrderNext, PayInv
  <1>2. PaymentTypeOK' /\ ReferencesOK' /\ SucceededOnlyIfPaid' /\ OneSettlementPerOpening'
    BY <1>1 DEF IInv, OrderNext, payVars, PayInv, PaymentTypeOK, ReferencesOK,
                SucceededOnlyIfPaid, OneSettlementPerOpening
  <1>3. CallsOK'
    <2> SUFFICES ASSUME NEW c \in Callers
                 PROVE  (CallTyped(c) /\ CallOwned(c) /\ CallTruthful(c) /\ CallReleases(c))'
      BY DEF CallsOK
    <2>1. CallTyped(c)' /\ CallOwned(c)' /\ CallTruthful(c)'
      BY DEF OrderNext, payVars, PayInv, CallsOK, CallTyped, CallOwned, CallTruthful
    <2>2. CallReleases(c)'
      BY OrderStepKinds, CancelledOrRevivedStays
      DEF OrderNext, payVars, PayInv, CallsOK, CallTyped, CallReleases
    <2>3. QED BY <2>1, <2>2
  <1>4. QED
    BY <1>1, <1>2, <1>3 DEF PayInv

LEMMA StepPayInv == PayInv /\ [PaymentNext]_allVars => PayInv'
  <1> SUFFICES ASSUME PayInv, [PaymentNext]_allVars PROVE PayInv'
    OBVIOUS
  <1>1. CASE OrderNext
    BY <1>1, StepOrderNext
  <1>2. ASSUME NEW t \in Transactions, NEW answer \in {"PAID", "REFUSED"},
               CustomerAnswers(t, answer)
        PROVE  PayInv'
    BY <1>2, StepOperator
  <1>3. ASSUME NEW o \in Orders, WindowElapses(o) \/ Reconcile(o)
        PROVE  PayInv'
    BY <1>3, StepClock, StepPoll, SweeperAssumption
  <1>4. ASSUME NEW c \in Callers, HandlerStarts(c)
        PROVE  PayInv'
    BY <1>4, StepInitiateRead, StepPoll, StepCallbackArrives DEF HandlerStarts
  <1>5. ASSUME NEW c \in Callers, HandlerStep(c)
        PROVE  PayInv'
    BY <1>5, StepInitiateCall, StepInitiateWrite, StepEnds, StepCallbackOpen, StepVerify,
       StepSettlePaid, StepSettleUnpaid, StepSettleUnpaidTooLate, StepSettleReleases
    DEF HandlerStep
  <1>6. ASSUME NEW c \in Callers, CallAbandoned(c)
        PROVE  PayInv'
    BY <1>6, StepEnds
  <1>7. CASE UNCHANGED allVars
    <2>1. IInv'
      BY <1>7, StepIInv DEF allVars, PayInv
    <2>2. QED
      BY <1>7, <2>1
      DEF allVars, vars, payVars, IInv, PayInv, PaymentTypeOK, CallsOK, CallTyped, CallOwned,
          CallTruthful, CallReleases, ReferencesOK, SucceededOnlyIfPaid, OneSettlementPerOpening
  <1>8. QED
    BY <1>1, <1>2, <1>3, <1>4, <1>5, <1>6, <1>7 DEF PaymentNext

LEMMA PayInvariance == PaymentSpec => []PayInv
  BY PayInvInit, StepPayInv, PTL DEF PaymentSpec

-----------------------------------------------------------------------------
(* Results.                                                                *)

(* The tables of both services and every handler context keep their types. *)
THEOREM PaymentTypeCorrectness == PaymentSpec => []PaymentTypeOK
  BY PayInvariance, PTL DEF PayInv

(* However webhooks, polls, sweeps and openings interleave, a payment is    *)
(* recorded as succeeded only if the operator took the money for its order. *)
THEOREM NoUnpaidSuccess == PaymentSpec => []SucceededOnlyIfPaid
  BY PayInvariance, PTL DEF PayInv

(* Any number of concurrent settlements has one winner per opening.         *)
THEOREM SettlementHasOneWinner == PaymentSpec => []OneSettlementPerOpening
  BY PayInvariance, PTL DEF PayInv

(* With settlements and requests racing, goods return once per cancellation *)
(* and the site releases only what was cancelled.                           *)
THEOREM GoodsAccountedWithPayments ==
  PaymentSpec => [](StockReturnedOncePerCancellation /\ ReleaseFollowsCancellation)
  BY PayInvariance, PTL DEF PayInv, IInv

-----------------------------------------------------------------------------
(* Without a manager writing over a cancelled order, the goods of an order  *)
(* whose payment failed or expired are never kept.                          *)

LEMMA StepUnpaidOrder ==
  ASSUME Advancers = {}, PayInv, UnpaidOrderHoldsNothing, [PaymentNext]_allVars
  PROVE  UnpaidOrderHoldsNothing'
  <1> USE DEF UnpaidOrderHoldsNothing
  <1>t. TypeOK /\ PaymentTypeOK
    BY DEF PayInv, IInv
  <1>1. CASE OrderNext
    <2>1. ~ \E r \in Requests : AdvanceTxn(r)
      BY DEF AdvanceTxn, PayInv, IInv, ContextsOK
    <2>2. \/ UNCHANGED status
          \/ \E x \in Orders : cancelOrderAndReleaseStock(x)
      BY <1>1, <2>1
      DEF OrderNext, Next, Starting, Serving, SiteExpires, ClientCancel, ManagerCancel,
          ManagerAdvance, CancelWins, CancelLoses, ReleaseSucceeds, ReleaseFails, Abandoned,
          orderVars, PayInv, IInv, ContextsOK
    <2>3. UNCHANGED payment
      BY <1>1 DEF OrderNext, payVars
    <2>4. QED
      BY <1>t, <2>2, <2>3 DEF cancelOrderAndReleaseStock, STOCK_HELD_STATUSES, TypeOK
  <1>2. ASSUME NEW c \in Callers, InitiateWrite(c)
        PROVE  UnpaidOrderHoldsNothing'
    <2>1. \E s \in {"PENDING", "AWAITING_CONFIRMATION"} :
            payment' = [payment EXCEPT ![call[c].order] = s]
      BY <1>2 DEF InitiateWrite
    <2>2. UNCHANGED status
      BY <1>2 DEF InitiateWrite, vars
    <2>3. QED
      BY <1>t, <2>1, <2>2 DEF PaymentTypeOK
  <1>3. ASSUME NEW c \in Callers, SettlePaid(c)
        PROVE  UnpaidOrderHoldsNothing'
    BY <1>t, <1>3
    DEF SettlePaid, Claim, SettledStatus, updateStatusOf, PaymentTypeOK, TypeOK
  <1>4. ASSUME NEW c \in Callers, SettleUnpaid(c)
        PROVE  UnpaidOrderHoldsNothing'
    BY <1>t, <1>4
    DEF SettleUnpaid, Claim, cancelOrderAndReleaseStock, STOCK_HELD_STATUSES, PaymentTypeOK, TypeOK
  <1>5. ASSUME NEW c \in Callers, SettleUnpaidTooLate(c)
        PROVE  UnpaidOrderHoldsNothing'
    BY <1>t, <1>5 DEF SettleUnpaidTooLate, Claim, vars, PaymentTypeOK
  <1>6. ASSUME UNCHANGED <<status, payment>>
        PROVE  UnpaidOrderHoldsNothing'
    BY <1>6
  <1>7. ASSUME NEW c \in Callers,
               \/ HandlerStarts(c) \/ CallAbandoned(c) \/ CallbackUnknown(c)
               \/ \E o \in Orders : CallbackSettled(c, o) \/ CallbackOpen(c, o)
               \/ \E t \in Transactions, says \in {"PENDING", "FAILED"} : InitiateCall(c, t, says)
               \/ VerifyDecided(c) \/ VerifyUndecided(c) \/ SettleLoses(c) \/ SettleReleases(c)
        PROVE  UNCHANGED <<status, payment>>
    BY <1>7
    DEF HandlerStarts, InitiateRead, Poll, CallbackArrives, CallAbandoned, CallbackUnknown,
        CallbackSettled, CallbackOpen, InitiateCall, VerifyDecided, VerifyUndecided, SettleLoses,
        SettleReleases, vars
  <1>8. ASSUME \/ \E t \in Transactions, answer \in {"PAID", "REFUSED"} :
                    CustomerAnswers(t, answer)
               \/ \E o \in Orders : WindowElapses(o) \/ Reconcile(o)
               \/ UNCHANGED allVars
        PROVE  UNCHANGED <<status, payment>>
    BY <1>8 DEF CustomerAnswers, WindowElapses, Reconcile, allVars, vars, payVars
  <1>9. QED
    BY <1>1, <1>2, <1>3, <1>4, <1>5, <1>6, <1>7, <1>8 DEF PaymentNext, HandlerStep

(* As long as no manager advances orders, the goods of an order whose       *)
(* payment failed or expired have gone back to the shelf or to a customer   *)
(* who received them.                                                       *)
THEOREM FailedPaymentFreesGoods ==
  ASSUME Advancers = {}
  PROVE  PaymentSpec => []UnpaidOrderHoldsNothing
  <1>1. PaymentInit => UnpaidOrderHoldsNothing
    BY DEF PaymentInit, UnpaidOrderHoldsNothing
  <1>2. PayInv /\ UnpaidOrderHoldsNothing /\ [PaymentNext]_allVars => UnpaidOrderHoldsNothing'
    BY StepUnpaidOrder
  <1>3. QED
    BY <1>1, <1>2, PayInvariance, PTL DEF PaymentSpec

-----------------------------------------------------------------------------
(* The refinement of the payment contract: one lemma for each way a step    *)
(* shows, and the rest does not show.                                       *)

LEMMA ContractStutters ==
  ASSUME UNCHANGED <<status, payment, gateway, owner, settlements>>
  PROVE  UNCHANGED Paying!contractVars
  BY DEF Paying!contractVars, standing, moneyTaken, holders

\* A step of the order row shows as a move of that order, or not at all.
LEMMA OrderStepShows ==
  ASSUME PayInv, OrderNext
  PROVE  [Paying!Next]_Paying!contractVars
  <1>1. UNCHANGED <<payment, gateway, owner, settlements>>
    BY DEF OrderNext, payVars
  <1>2. UNCHANGED <<standing, moneyTaken>>
    BY <1>1 DEF standing, moneyTaken
  <1>3. CASE UNCHANGED status
    BY <1>1, <1>3, ContractStutters
  <1>4. ASSUME NEW x \in Orders, NEW s \in ORDER_STATUSES, status' = [status EXCEPT ![x] = s]
        PROVE  Paying!Next
    <2>1. holders' = IF s \in STOCK_HELD_STATUSES THEN holders \cup {x} ELSE holders \ {x}
      BY <1>4 DEF holders, PayInv, IInv, TypeOK
    <2>2. Paying!OrderMoves(x)
      BY <1>1, <1>2, <2>1 DEF Paying!OrderMoves
    <2>3. QED BY <2>2 DEF Paying!Next
  <1>5. \/ UNCHANGED status
        \/ \E x \in Orders, s \in ORDER_STATUSES : status' = [status EXCEPT ![x] = s]
    BY OrderStepKinds
    DEF OrderNext, PayInv, cancelOrderAndReleaseStock, updateStatusOf, ORDER_STATUSES
  <1>6. QED BY <1>3, <1>4, <1>5

\* The customer validates: money has come for the order of the transaction.
LEMMA AnswerShows ==
  ASSUME PayInv, NEW t \in Transactions, NEW answer \in {"PAID", "REFUSED"},
         CustomerAnswers(t, answer)
  PROVE  [Paying!Next]_Paying!contractVars
  <1>1. /\ gateway[t] = "OPEN" /\ gateway' = [gateway EXCEPT ![t] = answer]
        /\ UNCHANGED <<status, payment, owner, settlements>>
    BY DEF CustomerAnswers, vars, historyAndRegister
  <1>2. gateway \in [Transactions -> {"UNUSED", "OPEN", "PAID", "REFUSED"}]
    BY DEF PayInv, PaymentTypeOK
  <1>3. UNCHANGED <<standing, holders>>
    BY <1>1 DEF standing, holders
  <1>4. CASE answer = "PAID" /\ owner[t] \in Orders
    <2>1. moneyTaken' = moneyTaken \cup {owner[t]}
      BY <1>1, <1>2, <1>4 DEF moneyTaken
    <2>2. Paying!MoneyComes(owner[t])
      BY <1>1, <1>3, <2>1 DEF Paying!MoneyComes
    <2>3. QED BY <1>4, <2>2 DEF Paying!Next
  <1>5. CASE answer = "REFUSED" \/ owner[t] \notin Orders
    <2>1. moneyTaken' = moneyTaken
      BY <1>1, <1>2, <1>5 DEF moneyTaken
    <2>2. QED BY <1>1, <1>3, <2>1 DEF Paying!contractVars
  <1>6. QED BY <1>4, <1>5

\* A transaction nobody has paid yet is opened.
LEMMA OpeningHides ==
  ASSUME PayInv, NEW c \in Callers, NEW t \in Transactions, NEW says \in {"PENDING", "FAILED"},
         InitiateCall(c, t, says)
  PROVE  UNCHANGED Paying!contractVars
  <1>1. /\ gateway[t] = "UNUSED"
        /\ \A u \in Transactions \ {t} : gateway'[u] = gateway[u] /\ owner'[u] = owner[u]
        /\ gateway'[t] \in {"OPEN", "REFUSED"}
        /\ UNCHANGED <<status, payment, settlements>>
    BY DEF InitiateCall, PayInv, PaymentTypeOK, vars, historyAndRegister
  <1>2. moneyTaken' = moneyTaken
    BY <1>1 DEF moneyTaken
  <1>3. QED BY <1>1, <1>2 DEF Paying!contractVars, standing, holders

\* The write of an initiation opens a decided payment again.
LEMMA InitiationShows ==
  ASSUME PayInv, NEW c \in Callers, InitiateWrite(c)
  PROVE  [Paying!Next]_Paying!contractVars
  <1> DEFINE o == call[c].order
  <1>1. o \in Orders
    BY DEF PayInv, CallsOK, CallTyped, InitiateWrite
  <1>2. PICK s \in {"PENDING", "AWAITING_CONFIRMATION"} : payment' = [payment EXCEPT ![o] = s]
    BY DEF InitiateWrite
  <1>3. UNCHANGED <<status, gateway, owner, settlements>>
    BY DEF InitiateWrite, vars
  <1>4. UNCHANGED <<moneyTaken, holders>>
    BY <1>3 DEF moneyTaken, holders
  <1>5. payment \in [Orders -> {"PENDING", "AWAITING_CONFIRMATION"} \cup SETTLED]
    BY DEF PayInv, PaymentTypeOK
  <1> HIDE DEF o
  <1>6. standing' = [standing EXCEPT ![o] = "undecided"]
    BY <1>1, <1>2, <1>5 DEF standing, SETTLED
  <1>7. CASE payment[o] \in SETTLED
    <2>1. standing[o] # "undecided"
      BY <1>1, <1>7 DEF standing
    <2>2. Paying!Reopen(o)
      BY <1>3, <1>4, <1>6, <2>1 DEF Paying!Reopen
    <2>3. QED BY <1>1, <2>2 DEF Paying!Next
  <1>8. CASE payment[o] \notin SETTLED
    <2>1. standing[o] = "undecided"
      BY <1>1, <1>8 DEF standing, SETTLED
    <2>2. standing' = standing
      BY <1>6, <2>1 DEF standing
    <2>3. QED BY <1>3, <1>4, <2>2 DEF Paying!contractVars
  <1>9. QED BY <1>7, <1>8

\* A claim that wins decides a payment that was open.
LEMMA ClaimDecides ==
  ASSUME PayInv, NEW c \in Callers, Claim(c)
  PROVE  /\ call[c].order \in Orders
         /\ call[c].says = "PAID" =>
              Paying!Decide(call[c].order, "paid") /\ call[c].order \in moneyTaken
         /\ call[c].says \in {"FAILED", "EXPIRED"} => Paying!Decide(call[c].order, "unpaid")
  <1> DEFINE o == call[c].order
             s == SettledStatus(call[c].says)
  <1>1. o \in Orders /\ call[c].tx \in Transactions /\ owner[call[c].tx] = o
    BY DEF Claim, PayInv, CallsOK, CallTyped, CallOwned
  <1>2. /\ payment[o] \notin SETTLED /\ payment' = [payment EXCEPT ![o] = s]
        /\ settlements' = [settlements EXCEPT ![o] = @ + 1]
    BY DEF Claim
  <1>3. call[c].says = "PAID" => o \in moneyTaken
    BY <1>1 DEF Claim, PayInv, CallsOK, CallTruthful, moneyTaken
  <1>4. payment \in [Orders -> {"PENDING", "AWAITING_CONFIRMATION"} \cup SETTLED]
    BY DEF PayInv, PaymentTypeOK
  <1>5. /\ call[c].says = "PAID" => s = "SUCCEEDED"
        /\ call[c].says \in {"FAILED", "EXPIRED"} => s \in {"FAILED", "EXPIRED"}
    BY DEF SettledStatus
  <1> HIDE DEF o, s
  <1>6. standing[o] = "undecided"
    BY <1>1, <1>2 DEF standing, SETTLED
  <1>7. s = "SUCCEEDED" => standing' = [standing EXCEPT ![o] = "paid"]
    BY <1>1, <1>2, <1>4 DEF standing, SETTLED
  <1>8. s \in {"FAILED", "EXPIRED"} => standing' = [standing EXCEPT ![o] = "unpaid"]
    BY <1>1, <1>2, <1>4 DEF standing, SETTLED
  <1>9. QED BY <1>1, <1>2, <1>3, <1>5, <1>6, <1>7, <1>8 DEF Paying!Decide, o

LEMMA PaidSettlementShows ==
  ASSUME PayInv, NEW c \in Callers, SettlePaid(c)
  PROVE  Paying!Next
  <1> DEFINE o == call[c].order
  <1>1. o \in Orders /\ Paying!Decide(o, "paid") /\ o \in moneyTaken
    BY ClaimDecides DEF SettlePaid
  <1>2. UNCHANGED <<gateway, owner>> /\ status' = [status EXCEPT ![o] = "CONFIRMED"]
    BY DEF SettlePaid, settleFrame, updateStatusOf
  <1>3. moneyTaken' = moneyTaken
    BY <1>2 DEF moneyTaken
  <1> HIDE DEF o
  <1>4. holders' = holders \cup {o}
    <2>1. /\ status'[o] = "CONFIRMED" /\ "CONFIRMED" \in STOCK_HELD_STATUSES
          /\ \A x \in Orders \ {o} : status'[x] = status[x]
      BY <1>1, <1>2 DEF STOCK_HELD_STATUSES, ORDER_STATUSES, PayInv, IInv, TypeOK
    <2>2. QED BY <1>1, <2>1 DEF holders
  <1>5. Paying!Pay(o)
    BY <1>1, <1>3, <1>4 DEF Paying!Pay
  <1>6. QED BY <1>1, <1>5 DEF Paying!Next

LEMMA UnpaidSettlementShows ==
  ASSUME PayInv, NEW c \in Callers, SettleUnpaid(c) \/ SettleUnpaidTooLate(c)
  PROVE  Paying!Next
  <1> DEFINE o == call[c].order
  <1>1. o \in Orders /\ Paying!Decide(o, "unpaid")
    BY ClaimDecides DEF SettleUnpaid, SettleUnpaidTooLate
  <1>2. /\ UNCHANGED <<gateway, owner>>
        /\ \/ status' = [status EXCEPT ![o] = "CANCELLED"]
           \/ UNCHANGED status /\ status[o] \notin STOCK_HELD_STATUSES
    BY DEF SettleUnpaid, SettleUnpaidTooLate, settleFrame, cancelOrderAndReleaseStock, vars
  <1>3. moneyTaken' = moneyTaken
    BY <1>2 DEF moneyTaken
  <1> HIDE DEF o
  <1>4. holders' = holders \ {o}
    BY <1>1, <1>2 DEF holders, STOCK_HELD_STATUSES, PayInv, IInv, TypeOK
  <1>5. Paying!GiveUp(o)
    BY <1>1, <1>3, <1>4 DEF Paying!GiveUp
  <1>6. QED BY <1>1, <1>5 DEF Paying!Next

LEMMA StepImplementsContract ==
  ASSUME PayInv, [PaymentNext]_allVars
  PROVE  [Paying!Next]_Paying!contractVars
  <1>1. CASE OrderNext
    BY <1>1, OrderStepShows
  <1>2. ASSUME NEW t \in Transactions, NEW answer \in {"PAID", "REFUSED"},
               CustomerAnswers(t, answer)
        PROVE  [Paying!Next]_Paying!contractVars
    BY <1>2, AnswerShows
  <1>3. ASSUME NEW o \in Orders, WindowElapses(o) \/ Reconcile(o)
        PROVE  UNCHANGED Paying!contractVars
    BY <1>3, ContractStutters DEF WindowElapses, Reconcile, vars, historyAndRegister
  <1>4. ASSUME NEW c \in Callers, HandlerStarts(c)
        PROVE  UNCHANGED Paying!contractVars
    <2>1. UNCHANGED <<status, payment, gateway, owner, settlements>>
      BY <1>4 DEF HandlerStarts, InitiateRead, Poll, CallbackArrives, vars, historyAndRegister
    <2>2. QED BY <2>1, ContractStutters
  <1>5. ASSUME NEW c \in Callers, HandlerStep(c)
        PROVE  [Paying!Next]_Paying!contractVars
    <2>1. ASSUME \/ CallbackUnknown(c) \/ \E o \in Orders : CallbackSettled(c, o) \/ CallbackOpen(c, o)
                 \/ VerifyDecided(c) \/ VerifyUndecided(c) \/ SettleLoses(c) \/ SettleReleases(c)
          PROVE  UNCHANGED Paying!contractVars
      <3>1. UNCHANGED <<status, payment, gateway, owner, settlements>>
        BY <2>1 DEF CallbackUnknown, CallbackSettled, CallbackOpen, VerifyDecided, VerifyUndecided,
           SettleLoses, SettleReleases, vars, historyAndRegister
      <3>2. QED BY <3>1, ContractStutters
    <2>2. QED
      BY <1>5, <2>1, OpeningHides, InitiationShows, PaidSettlementShows, UnpaidSettlementShows
      DEF HandlerStep
  <1>6. ASSUME NEW c \in Callers, CallAbandoned(c)
        PROVE  UNCHANGED Paying!contractVars
    BY <1>6, ContractStutters DEF CallAbandoned, vars, historyAndRegister
  <1>7. CASE UNCHANGED allVars
    BY <1>7, ContractStutters DEF allVars, vars, payVars
  <1>8. QED
    BY <1>1, <1>2, <1>3, <1>4, <1>5, <1>6, <1>7 DEF PaymentNext

(* The four callers that settle payments, with the customer, the operator,  *)
(* the clock and the people who move orders, implement the payment contract *)
(* (ImplementsPaymentContract), in any number, managers included.           *)
THEOREM AggregatorImplementsContract == PaymentSpec => ImplementsPaymentContract
  <1>1. PaymentInit => Paying!Init
    BY DEF PaymentInit, Paying!Init, standing, moneyTaken, holders, SETTLED
  <1>2. QED
    BY <1>1, StepImplementsContract, PayInvariance, PTL
    DEF PaymentSpec, ImplementsPaymentContract, Paying!Spec

-----------------------------------------------------------------------------
(* Orders that nothing will decide.                                         *)

\* A handler about to settle o stays there while others move.
LEMMA WatchersStay ==
  ASSUME PayInv, NEW o \in Orders, NEW c \in Callers, Watched(o),
         payment'[o] = payment[o],
         \A d \in Callers \ {c} : call'[d] = call[d],
         call[c].at # "settle" \/ call[c].order # o
  PROVE  Watched(o)'
  BY DEF Watched

LEMMA StepForgetsNobody ==
  ASSUME PayInv, [PaymentNext]_allVars,
         NEW o \in Orders, Unwatched(o)', ~ Unwatched(o), status'[o] = status[o]
  PROVE  \E c \in Callers : /\ call[c].at = "settle" /\ call[c].order = o
                            /\ CallAbandoned(c)
  <1>1. /\ providerReference'[o] # NoTransaction /\ payment'[o] # "SUCCEEDED"
        /\ status[o] \in STOCK_HELD_STATUSES /\ ~ Watched(o)'
    BY DEF Unwatched
  <1>2. providerReference[o] = NoTransaction \/ payment[o] = "SUCCEEDED" \/ Watched(o)
    BY <1>1 DEF Unwatched
  \* Whoever keeps the payment and its reference must have kept no watcher.
  <1>3. ASSUME payment'[o] = payment[o], providerReference'[o] = providerReference[o]
        PROVE  Watched(o) /\ ~ Watched(o)'
    BY <1>1, <1>2, <1>3
  <1>4. ASSUME UNCHANGED <<payment, providerReference, call>> PROVE FALSE
    BY <1>3, <1>4 DEF Watched
  <1>c. call \in [Callers -> CallContext]
    BY DEF PayInv, PaymentTypeOK
  <1>5. ASSUME NEW c \in Callers, NEW k, call' = [call EXCEPT ![c] = k],
               UNCHANGED <<payment, providerReference>>
        PROVE  call[c].at = "settle" /\ call[c].order = o /\ payment[o] \notin SETTLED
    <2>1. \A d \in Callers \ {c} : call'[d] = call[d]
      BY <1>5, <1>c
    <2>2. Watched(o) /\ ~ Watched(o)' /\ payment'[o] = payment[o]
      BY <1>3, <1>5
    <2>3. call[c].at = "settle" /\ call[c].order = o
      BY <2>1, <2>2, WatchersStay
    <2>4. payment[o] \notin SETTLED
      BY <2>2 DEF Watched, SETTLED
    <2>5. QED BY <2>3, <2>4
  <1>6. CASE OrderNext \/ UNCHANGED allVars
    BY <1>4, <1>6 DEF OrderNext, allVars, payVars
  <1>7. ASSUME NEW t \in Transactions, NEW answer \in {"PAID", "REFUSED"},
               CustomerAnswers(t, answer)
        PROVE  FALSE
    BY <1>4, <1>7 DEF CustomerAnswers
  <1>8. ASSUME NEW x \in Orders, WindowElapses(x) PROVE FALSE
    BY <1>4, <1>8 DEF WindowElapses
  <1>9. ASSUME NEW x \in Orders, Reconcile(x) PROVE FALSE
    <2>1. /\ \E k : call' = [call EXCEPT ![Sweeper] = k]
          /\ UNCHANGED <<payment, providerReference>> /\ call[Sweeper].at = "idle"
      BY <1>9 DEF Reconcile, Goes
    <2>2. QED BY <1>5, <2>1, SweeperAssumption
  <1>10. ASSUME NEW c \in Callers, HandlerStarts(c) PROVE FALSE
    <2>1. /\ UNCHANGED <<payment, providerReference>> /\ call[c].at = "idle"
          /\ UNCHANGED call \/ \E k : call' = [call EXCEPT ![c] = k]
      BY <1>10 DEF HandlerStarts, InitiateRead, Poll, CallbackArrives, Goes
    <2>2. QED BY <1>4, <1>5, <2>1
  <1>11. ASSUME NEW c \in Callers,
                \/ \E t \in Transactions, says \in {"PENDING", "FAILED"} : InitiateCall(c, t, says)
                \/ CallbackUnknown(c) \/ \E x \in Orders : CallbackSettled(c, x) \/ CallbackOpen(c, x)
                \/ VerifyDecided(c) \/ VerifyUndecided(c) \/ SettleReleases(c)
         PROVE  FALSE
    <2>1. /\ UNCHANGED <<payment, providerReference>> /\ call[c].at # "settle"
          /\ \E k : call' = [call EXCEPT ![c] = k]
      BY <1>11 DEF InitiateCall, CallbackUnknown, CallbackSettled, CallbackOpen, VerifyDecided,
         VerifyUndecided, SettleReleases, Goes, Finishes
    <2>2. QED BY <1>5, <2>1
  \* The loser of a settlement leaves a payment that is settled.
  <1>12. ASSUME NEW c \in Callers, SettleLoses(c) PROVE FALSE
    <2>1. /\ UNCHANGED <<payment, providerReference>> /\ payment[call[c].order] \in SETTLED
          /\ \E k : call' = [call EXCEPT ![c] = k]
      BY <1>12 DEF SettleLoses, Finishes
    <2>2. QED BY <1>5, <2>1
  \* An initiation leaves the order to the sweep, or to its own settlement.
  <1>13. ASSUME NEW c \in Callers, InitiateWrite(c) PROVE FALSE
    <2>1. /\ call[c].at = "initiateWrite" /\ call[c].order \in Orders
          /\ call[c].says \in {"PENDING", "FAILED"}
      BY <1>13 DEF InitiateWrite, PayInv, CallsOK, CallTyped
    <2>2. \E k : call' = [call EXCEPT ![c] = k]
      BY <1>13 DEF InitiateWrite, Goes, Finishes
    <2>3. CASE call[c].order # o
      <3>1. payment'[o] = payment[o] /\ providerReference'[o] = providerReference[o]
        BY <1>13, <2>3 DEF InitiateWrite, PayInv, PaymentTypeOK
      <3>2. \A d \in Callers \ {c} : call'[d] = call[d]
        BY <1>c, <2>2
      <3>3. QED BY <1>3, <2>1, <3>1, <3>2, WatchersStay
    <2>4. CASE call[c].order = o /\ call[c].says = "PENDING"
      <3>1. payment'[o] = "AWAITING_CONFIRMATION"
        BY <1>13, <2>4 DEF InitiateWrite, PayInv, PaymentTypeOK
      <3>2. QED BY <1>1, <3>1 DEF Watched
    <2>5. CASE call[c].order = o /\ call[c].says = "FAILED"
      <3>1. payment'[o] = "PENDING" /\ call'[c].at = "settle" /\ call'[c].order = o
        BY <1>13, <1>c, <2>5 DEF InitiateWrite, Goes, PayInv, PaymentTypeOK
      <3>2. QED BY <1>1, <3>1 DEF Watched, SETTLED
    <2>6. QED BY <2>1, <2>3, <2>4, <2>5
  \* A settlement of o pays it, or leaves it without goods.
  <1>14. ASSUME NEW c \in Callers, SettlePaid(c) \/ SettleUnpaid(c) \/ SettleUnpaidTooLate(c)
         PROVE  FALSE
    <2>1. /\ Claim(c) /\ call[c].order \in Orders
          /\ providerReference' = providerReference
          /\ \E k : call' = [call EXCEPT ![c] = k]
      BY <1>14 DEF SettlePaid, SettleUnpaid, SettleUnpaidTooLate, settleFrame, Goes, Finishes,
         Claim, PayInv, CallsOK, CallTyped
    <2>2. CASE call[c].order # o
      <3>1. payment'[o] = payment[o] /\ providerReference'[o] = providerReference[o]
        BY <2>1, <2>2 DEF Claim, PayInv, PaymentTypeOK
      <3>2. \A d \in Callers \ {c} : call'[d] = call[d]
        BY <1>c, <2>1
      <3>3. QED BY <1>3, <2>2, <3>1, <3>2, WatchersStay
    <2>3. CASE call[c].order = o /\ SettlePaid(c)
      <3>1. payment'[o] = "SUCCEEDED"
        BY <2>3 DEF SettlePaid, Claim, SettledStatus, PayInv, PaymentTypeOK
      <3>2. QED BY <1>1, <3>1
    <2>4. CASE call[c].order = o /\ SettleUnpaid(c)
      <3>1. status'[o] = "CANCELLED"
        BY <2>4 DEF SettleUnpaid, cancelOrderAndReleaseStock, PayInv, PaymentTypeOK, TypeOK
      <3>2. QED BY <1>1, <3>1 DEF STOCK_HELD_STATUSES
    <2>5. CASE call[c].order = o /\ SettleUnpaidTooLate(c)
      BY <1>1, <2>5 DEF SettleUnpaidTooLate
    <2>6. QED BY <1>14, <2>2, <2>3, <2>4, <2>5
  <1>15. ASSUME NEW c \in Callers, CallAbandoned(c)
         PROVE  call[c].at = "settle" /\ call[c].order = o
    <2>1. /\ UNCHANGED <<payment, providerReference>>
          /\ \E k : call' = [call EXCEPT ![c] = k]
      BY <1>15 DEF CallAbandoned, Finishes
    <2>2. QED BY <1>5, <2>1
  <1>16. QED
    BY <1>6, <1>7, <1>8, <1>9, <1>10, <1>11, <1>12, <1>13, <1>14, <1>15
    DEF PaymentNext, HandlerStep

(* Whatever handlers interleave, an order that keeps its goods on an opened *)
(* and unpaid payment is watched, but for the two steps NoOrderIsForgotten  *)
(* names.                                                                   *)
THEOREM OrdersAreWatched == PaymentSpec => NoOrderIsForgotten
  <1>1. PayInv /\ [PaymentNext]_allVars =>
          [\A o \in Orders :
             Unwatched(o)' =>
               \/ Unwatched(o)
               \/ status'[o] # status[o]
               \/ \E c \in Callers :
                    call[c].at = "settle" /\ call[c].order = o /\ CallAbandoned(c)]_allVars
    BY StepForgetsNobody
  <1>2. QED BY <1>1, PayInvariance, PTL DEF PaymentSpec, NoOrderIsForgotten
=============================================================================
