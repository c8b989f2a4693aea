------------------------ MODULE OrderLifecycleProofs ------------------------
(***************************************************************************)
(* Proofs about OrderLifecycle for any number of orders and of concurrent  *)
(* requests.  The invariant that carries the argument is IInv: besides the *)
(* types and the accounting of returned goods it says what each request    *)
(* context knows at its program point, because the release call of a       *)
(* winner acts on the site long after the cancellation it follows.         *)
(***************************************************************************)
EXTENDS OrderLifecycle, TLAPS

\* What a request context relies on between two of its database calls.
ContextsOK ==
  \A r \in Requests :
    /\ req[r].at # "idle" => req[r].order \in Orders
    /\ req[r].at = "advanceTxn" =>
         r \in Advancers /\ req[r].target \in ORDER_STATUSES \ {"CANCELLED"}
    /\ req[r].at = "releaseCall" =>
         status[req[r].order] = "CANCELLED" \/ revived[req[r].order] > 0

IInv ==
  /\ TypeOK
  /\ ContextsOK
  /\ StockReturnedOncePerCancellation
  /\ ReleaseFollowsCancellation

-----------------------------------------------------------------------------
(* The tables.                                                             *)

\* A manager's action is never a cancellation: that goes through cancelOrder.
LEMMA ManagerActionNeverCancels ==
  ASSUME NEW s \in ORDER_STATUSES, NEW t \in managerActionFor(s)
  PROVE  t \in ORDER_STATUSES \ {"CANCELLED"}
  BY DEF managerActionFor, ORDER_STATUSES

-----------------------------------------------------------------------------
(* IInv is inductive.                                                      *)

LEMMA InitIInv == Init => IInv
  <1> SUFFICES ASSUME Init PROVE IInv
    OBVIOUS
  <1>1. TypeOK
    BY NoOrderAssumption
    DEF Init, TypeOK, ORDER_PROGRESS_STEPS, RESERVATION_STATES, Idle, Context
  <1>2. ContextsOK
    BY DEF Init, ContextsOK, Idle
  <1>3. StockReturnedOncePerCancellation
    BY DEF Init, StockReturnedOncePerCancellation, Cancellations, ORDER_PROGRESS_STEPS
  <1>4. ReleaseFollowsCancellation
    BY DEF Init, ReleaseFollowsCancellation
  <1>5. QED
    BY <1>1, <1>2, <1>3, <1>4 DEF IInv

LEMMA StepIInv == IInv /\ [Next]_vars => IInv'
  <1> SUFFICES ASSUME IInv, [Next]_vars PROVE IInv'
    OBVIOUS
  <1> USE DEF IInv
  <1>1. ASSUME NEW o \in Orders, SiteExpires(o) PROVE IInv'
    <2>1. TypeOK'
      BY <1>1 DEF SiteExpires, TypeOK, RESERVATION_STATES
    <2>2. ContextsOK'
      BY <1>1 DEF SiteExpires, ContextsOK
    <2>3. StockReturnedOncePerCancellation' /\ ReleaseFollowsCancellation'
      BY <1>1 DEF SiteExpires, StockReturnedOncePerCancellation, Cancellations,
                  ReleaseFollowsCancellation, TypeOK
    <2>4. QED BY <2>1, <2>2, <2>3
  <1>2. ASSUME NEW r \in Requests, NEW o \in Orders, ClientCancel(r, o) \/ ManagerCancel(r, o)
        PROVE IInv'
    <2>0. req' = [req EXCEPT ![r] = [at |-> "cancelTxn", order |-> o, target |-> NoStatus]]
          /\ UNCHANGED orderVars
      BY <1>2 DEF ClientCancel, ManagerCancel, Starts
    <2>1. TypeOK'
      BY <2>0 DEF orderVars, TypeOK, Context
    <2>2. ContextsOK'
      BY <2>0 DEF orderVars, ContextsOK, TypeOK
    <2>3. StockReturnedOncePerCancellation' /\ ReleaseFollowsCancellation'
      BY <2>0 DEF orderVars, StockReturnedOncePerCancellation, Cancellations,
                  ReleaseFollowsCancellation
    <2>4. QED BY <2>1, <2>2, <2>3
  <1>3. ASSUME NEW r \in Requests, NEW o \in Orders, NEW s \in ORDER_STATUSES,
               ManagerAdvance(r, o, s)
        PROVE IInv'
    <2>0. /\ r \in Advancers
          /\ s \in ORDER_STATUSES \ {"CANCELLED"}
          /\ req' = [req EXCEPT ![r] = [at |-> "advanceTxn", order |-> o, target |-> s]]
          /\ UNCHANGED orderVars
      BY <1>3, ManagerActionNeverCancels DEF ManagerAdvance, Starts, TypeOK
    <2>1. TypeOK'
      BY <2>0 DEF orderVars, TypeOK, Context
    <2>2. ContextsOK'
      BY <2>0 DEF orderVars, ContextsOK, TypeOK
    <2>3. StockReturnedOncePerCancellation' /\ ReleaseFollowsCancellation'
      BY <2>0 DEF orderVars, StockReturnedOncePerCancellation, Cancellations,
                  ReleaseFollowsCancellation
    <2>4. QED BY <2>1, <2>2, <2>3
  <1>4. ASSUME NEW r \in Requests, CancelWins(r) PROVE IInv'
    <2> DEFINE o == req[r].order
    <2>0. /\ o \in Orders
          /\ status[o] # "CANCELLED"
          /\ status' = [status EXCEPT ![o] = "CANCELLED"]
          /\ returned' = [returned EXCEPT ![o] = @ + 1]
          /\ revived' = revived /\ reservation' = reservation
          /\ \/ req' = [req EXCEPT ![r] = Idle]
             \/ req' = [req EXCEPT ![r] =
                          [at |-> "releaseCall", order |-> o, target |-> NoStatus]]
      BY <1>4 DEF CancelWins, cancelOrderAndReleaseStock, STOCK_HELD_STATUSES, Ends, Starts,
                  ContextsOK
    <2> HIDE DEF o
    <2>1. TypeOK'
      BY <2>0 DEF TypeOK, Context, Idle, ORDER_STATUSES
    <2>2. ContextsOK'
      BY <2>0 DEF ContextsOK, TypeOK, Idle
    <2>3. StockReturnedOncePerCancellation'
      BY <2>0 DEF StockReturnedOncePerCancellation, Cancellations, TypeOK
    <2>4. ReleaseFollowsCancellation'
      BY <2>0 DEF ReleaseFollowsCancellation, TypeOK
    <2>5. QED BY <2>1, <2>2, <2>3, <2>4
  <1>5. ASSUME NEW r \in Requests, CancelLoses(r) \/ ReleaseFails(r) \/ Abandoned(r)
        PROVE IInv'
    <2>0. req' = [req EXCEPT ![r] = Idle] /\ UNCHANGED orderVars
      BY <1>5 DEF CancelLoses, ReleaseFails, Abandoned, Ends
    <2>1. TypeOK'
      BY <2>0, NoOrderAssumption DEF orderVars, TypeOK, Context, Idle
    <2>2. ContextsOK'
      BY <2>0 DEF orderVars, ContextsOK, TypeOK, Idle
    <2>3. StockReturnedOncePerCancellation' /\ ReleaseFollowsCancellation'
      BY <2>0 DEF orderVars, StockReturnedOncePerCancellation, Cancellations,
                  ReleaseFollowsCancellation
    <2>4. QED BY <2>1, <2>2, <2>3
  <1>6. ASSUME NEW r \in Requests, ReleaseSucceeds(r) PROVE IInv'
    <2> DEFINE o == req[r].order
    <2>0. /\ o \in Orders
          /\ status[o] = "CANCELLED" \/ revived[o] > 0
          /\ \E v \in RESERVATION_STATES : reservation' = [reservation EXCEPT ![o] = v]
          /\ req' = [req EXCEPT ![r] = Idle]
          /\ UNCHANGED <<status, returned, revived>>
      BY <1>6 DEF ReleaseSucceeds, siteLiberer, Ends, ContextsOK, TypeOK, RESERVATION_STATES
    <2> HIDE DEF o
    <2>1. TypeOK'
      BY <2>0 DEF TypeOK, Context, Idle
    <2>2. ContextsOK'
      BY <2>0 DEF ContextsOK, TypeOK, Idle
    <2>3. StockReturnedOncePerCancellation'
      BY <2>0 DEF StockReturnedOncePerCancellation, Cancellations
    <2>4. ReleaseFollowsCancellation'
      BY <2>0 DEF ReleaseFollowsCancellation, TypeOK
    <2>5. QED BY <2>1, <2>2, <2>3, <2>4
  <1>7. ASSUME NEW r \in Requests, AdvanceTxn(r) PROVE IInv'
    <2> DEFINE o == req[r].order
               s == req[r].target
    <2>0. /\ o \in Orders
          /\ s \in ORDER_STATUSES \ {"CANCELLED"}
          /\ status' = [status EXCEPT ![o] = s]
          /\ revived' = [revived EXCEPT ![o] = IF status[o] = "CANCELLED"
                                                 THEN revived[o] + 1 ELSE revived[o]]
          /\ returned' = returned /\ reservation' = reservation
          /\ req' = [req EXCEPT ![r] = Idle]
      BY <1>7 DEF AdvanceTxn, updateStatusOf, Ends, ContextsOK
    <2> HIDE DEF o, s
    <2>1. TypeOK'
      BY <2>0 DEF TypeOK, Context, Idle
    <2>2. ContextsOK'
      BY <2>0 DEF ContextsOK, TypeOK, Idle
    <2>3. StockReturnedOncePerCancellation'
      BY <2>0 DEF StockReturnedOncePerCancellation, Cancellations, TypeOK
    <2>4. ReleaseFollowsCancellation'
      BY <2>0 DEF ReleaseFollowsCancellation, TypeOK
    <2>5. QED BY <2>1, <2>2, <2>3, <2>4
  <1>8. CASE UNCHANGED vars
    BY <1>8 DEF vars, TypeOK, ContextsOK, StockReturnedOncePerCancellation, Cancellations,
                ReleaseFollowsCancellation
  <1>9. QED
    BY <1>1, <1>2, <1>3, <1>4, <1>5, <1>6, <1>7, <1>8 DEF Next, Starting, Serving

LEMMA Invariance == Spec => []IInv
  BY InitIInv, StepIInv, PTL DEF Spec

\* A step of OrderLifecycle leaves the statuses alone, cancels or updates one order.
LEMMA OrderStepKinds ==
  ASSUME IInv, Next
  PROVE  \/ UNCHANGED <<status, revived>>
         \/ \E x \in Orders : cancelOrderAndReleaseStock(x)
         \/ \E x \in Orders, s \in ORDER_STATUSES : updateStatusOf(x, s)
  BY DEF Next, Starting, Serving, SiteExpires, ClientCancel, ManagerCancel, ManagerAdvance,
         CancelWins, CancelLoses, ReleaseSucceeds, ReleaseFails, AdvanceTxn, Abandoned,
         orderVars, IInv, ContextsOK

-----------------------------------------------------------------------------
(* The writes of the order row keep IInv, whichever service makes them: the *)
(* modules that extend OrderLifecycle cite these lemmas.                    *)

LEMMA UpdateKeepsIInv ==
  ASSUME IInv, NEW o \in Orders, NEW s \in ORDER_STATUSES \ {"CANCELLED"},
         updateStatusOf(o, s), UNCHANGED <<reservation, req>>
  PROVE  IInv'
  <1>1. TypeOK'
    BY DEF IInv, updateStatusOf, TypeOK, Context
  <1>2. ContextsOK'
    BY DEF IInv, updateStatusOf, ContextsOK, TypeOK
  <1>3. StockReturnedOncePerCancellation'
    BY DEF IInv, updateStatusOf, StockReturnedOncePerCancellation, Cancellations, TypeOK
  <1>4. ReleaseFollowsCancellation'
    BY DEF IInv, updateStatusOf, ReleaseFollowsCancellation, TypeOK
  <1>5. QED BY <1>1, <1>2, <1>3, <1>4 DEF IInv

LEMMA CancelKeepsIInv ==
  ASSUME IInv, NEW o \in Orders, cancelOrderAndReleaseStock(o), UNCHANGED <<reservation, req>>
  PROVE  IInv' /\ status'[o] = "CANCELLED"
  <1>0. status[o] # "CANCELLED"
    BY DEF cancelOrderAndReleaseStock, STOCK_HELD_STATUSES
  <1>1. TypeOK' /\ status'[o] = "CANCELLED"
    BY DEF IInv, cancelOrderAndReleaseStock, TypeOK, Context, ORDER_STATUSES
  <1>2. ContextsOK'
    BY DEF IInv, cancelOrderAndReleaseStock, ContextsOK, TypeOK
  <1>3. StockReturnedOncePerCancellation'
    BY <1>0 DEF IInv, cancelOrderAndReleaseStock, StockReturnedOncePerCancellation,
                Cancellations, TypeOK
  <1>4. ReleaseFollowsCancellation'
    BY DEF IInv, cancelOrderAndReleaseStock, ReleaseFollowsCancellation, TypeOK
  <1>5. QED BY <1>1, <1>2, <1>3, <1>4 DEF IInv

LEMMA LiberKeepsIInv ==
  ASSUME IInv, NEW o \in Orders, status[o] = "CANCELLED" \/ revived[o] > 0,
         siteLiberer(o) \/ UNCHANGED reservation, UNCHANGED <<status, returned, revived, req>>
  PROVE  IInv'
  <1>0. \E v \in RESERVATION_STATES : reservation' = [reservation EXCEPT ![o] = v]
    BY DEF IInv, TypeOK, siteLiberer, RESERVATION_STATES
  <1>1. TypeOK'
    BY <1>0 DEF IInv, TypeOK, Context
  <1>2. ContextsOK'
    BY DEF IInv, ContextsOK
  <1>3. StockReturnedOncePerCancellation'
    BY DEF IInv, StockReturnedOncePerCancellation, Cancellations
  <1>4. ReleaseFollowsCancellation'
    BY <1>0 DEF IInv, ReleaseFollowsCancellation, TypeOK
  <1>5. QED BY <1>1, <1>2, <1>3, <1>4 DEF IInv

\* A cancelled or revived order stays so.
LEMMA CancelledOrRevivedStays ==
  ASSUME IInv, NEW o \in Orders, status[o] = "CANCELLED" \/ revived[o] > 0,
         NEW x \in Orders,
         \/ UNCHANGED <<status, revived>>
         \/ cancelOrderAndReleaseStock(x)
         \/ \E s \in ORDER_STATUSES : updateStatusOf(x, s)
  PROVE  status'[o] = "CANCELLED" \/ revived'[o] > 0
  BY DEF IInv, TypeOK, cancelOrderAndReleaseStock, updateStatusOf

-----------------------------------------------------------------------------
(* Results.                                                                *)

(* Whatever the requests and their interleaving, the order row, the stock  *)
(* journal, the reservations and the request contexts keep their types.    *)
THEOREM TypeCorrectness == Spec => []TypeOK
  BY Invariance, PTL DEF IInv

(* Every number of customers and managers cancelling and advancing at the  *)
(* same time returns an order's goods once per cancellation.               *)
THEOREM SingleWinner == Spec => []StockReturnedOncePerCancellation
  BY Invariance, PTL DEF IInv

(* The site is told to release only what the database has cancelled.       *)
THEOREM SiteFollowsDatabase == Spec => []ReleaseFollowsCancellation
  BY Invariance, PTL DEF IInv

-----------------------------------------------------------------------------
(* Without a manager advancing orders, nothing takes an order out of        *)
(* CANCELLED.                                                               *)

NeverRevived == \A o \in Orders : revived[o] = 0

LEMMA StepNeverRevived ==
  ASSUME Advancers = {}, IInv, NeverRevived, [Next]_vars
  PROVE  NeverRevived'
  <1>1. ASSUME NEW o \in Orders, SiteExpires(o) PROVE NeverRevived'
    BY <1>1 DEF SiteExpires, NeverRevived
  <1>2. ASSUME NEW r \in Requests, Starting(r) PROVE NeverRevived'
    BY <1>2 DEF Starting, ClientCancel, ManagerCancel, ManagerAdvance, orderVars, NeverRevived
  <1>3. ASSUME NEW r \in Requests, CancelWins(r) PROVE NeverRevived'
    BY <1>3 DEF CancelWins, cancelOrderAndReleaseStock, NeverRevived
  <1>4. ASSUME NEW r \in Requests,
               CancelLoses(r) \/ ReleaseSucceeds(r) \/ ReleaseFails(r) \/ Abandoned(r)
        PROVE NeverRevived'
    BY <1>4 DEF CancelLoses, ReleaseSucceeds, ReleaseFails, Abandoned, orderVars, NeverRevived
  <1>5. ASSUME NEW r \in Requests, AdvanceTxn(r) PROVE FALSE
    BY <1>5 DEF AdvanceTxn, IInv, ContextsOK
  <1>6. CASE UNCHANGED vars
    BY <1>6 DEF vars, NeverRevived
  <1>7. QED
    BY <1>1, <1>2, <1>3, <1>4, <1>5, <1>6 DEF Next, Serving

(* As long as only cancellations compete, however many of them there are,  *)
(* the goods of an order go back to the shelf at most once in its life.     *)
THEOREM CancellationsReturnOnce ==
  ASSUME Advancers = {}
  PROVE  Spec => []ReturnedAtMostOnce
  <1>1. Init => NeverRevived
    BY DEF Init, NeverRevived
  <1>2. IInv /\ NeverRevived /\ [Next]_vars => NeverRevived'
    BY StepNeverRevived
  <1>3. IInv /\ NeverRevived => ReturnedAtMostOnce
    BY DEF IInv, NeverRevived, StockReturnedOncePerCancellation, Cancellations,
           ReturnedAtMostOnce
  <1>4. QED
    BY <1>1, <1>2, <1>3, Invariance, PTL DEF Spec

-----------------------------------------------------------------------------
(* Served one at a time, the handlers implement the order contract.        *)

\* The status a serial advance is about to write is still a manager's action.
AdvanceFresh ==
  \A r \in Requests :
    req[r].at = "advanceTxn" => req[r].target \in managerActionFor(status[req[r].order])

\* Every manager action is a transition of the shared table.
LEMMA ManagerActionInTable ==
  ASSUME NEW s \in ORDER_STATUSES, NEW t \in managerActionFor(s)
  PROVE  t \in Contract!ORDER_TRANSITIONS[s] \ {"CANCELLED"}
  BY DEF managerActionFor, ORDER_STATUSES, Contract!ORDER_TRANSITIONS, Contract!ORDER_STATUSES

\* Goods are held only in statuses from which the table allows a cancellation.
LEMMA HeldIsCancellable ==
  ASSUME NEW s \in STOCK_HELD_STATUSES
  PROVE  Contract!canTransition(s, "CANCELLED")
  BY DEF STOCK_HELD_STATUSES, ORDER_STATUSES, Contract!canTransition,
         Contract!ORDER_TRANSITIONS, Contract!ORDER_STATUSES

(* One request at a time: every step of the handlers is a step of the       *)
(* contract or leaves it unchanged, so every status change is in the shared *)
(* table and goods come back only with a cancellation.                      *)
THEOREM SerialRequestsImplementContract ==
  ASSUME NEW r, Requests = {r}
  PROVE  Spec => ImplementsOrderContract
  <1>1. Init => Contract!Init /\ AdvanceFresh
    BY DEF Init, AdvanceFresh, Idle, Contract!Init, ORDER_PROGRESS_STEPS, ORDER_STATUSES,
           Contract!ORDER_PROGRESS_STEPS, Contract!ORDER_STATUSES
  <1>2. IInv /\ AdvanceFresh /\ [Next]_vars
          => AdvanceFresh' /\ [Contract!Next]_Contract!contractVars
    <2> SUFFICES ASSUME IInv, AdvanceFresh, [Next]_vars
                 PROVE  AdvanceFresh' /\ [Contract!Next]_Contract!contractVars
      OBVIOUS
    <2>0. TypeOK /\ ContextsOK
      BY DEF IInv
    <2>1. ASSUME NEW o \in Orders, SiteExpires(o)
          PROVE  AdvanceFresh' /\ UNCHANGED <<status, returned>>
      BY <2>1 DEF SiteExpires, AdvanceFresh
    <2>2. ASSUME NEW o \in Orders, ClientCancel(r, o) \/ ManagerCancel(r, o)
          PROVE  AdvanceFresh' /\ UNCHANGED <<status, returned>>
      BY <2>0, <2>2 DEF ClientCancel, ManagerCancel, Starts, orderVars, AdvanceFresh, TypeOK
    <2>3. ASSUME NEW o \in Orders, NEW s \in ORDER_STATUSES, ManagerAdvance(r, o, s)
          PROVE  AdvanceFresh' /\ UNCHANGED <<status, returned>>
      BY <2>0, <2>3 DEF ManagerAdvance, Starts, orderVars, AdvanceFresh, TypeOK
    <2>4. ASSUME CancelLoses(r) \/ ReleaseSucceeds(r) \/ ReleaseFails(r) \/ Abandoned(r)
          PROVE  AdvanceFresh' /\ UNCHANGED <<status, returned>>
      BY <2>0, <2>4 DEF CancelLoses, ReleaseSucceeds, ReleaseFails, Abandoned, Ends, Idle,
                        orderVars, AdvanceFresh, TypeOK
    <2>5. ASSUME CancelWins(r)
          PROVE  AdvanceFresh' /\ Contract!Next
      <3> DEFINE o == req[r].order
      <3>1. o \in Orders /\ status[o] \in STOCK_HELD_STATUSES
        BY <2>0, <2>5 DEF ContextsOK, CancelWins, cancelOrderAndReleaseStock
      <3>2. Contract!Cancel(o)
        BY <2>5, <3>1, HeldIsCancellable
        DEF CancelWins, cancelOrderAndReleaseStock, Contract!Cancel
      <3>3. AdvanceFresh'
        BY <2>0, <2>5 DEF CancelWins, Ends, Starts, Idle, AdvanceFresh, TypeOK
      <3>4. QED BY <3>1, <3>2, <3>3 DEF Contract!Next
    <2>6. ASSUME AdvanceTxn(r)
          PROVE  AdvanceFresh' /\ Contract!Next
      <3> DEFINE o == req[r].order
                 s == req[r].target
      <3>1. o \in Orders /\ status[o] \in ORDER_STATUSES /\ s \in managerActionFor(status[o])
        BY <2>0, <2>6 DEF ContextsOK, AdvanceTxn, AdvanceFresh, TypeOK
      <3>2. Contract!Advance(o)
        BY <2>6, <3>1, ManagerActionInTable DEF AdvanceTxn, updateStatusOf, Contract!Advance
      <3>3. AdvanceFresh'
        BY <2>0, <2>6 DEF AdvanceTxn, Ends, Idle, AdvanceFresh, TypeOK
      <3>4. QED BY <3>1, <3>2, <3>3 DEF Contract!Next
    <2>7. ASSUME UNCHANGED vars
          PROVE  AdvanceFresh' /\ UNCHANGED <<status, returned>>
      BY <2>7 DEF vars, AdvanceFresh
    <2>8. QED
      BY <2>1, <2>2, <2>3, <2>4, <2>5, <2>6, <2>7
      DEF Next, Starting, Serving, Contract!contractVars
  <1>3. QED
    BY <1>1, <1>2, Invariance, PTL DEF Spec, ImplementsOrderContract, Contract!Spec
=============================================================================
