--------------------------- MODULE LocalCheckout ---------------------------
(***************************************************************************)
(* Ordering, cancelling and counting when the stock is owned by this        *)
(* application (STOCK_MODE=local): CheckoutService.create,                  *)
(* cancelOrderAndReleaseStock and ManagementService.adjustStock.            *)
(*                                                                          *)
(* Each is one PostgreSQL transaction that locks rows as it goes and keeps  *)
(* them until it commits: a checkout locks the variants of its cart, then   *)
(* the counter of references; a cancellation locks the order, then its      *)
(* variants; an adjustment one variant.  What a transaction writes is seen  *)
(* at its commit, so a commit is one step; what it read at a lock stays     *)
(* true until then only because the lock is held.                           *)
(***************************************************************************)
EXTENDS Integers, Sequences, FiniteSets

CONSTANTS
  Variants,        \* the variants, named by numbers: the order of their identifiers
  Keys,            \* the idempotency keys; a key names the order it creates
  Cart,            \* Cart[k][v]: the quantity of v the body of key k asks for
  InitialStock,    \* the stock of each variant at the start
  Workers,         \* the request contexts of the API
  MaxAdjustments   \* bound: adjustments of the stock

ASSUME VariantsAssumption == Variants \subseteq Nat
ASSUME CartAssumption == Cart \in [Keys -> [Variants -> Nat]]
ASSUME InitialStockAssumption == InitialStock \in [Variants -> Nat]
ASSUME MaxAdjustmentsAssumption == MaxAdjustments \in Nat

Nobody == "Nobody"
NoKey == "NoKey"
ASSUME NobodyAssumption == Nobody \notin Workers /\ NoKey \notin Keys

VARIABLES
  stock,         \* productVariant.stock
  journal,       \* the stock movements of each variant, oldest first
  order,         \* the order of each key: "none", "PENDING" or "CANCELLED"
  number,        \* the number in its reference, 0 if there is none
  current,       \* orderCounter.current
  adjusted,      \* history: sum of the adjustments of each variant
  adjustments,   \* history: their number
  variantLock,   \* the worker that holds the row of each variant
  counterLock,   \* the worker that holds the row of the counter
  orderLock,     \* the worker that holds the row of each order
  worker         \* the request contexts

localVars == <<stock, journal, order, number, current, adjusted, adjustments,
               variantLock, counterLock, orderLock, worker>>
dataVars == <<stock, journal, order, number, current, adjusted, adjustments>>
lockVars == <<variantLock, counterLock, orderLock>>

WIdle ==
  [at |-> "idle", key |-> NoKey, wanted |-> {}, seen |-> [v \in Variants |-> 0], number |-> 0]

WorkerContext ==
  [at : {"idle", "begin", "lock", "count", "write", "switch", "return"},
   key : Keys \cup {NoKey},
   wanted : SUBSET Variants,
   seen : [Variants -> Nat],
   number : Nat]

Movement == [before : Nat, after : Nat]

LocalTypeOK ==
  /\ stock \in [Variants -> Nat]
  /\ journal \in [Variants -> Seq(Movement)]
  /\ order \in [Keys -> {"none", "PENDING", "CANCELLED"}]
  /\ number \in [Keys -> Nat]
  /\ current \in Nat
  /\ adjusted \in [Variants -> Int]
  /\ adjustments \in Nat
  /\ variantLock \in [Variants -> Workers \cup {Nobody}]
  /\ counterLock \in Workers \cup {Nobody}
  /\ orderLock \in [Keys -> Workers \cup {Nobody}]
  /\ worker \in [Workers -> WorkerContext]

LocalInit ==
  /\ stock = InitialStock
  /\ journal = [v \in Variants |-> <<>>]
  /\ order = [k \in Keys |-> "none"]
  /\ number = [k \in Keys |-> 0]
  /\ current = 0
  /\ adjusted = [v \in Variants |-> 0]
  /\ adjustments = 0
  /\ variantLock = [v \in Variants |-> Nobody]
  /\ counterLock = Nobody
  /\ orderLock = [k \in Keys |-> Nobody]
  /\ worker = [w \in Workers |-> WIdle]

-----------------------------------------------------------------------------
\* The variants of the cart of a key.
Items(k) == {v \in Variants : Cart[k][v] > 0}

\* The rows of a transaction are free again, at its commit or its rollback.
Unlock(w) ==
  /\ variantLock' = [v \in Variants |-> IF variantLock[v] = w THEN Nobody ELSE variantLock[v]]
  /\ counterLock' = IF counterLock = w THEN Nobody ELSE counterLock
  /\ orderLock' = [k \in Keys |-> IF orderLock[k] = w THEN Nobody ELSE orderLock[k]]

Finishes(w) == Unlock(w) /\ worker' = [worker EXCEPT ![w] = WIdle]

GoesTo(w, at) == worker' = [worker EXCEPT ![w].at = at]

Smallest(S) == CHOOSE v \in S : \A x \in S : v <= x

\* ORDER BY v."id" FOR UPDATE: the next row a checkout locks.
nextLocked(w) == Smallest(worker[w].wanted)

\* releaseStockForOrder sorts the lines: the next row a cancellation updates.
nextReturned(w) == Smallest(worker[w].wanted)

\* One movement of a variant, appended to its journal.
Moves(v, before, after) == Append(journal[v], [before |-> before, after |-> after])

-----------------------------------------------------------------------------
(* CheckoutService.create.                                                 *)

\* The request arrives; address, zone and code are checked outside the transaction.
Submit(w, k) ==
  /\ worker[w].at = "idle"
  /\ worker' = [worker EXCEPT ![w] = [WIdle EXCEPT !.at = "begin", !.key = k]]
  /\ UNCHANGED <<dataVars, lockVars>>

\* The idempotency record of the key exists: its order is answered again, or the
\* request is refused because it asks for something else (409); neither writes.
Replay(w) ==
  /\ worker[w].at = "begin"
  /\ order[worker[w].key] # "none"
  /\ worker' = [worker EXCEPT ![w] = WIdle]
  /\ UNCHANGED <<dataVars, lockVars>>

\* There is no record: the transaction goes on to its locks.
Begin(w) ==
  /\ worker[w].at = "begin"
  /\ order[worker[w].key] = "none"
  /\ worker' = [worker EXCEPT ![w].at = "lock", ![w].wanted = Items(worker[w].key)]
  /\ UNCHANGED <<dataVars, lockVars>>

\* lockVariantsForOrder takes one more row and reads its stock.
LockVariant(w) ==
  LET v == nextLocked(w) IN
  /\ worker[w].at = "lock"
  /\ worker[w].wanted # {}
  /\ variantLock[v] = Nobody
  /\ variantLock' = [variantLock EXCEPT ![v] = w]
  /\ worker' = [worker EXCEPT ![w].wanted = @ \ {v}, ![w].seen[v] = stock[v]]
  /\ UNCHANGED <<dataVars, counterLock, orderLock>>

\* All rows are locked; the lines are priced.
Locked(w) ==
  /\ worker[w].at = "lock"
  /\ worker[w].wanted = {}
  /\ GoesTo(w, "count")
  /\ UNCHANGED <<dataVars, lockVars>>

\* The upsert of the counter locks its row until the commit.
CountLocked(w) ==
  /\ worker[w].at = "count"
  /\ counterLock = Nobody
  /\ counterLock' = w
  /\ worker' = [worker EXCEPT ![w].at = "write", ![w].number = current + 1]
  /\ UNCHANGED <<dataVars, variantLock, orderLock>>

\* Both the value read under the lock and the WHERE of the UPDATE must cover the line.
Covered(w, k) ==
  \A v \in Items(k) : worker[w].seen[v] >= Cart[k][v] /\ stock[v] >= Cart[k][v]

\* reserveStockForOrder: the decrements and their movements.
reserveStockForOrder(w, k) ==
  /\ stock' = [v \in Variants |-> stock[v] - Cart[k][v]]
  /\ journal' =
       [v \in Variants |->
          IF v \in Items(k)
          THEN Moves(v, worker[w].seen[v], worker[w].seen[v] - Cart[k][v])
          ELSE journal[v]]

\* The order, its event and its record are written; the transaction commits.
CheckoutCommits(w) ==
  LET k == worker[w].key IN
  /\ worker[w].at = "write"
  /\ Covered(w, k)
  /\ order[k] = "none"
  /\ reserveStockForOrder(w, k)
  /\ current' = worker[w].number
  /\ number' = [number EXCEPT ![k] = worker[w].number]
  /\ order' = [order EXCEPT ![k] = "PENDING"]
  /\ Finishes(w)
  /\ UNCHANGED <<adjusted, adjustments>>

\* Faulty variant: the answer is a replay, and the decrements are committed.
CheckoutTwinCommitsStock(w) ==
  LET k == worker[w].key IN
  /\ worker[w].at = "write"
  /\ Covered(w, k)
  /\ order[k] # "none"
  /\ reserveStockForOrder(w, k)
  /\ Finishes(w)
  /\ UNCHANGED <<order, number, current, adjusted, adjustments>>

\* The unique key was taken meanwhile: the transaction is aborted as a whole.
CheckoutTwin(w) ==
  LET k == worker[w].key IN
  /\ worker[w].at = "write"
  /\ Covered(w, k)
  /\ order[k] # "none"
  /\ Finishes(w)
  /\ UNCHANGED dataVars

\* Faulty variant: the refusal is answered and the transaction left open.
CheckoutRefusedLeftOpen(w) ==
  /\ worker[w].at = "write"
  /\ ~ Covered(w, worker[w].key)
  /\ worker' = [worker EXCEPT ![w] = WIdle]
  /\ UNCHANGED <<dataVars, lockVars>>

\* INSUFFICIENT_STOCK: 409, rolled back.
CheckoutRefused(w) ==
  /\ worker[w].at = "write"
  /\ ~ Covered(w, worker[w].key)
  /\ Finishes(w)
  /\ UNCHANGED dataVars

-----------------------------------------------------------------------------
(* cancelOrderAndReleaseStock in local mode.                               *)

\* Someone cancels an order that was read as holding goods.
Cancel(w, k) ==
  /\ worker[w].at = "idle"
  /\ order[k] = "PENDING"
  /\ worker' = [worker EXCEPT ![w] = [WIdle EXCEPT !.at = "switch", !.key = k]]
  /\ UNCHANGED <<dataVars, lockVars>>

\* Faulty variant: the switch has no condition on the status.
CancelSwitchesAlways(w) ==
  LET k == worker[w].key IN
  /\ worker[w].at = "switch"
  /\ orderLock[k] = Nobody
  /\ orderLock' = [orderLock EXCEPT ![k] = w]
  /\ worker' = [worker EXCEPT ![w].at = "return", ![w].wanted = Items(k)]
  /\ UNCHANGED <<dataVars, variantLock, counterLock>>

\* The conditional switch wins and holds the row of the order.
CancelSwitches(w) ==
  LET k == worker[w].key IN
  /\ worker[w].at = "switch"
  /\ orderLock[k] = Nobody
  /\ order[k] = "PENDING"
  /\ orderLock' = [orderLock EXCEPT ![k] = w]
  /\ worker' = [worker EXCEPT ![w].at = "return", ![w].wanted = Items(k)]
  /\ UNCHANGED <<dataVars, variantLock, counterLock>>

\* It finds the order cancelled: nothing is returned.
CancelLoses(w) ==
  /\ worker[w].at = "switch"
  /\ orderLock[worker[w].key] = Nobody
  /\ order[worker[w].key] = "CANCELLED"
  /\ Finishes(w)
  /\ UNCHANGED dataVars

\* The increment of one variant: its row is held until the commit.
ReturnVariant(w) ==
  LET v == nextReturned(w) IN
  /\ worker[w].at = "return"
  /\ worker[w].wanted # {}
  /\ variantLock[v] = Nobody
  /\ variantLock' = [variantLock EXCEPT ![v] = w]
  /\ worker' = [worker EXCEPT ![w].wanted = @ \ {v}]
  /\ UNCHANGED <<dataVars, counterLock, orderLock>>

\* All lines are returned: the transaction commits.
CancelCommits(w) ==
  LET k == worker[w].key IN
  /\ worker[w].at = "return"
  /\ worker[w].wanted = {}
  /\ stock' = [v \in Variants |-> stock[v] + Cart[k][v]]
  /\ journal' =
       [v \in Variants |->
          IF v \in Items(k) THEN Moves(v, stock[v], stock[v] + Cart[k][v]) ELSE journal[v]]
  /\ order' = [order EXCEPT ![k] = "CANCELLED"]
  /\ Finishes(w)
  /\ UNCHANGED <<number, current, adjusted, adjustments>>

-----------------------------------------------------------------------------
\* adjustStock and applyStockChange: one row, refused below zero.
adjustStock(v, delta) ==
  /\ adjustments < MaxAdjustments
  /\ variantLock[v] = Nobody
  /\ stock[v] + delta >= 0
  /\ stock' = [stock EXCEPT ![v] = @ + delta]
  /\ journal' = [journal EXCEPT ![v] = Moves(v, stock[v], stock[v] + delta)]
  /\ adjusted' = [adjusted EXCEPT ![v] = @ + delta]
  /\ adjustments' = adjustments + 1
  /\ UNCHANGED <<order, number, current, lockVars, worker>>

\* The process is recycled, the transaction times out, or a line is unavailable.
RolledBack(w) ==
  /\ worker[w].at # "idle"
  /\ Finishes(w)
  /\ UNCHANGED dataVars

-----------------------------------------------------------------------------
Checkout(w) ==
  \/ Replay(w) \/ Begin(w) \/ LockVariant(w) \/ Locked(w) \/ CountLocked(w)
  \/ CheckoutCommits(w) \/ CheckoutTwin(w) \/ CheckoutRefused(w)

Cancelling(w) ==
  CancelSwitches(w) \/ CancelLoses(w) \/ ReturnVariant(w) \/ CancelCommits(w)

LocalNext ==
  \/ \E w \in Workers :
       \/ \E k \in Keys : Submit(w, k) \/ Cancel(w, k)
       \/ Checkout(w)
       \/ Cancelling(w)
       \/ RolledBack(w)
  \/ \E v \in Variants, delta \in {-1, 1} : adjustStock(v, delta)

(* A server runs the requests it accepted, and PostgreSQL serves the waiters *)
(* of a row in turn: a transaction that keeps finding its row free takes it. *)
LocalFairness == \A w \in Workers : SF_localVars(Checkout(w) \/ Cancelling(w))

LocalSpec == LocalInit /\ [][LocalNext]_localVars /\ LocalFairness

-----------------------------------------------------------------------------
(* Properties.                                                             *)

(* The journal of a variant explains its stock: each movement starts where  *)
(* the one before ended and the last ends at the stock, although "before"   *)
(* is a value read earlier in the transaction.                             *)
JournalExplainsStock ==
  \A v \in Variants :
    LET j == journal[v] IN
    /\ \A i \in 1 .. Len(j) - 1 : j[i + 1].before = j[i].after
    /\ IF j = <<>> THEN stock[v] = InitialStock[v]
                   ELSE j[1].before = InitialStock[v] /\ j[Len(j)].after = stock[v]

Total(S, v) ==
  LET sum[T \in SUBSET S] ==
        IF T = {} THEN 0
        ELSE LET k == CHOOSE x \in T : TRUE IN Cart[k][v] + sum[T \ {k}]
  IN  sum[S]

(* Nothing is lost and nothing appears: what is on the shelf and what the   *)
(* live orders hold make what there was and what was adjusted, so a key     *)
(* sold twice or an order returned twice would show.                       *)
GoodsConserved ==
  \A v \in Variants :
    stock[v] + Total({k \in Keys : order[k] = "PENDING"}, v) = InitialStock[v] + adjusted[v]

(* Two orders never share a reference: the counter row is held from the     *)
(* increment to the commit of the order that uses it.                      *)
ReferencesUnique ==
  \A j, k \in Keys : order[j] # "none" /\ number[j] = number[k] => j = k

\* w waits for a row that x holds.
WaitsFor(w, x) ==
  /\ w # x
  /\ \/ /\ worker[w].at = "lock" /\ worker[w].wanted # {}
        /\ variantLock[nextLocked(w)] = x
     \/ /\ worker[w].at = "return" /\ worker[w].wanted # {}
        /\ variantLock[nextReturned(w)] = x
     \/ worker[w].at = "count" /\ counterLock = x
     \/ worker[w].at = "switch" /\ orderLock[worker[w].key] = x

(* No set of transactions waits for itself: rows are locked in the order of *)
(* their identifiers by buyers and by cancellers alike, orders before, the  *)
(* counter after, so PostgreSQL never has to break a deadlock.             *)
NoWaitCycle ==
  \A S \in (SUBSET Workers) \ {{}} : \E w \in S : \A x \in S : ~ WaitsFor(w, x)

(* Every checkout and every cancellation that is accepted ends.            *)
EveryCheckoutEnds == \A w \in Workers : (worker[w].at # "idle") ~> (worker[w].at = "idle")

Shelf == INSTANCE ShelfContract WITH shelf <- stock, purchase <- order

(* The transactions implement the shelf: each sells or returns a whole cart *)
(* in one step, once, or does nothing.                                     *)
ImplementsShelfContract == Shelf!Spec
=============================================================================
