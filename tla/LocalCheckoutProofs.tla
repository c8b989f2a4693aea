------------------------ MODULE LocalCheckoutProofs ------------------------
(***************************************************************************)
(* Theorems about LocalCheckout, for every catalogue, every cart and every *)
(* number of workers. The heart of the invariant (WorkerOK) says which     *)
(* rows a transaction holds at each of its steps, that they come before    *)
(* those it still wants, and that what it read from them is still true.    *)
(* GoodsInv adds the sums: an order made or cancelled moves its quantities *)
(* between the stock and what the orders hold.                             *)
(* The sums serve a second component: the figures of the management         *)
(* (Analytics), whose totals are sums over the orders of a month.           *)
(***************************************************************************)
EXTENDS LocalCheckout, Analytics, SetSums, FiniteSetTheorems, WellFoundedInduction,
        SequenceTheorems, TLAPS

(* The rows of variants a transaction holds.                               *)
HeldBy(w) ==
  IF worker[w].at \in {"lock", "count", "write", "return"}
  THEN Items(worker[w].key) \ worker[w].wanted
  ELSE {}

WorkerOK(w) ==
  /\ worker[w].at # "idle" => worker[w].key \in Keys
  /\ \A v \in Variants : variantLock[v] = w <=> v \in HeldBy(w)
  /\ worker[w].at \in {"lock", "return"} =>
       worker[w].wanted \subseteq Items(worker[w].key)
  /\ worker[w].at \in {"lock", "return"} =>
       \A v \in HeldBy(w), u \in worker[w].wanted : v < u
  /\ worker[w].at \in {"count", "write"} => worker[w].wanted = {}
  /\ worker[w].at \in {"lock", "count", "write"} =>
       \A v \in HeldBy(w) : worker[w].seen[v] = stock[v]
  /\ counterLock = w <=> worker[w].at = "write"
  /\ worker[w].at = "write" => worker[w].number = current + 1
  /\ \A k \in Keys : orderLock[k] = w <=> (worker[w].at = "return" /\ worker[w].key = k)
  /\ worker[w].at = "return" => order[worker[w].key] = "PENDING"

NumbersOK ==
  \A k \in Keys : IF order[k] = "none" THEN number[k] = 0 ELSE number[k] \in 1 .. current

LInv ==
  /\ LocalTypeOK
  /\ \A w \in Workers : WorkerOK(w)
  /\ NumbersOK
  /\ ReferencesUnique
  /\ JournalExplainsStock

-----------------------------------------------------------------------------
(* First and last elements of sets of natural numbers.                     *)

LEMMA HasLast ==
  ASSUME NEW T \in SUBSET Nat, IsFiniteSet(T), T # {}
  PROVE  \E x \in T : \A y \in T : y <= x
  <1> DEFINE Above(x) == {t \in T : t > x}
             F == {Above(x) : x \in T}
             R == StrictSubsetOrdering(T)
  <1>1. F \subseteq FiniteSubsetsOf(T) /\ F # {}
    <2>1. \A x \in T : Above(x) \in SUBSET T
      OBVIOUS
    <2>2. \A x \in T : Above(x) \in FiniteSubsetsOf(T)
      BY <2>1, FS_Subset DEF FiniteSubsetsOf
    <2> HIDE DEF Above
    <2>3. QED BY <2>2
  <1>2. IsWellFoundedOn(R, FiniteSubsetsOf(T))
    BY FS_StrictSubsetOrderingWellFounded
  <1>3. PICK U \in F : \A V \in F : ~ (<<V, U>> \in R)
    <2> HIDE DEF F, R
    <2>1. QED BY <1>1, <1>2, WFMin
  <1>4. PICK x \in T : U = Above(x)
    BY <1>3
  <1>5. ASSUME NEW y \in T, y > x PROVE FALSE
    <2>1. y \in Above(x) /\ y \notin Above(y)
      BY <1>5
    <2>2. Above(y) \subseteq Above(x)
      <3>1. \A t \in T : t > y => t > x
        BY <1>5
      <3>2. QED BY <3>1
    <2>3. <<Above(y), Above(x)>> \in R
      BY <2>1, <2>2 DEF StrictSubsetOrdering
    <2>4. Above(y) \in F
      OBVIOUS
    <2>5. QED BY <1>3, <1>4, <2>3, <2>4
  <1>6. QED BY <1>5

LEMMA HasFirst ==
  ASSUME NEW T \in SUBSET Nat, T # {}
  PROVE  \E x \in T : \A y \in T : x <= y
  <1>1. PICK x \in T : \A y \in T : ~ (<<y, x>> \in OpToRel(<, Nat))
    BY NatLessThanWellFounded, WFMin
  <1>2. ASSUME NEW y \in T, y < x PROVE FALSE
    <2>1. <<y, x>> \in OpToRel(<, Nat)
      BY <1>2 DEF OpToRel
    <2>2. QED BY <1>1, <2>1
  <1>3. QED BY <1>2

\* The next row a transaction takes precedes every other row it wants.
LEMMA SmallestIsFirst ==
  ASSUME NEW T \in SUBSET Variants, T # {}
  PROVE  Smallest(T) \in T /\ \A x \in T \ {Smallest(T)} : Smallest(T) < x
  <1>1. T \in SUBSET Nat
    BY VariantsAssumption
  <1>2. \E x \in T : \A y \in T : x <= y
    BY <1>1, HasFirst
  <1>3. Smallest(T) \in T /\ \A y \in T : Smallest(T) <= y
    BY <1>2 DEF Smallest
  <1> DEFINE s == Smallest(T)
  <1>4. s \in T /\ \A y \in T : s <= y
    BY <1>3
  <1> HIDE DEF s
  <1>5. \A x \in T \ {s} : s < x
    BY <1>1, <1>4
  <1>6. QED BY <1>4, <1>5 DEF s

LEMMA ItemsAreVariants ==
  ASSUME NEW k \in Keys
  PROVE  Items(k) \subseteq Variants /\ \A v \in Variants \ Items(k) : Cart[k][v] = 0
  BY CartAssumption DEF Items

-----------------------------------------------------------------------------
LEMMA LocalInitOK == LocalInit => LInv
  <1> SUFFICES ASSUME LocalInit PROVE LInv
    OBVIOUS
  <1>1. LocalTypeOK
    BY InitialStockAssumption DEF LocalInit, LocalTypeOK, WorkerContext, WIdle
  <1>2. \A w \in Workers : WorkerOK(w)
    BY NobodyAssumption DEF LocalInit, WorkerOK, HeldBy, WIdle
  <1>3. NumbersOK /\ ReferencesUnique /\ JournalExplainsStock
    BY DEF LocalInit, NumbersOK, ReferencesUnique, JournalExplainsStock
  <1>4. QED BY <1>1, <1>2, <1>3 DEF LInv

(* A transaction that is not the one that steps keeps its hold: its rows    *)
(* keep the values it read, because a writer of a row holds it.            *)
LEMMA OthersKeep ==
  ASSUME NEW x \in Workers, WorkerOK(x), worker'[x] = worker[x],
         \A v \in Variants : variantLock'[v] = x <=> variantLock[v] = x,
         \A v \in Variants : variantLock[v] = x => stock'[v] = stock[v],
         counterLock' = x <=> counterLock = x,
         counterLock = x => current' = current,
         \A k \in Keys : orderLock'[k] = x <=> orderLock[k] = x,
         \A k \in Keys : orderLock[k] = x => order'[k] = order[k]
  PROVE  WorkerOK(x)'
  <1>1. HeldBy(x)' = HeldBy(x)
    BY DEF HeldBy
  <1>2. \A v \in HeldBy(x) : v \in Variants
    BY ItemsAreVariants DEF HeldBy, WorkerOK
  <1>3. QED BY <1>1, <1>2 DEF WorkerOK

\* A transaction that ends frees its own rows and no other.
LEMMA UnlockFrees ==
  ASSUME LocalTypeOK, NEW w \in Workers, Unlock(w)
  PROVE  /\ variantLock' \in [Variants -> Workers \cup {Nobody}]
         /\ counterLock' \in Workers \cup {Nobody}
         /\ orderLock' \in [Keys -> Workers \cup {Nobody}]
         /\ \A v \in Variants : variantLock'[v] # w
         /\ counterLock' # w
         /\ \A k \in Keys : orderLock'[k] # w
         /\ \A x \in Workers \ {w} :
              /\ \A v \in Variants : variantLock'[v] = x <=> variantLock[v] = x
              /\ counterLock' = x <=> counterLock = x
              /\ \A k \in Keys : orderLock'[k] = x <=> orderLock[k] = x
  BY NobodyAssumption DEF LocalTypeOK, Unlock

\* The context of a worker whose transaction has ended.
LEMMA IdleOK ==
  ASSUME NEW w \in Workers, worker'[w] = WIdle,
         \A v \in Variants : variantLock'[v] # w, counterLock' # w,
         \A k \in Keys : orderLock'[k] # w
  PROVE  WorkerOK(w)'
  BY DEF WorkerOK, HeldBy, WIdle

LEMMA WIdleTyped == WIdle \in WorkerContext
  BY DEF WIdle, WorkerContext

\* A step that writes no data keeps the parts of the invariant about data.
LEMMA DataKept ==
  ASSUME LInv, UNCHANGED dataVars
  PROVE  (NumbersOK /\ ReferencesUnique /\ JournalExplainsStock)'
  BY DEF LInv, dataVars, NumbersOK, ReferencesUnique, JournalExplainsStock

-----------------------------------------------------------------------------
(* Steps that change one context and no row.                               *)
LEMMA ContextStep ==
  ASSUME LInv, NEW w \in Workers, NEW k \in Keys,
         UNCHANGED <<dataVars, lockVars>>,
         Submit(w, k) \/ Cancel(w, k) \/ Replay(w) \/ Begin(w) \/ Locked(w)
  PROVE  LInv'
  <1> USE DEF LInv
  <1>0. WorkerOK(w) /\ worker[w] \in WorkerContext /\ worker \in [Workers -> WorkerContext]
    BY DEF LocalTypeOK
  <1>1. worker' = [worker EXCEPT ![w] = worker'[w]] /\ worker'[w] \in WorkerContext
    <2>1. CASE Submit(w, k) \/ Cancel(w, k)
      <3>1. PICK at \in {"begin", "switch"} :
              worker' = [worker EXCEPT ![w] = [WIdle EXCEPT !.at = at, !.key = k]]
        BY <2>1 DEF Submit, Cancel
      <3>2. [WIdle EXCEPT !.at = at, !.key = k] \in WorkerContext
        BY DEF WIdle, WorkerContext
      <3>3. QED BY <1>0, <3>1, <3>2
    <2>2. CASE Replay(w)
      BY <1>0, <2>2, WIdleTyped DEF Replay
    <2>3. CASE Begin(w)
      <3>1. worker[w].key \in Keys
        BY <1>0, <2>3 DEF Begin, WorkerOK
      <3>2. QED BY <1>0, <2>3, <3>1, ItemsAreVariants DEF Begin, WorkerContext
    <2>4. CASE Locked(w)
      BY <1>0, <2>4 DEF Locked, GoesTo, WorkerContext
    <2>5. QED BY <2>1, <2>2, <2>3, <2>4
  <1>2. LocalTypeOK'
    BY <1>0, <1>1 DEF LocalTypeOK, dataVars, lockVars
  <1>3. WorkerOK(w)'
    <2>1. CASE Submit(w, k) \/ Cancel(w, k)
      <3>1. worker'[w].at \in {"begin", "switch"} /\ worker'[w].key = k /\ worker[w].at = "idle"
        BY <1>0, <2>1 DEF Submit, Cancel, WIdle
      <3>2. HeldBy(w) = {} /\ HeldBy(w)' = {}
        BY <3>1 DEF HeldBy
      <3>3. QED BY <1>0, <3>1, <3>2 DEF WorkerOK, dataVars, lockVars
    <2>2. CASE Replay(w)
      BY <1>0, <2>2 DEF Replay, WorkerOK, HeldBy, WIdle, dataVars, lockVars, WorkerContext
    <2>3. CASE Begin(w)
      <3>1. worker'[w].at = "lock" /\ worker'[w].wanted = Items(worker[w].key)
            /\ worker'[w].key = worker[w].key /\ worker[w].key \in Keys /\ worker[w].at = "begin"
        BY <1>0, <2>3 DEF Begin, WorkerOK, WorkerContext
      <3>2. HeldBy(w) = {} /\ HeldBy(w)' = {}
        BY <3>1 DEF HeldBy
      <3>3. QED BY <1>0, <3>1, <3>2, ItemsAreVariants DEF WorkerOK, dataVars, lockVars
    <2>4. CASE Locked(w)
      <3>1. worker'[w].at = "count" /\ worker'[w].wanted = {} /\ worker[w].wanted = {}
            /\ worker'[w].key = worker[w].key /\ worker'[w].seen = worker[w].seen
            /\ worker[w].at = "lock"
        BY <1>0, <2>4 DEF Locked, GoesTo, WorkerContext
      <3>2. HeldBy(w)' = HeldBy(w)
        BY <3>1 DEF HeldBy
      <3>3. QED BY <1>0, <3>1, <3>2 DEF WorkerOK, dataVars, lockVars
    <2>5. QED BY <2>1, <2>2, <2>3, <2>4
  <1>4. ASSUME NEW x \in Workers, x # w PROVE WorkerOK(x)'
    <2>1. worker'[x] = worker[x]
      BY <1>0, <1>1, <1>4
    <2>2. QED BY <2>1, OthersKeep DEF dataVars, lockVars
  <1>5. QED BY <1>2, <1>3, <1>4, DataKept

\* A transaction takes one more variant, the first of those it wants.
LEMMA TakeStep ==
  ASSUME LInv, NEW w \in Workers, LockVariant(w) \/ ReturnVariant(w)
  PROVE  LInv'
  <1> USE DEF LInv
  <1>0. WorkerOK(w) /\ worker \in [Workers -> WorkerContext] /\ worker[w] \in WorkerContext
        /\ worker[w].key \in Keys /\ variantLock \in [Variants -> Workers \cup {Nobody}]
    BY DEF LocalTypeOK, LockVariant, ReturnVariant, WorkerOK
  <1>1. PICK v \in worker[w].wanted :
          /\ v \in Variants
          /\ \A u \in worker[w].wanted \ {v} : v < u
          /\ variantLock[v] = Nobody
          /\ variantLock' = [variantLock EXCEPT ![v] = w]
          /\ worker'[w].at = worker[w].at /\ worker'[w].key = worker[w].key
          /\ worker'[w].wanted = worker[w].wanted \ {v}
          /\ worker'[w].number = worker[w].number
          /\ \/ worker'[w].seen = [worker[w].seen EXCEPT ![v] = stock[v]]
             \/ worker'[w].seen = worker[w].seen /\ worker[w].at = "return"
          /\ worker' = [worker EXCEPT ![w] = worker'[w]] /\ worker'[w] \in WorkerContext
          /\ worker[w].at \in {"lock", "return"}
          /\ UNCHANGED <<dataVars, counterLock, orderLock>>
    <2>1. worker[w].wanted # {} /\ worker[w].wanted \in SUBSET Variants
      BY <1>0 DEF LockVariant, ReturnVariant, WorkerContext
    <2>2. /\ Smallest(worker[w].wanted) \in worker[w].wanted
          /\ \A u \in worker[w].wanted \ {Smallest(worker[w].wanted)} : Smallest(worker[w].wanted) < u
      BY <2>1, SmallestIsFirst
    <2>3. stock \in [Variants -> Nat]
      BY DEF LocalTypeOK
    <2>4. CASE LockVariant(w)
      BY <1>0, <2>1, <2>2, <2>3, <2>4 DEF LockVariant, nextLocked, WorkerContext
    <2>5. CASE ReturnVariant(w)
      BY <1>0, <2>1, <2>2, <2>5 DEF ReturnVariant, nextReturned, WorkerContext
    <2>6. QED BY <2>4, <2>5
  <1>2. LocalTypeOK'
    BY <1>0, <1>1 DEF LocalTypeOK, dataVars
  <1>3. WorkerOK(w)'
    <2>1. HeldBy(w) = Items(worker[w].key) \ worker[w].wanted
          /\ HeldBy(w)' = Items(worker[w].key) \ (worker[w].wanted \ {v})
      BY <1>1 DEF HeldBy
    <2>2. HeldBy(w)' \subseteq HeldBy(w) \cup {v}
      BY <2>1
    <2>3. v \in Items(worker[w].key)
      <3>1. worker[w].wanted \subseteq Items(worker[w].key)
        BY <1>0, <1>1 DEF WorkerOK
      <3>2. QED BY <1>1, <3>1
    <2>4. \A u \in Variants : variantLock'[u] = w <=> u \in HeldBy(w)'
      BY <1>0, <1>1, <2>1, <2>3, NobodyAssumption DEF WorkerOK
    <2>5. worker'[w].at \in {"lock", "return"} =>
            \A z \in HeldBy(w)', u \in worker'[w].wanted : z < u
      <3>1. \A z \in HeldBy(w), u \in worker[w].wanted : z < u
        BY <1>0, <1>1 DEF WorkerOK
      <3>2. QED BY <1>1, <2>2, <3>1
    <2>6. ASSUME worker'[w].at = "lock", NEW z \in HeldBy(w)'
          PROVE  worker'[w].seen[z] = stock'[z]
      <3>1. worker'[w].seen = [worker[w].seen EXCEPT ![v] = stock[v]]
            /\ worker[w].seen \in [Variants -> Nat] /\ stock' = stock
        BY <1>0, <1>1, <2>6 DEF WorkerContext, dataVars
      <3>2. CASE z = v
        BY <1>1, <3>1, <3>2
      <3>3. CASE z # v
        <4>1. z \in HeldBy(w) /\ worker[w].at = "lock"
          BY <1>1, <2>2, <2>6, <3>3
        <4>2. worker[w].seen[z] = stock[z]
          BY <1>0, <4>1 DEF WorkerOK
        <4>3. QED BY <3>1, <3>3, <4>2
      <3>4. QED BY <3>2, <3>3
    <2>8. worker'[w].wanted \subseteq Items(worker'[w].key)
      BY <1>0, <1>1 DEF WorkerOK
    <2>7. QED BY <1>0, <1>1, <2>4, <2>5, <2>6, <2>8 DEF WorkerOK, dataVars
  <1>4. ASSUME NEW x \in Workers, x # w PROVE WorkerOK(x)'
    <2>1. worker'[x] = worker[x]
      BY <1>0, <1>1, <1>4
    <2>2. \A u \in Variants : variantLock'[u] = x <=> variantLock[u] = x
      BY <1>0, <1>1, <1>4, NobodyAssumption
    <2>3. QED BY <1>1, <2>1, <2>2, OthersKeep DEF dataVars
  <1>5. QED BY <1>1, <1>2, <1>3, <1>4, DataKept

\* The counter row is locked and the next number read.
LEMMA CountStep ==
  ASSUME LInv, NEW w \in Workers, CountLocked(w)
  PROVE  LInv'
  <1> USE DEF LInv
  <1>0. WorkerOK(w) /\ worker \in [Workers -> WorkerContext] /\ worker[w] \in WorkerContext
        /\ current \in Nat /\ worker[w].at = "count"
    BY DEF LocalTypeOK, CountLocked
  <1>1. /\ worker'[w].at = "write" /\ worker'[w].number = current + 1
        /\ worker'[w].key = worker[w].key /\ worker'[w].wanted = worker[w].wanted
        /\ worker'[w].seen = worker[w].seen
        /\ worker' = [worker EXCEPT ![w] = worker'[w]] /\ worker'[w] \in WorkerContext
        /\ counterLock = Nobody /\ counterLock' = w
        /\ UNCHANGED <<dataVars, variantLock, orderLock>>
    <2>1. /\ worker' = [worker EXCEPT ![w].at = "write", ![w].number = current + 1]
          /\ counterLock = Nobody /\ counterLock' = w
          /\ UNCHANGED <<dataVars, variantLock, orderLock>>
      BY DEF CountLocked
    <2>2. worker'[w] = [worker[w] EXCEPT !.at = "write", !.number = current + 1]
      BY <1>0, <2>1
    <2>3. worker' = [worker EXCEPT ![w] = worker'[w]]
      BY <1>0, <2>1
    <2>4. worker'[w] \in WorkerContext
      <3>1. current + 1 \in Nat
        BY <1>0
      <3>2. worker'[w] = [at |-> "write", key |-> worker[w].key, wanted |-> worker[w].wanted,
                          seen |-> worker[w].seen, number |-> current + 1]
        BY <1>0, <2>2 DEF WorkerContext
      <3>3. QED BY <1>0, <3>1, <3>2 DEF WorkerContext
    <2>5. /\ worker'[w].at = "write" /\ worker'[w].number = current + 1
          /\ worker'[w].key = worker[w].key /\ worker'[w].wanted = worker[w].wanted
          /\ worker'[w].seen = worker[w].seen
      BY <1>0, <2>2 DEF WorkerContext
    <2>6. QED BY <2>1, <2>3, <2>4, <2>5
  <1>2. LocalTypeOK'
    BY <1>0, <1>1 DEF LocalTypeOK, dataVars
  <1>3. WorkerOK(w)'
    <2>1. HeldBy(w)' = HeldBy(w)
      BY <1>0, <1>1 DEF HeldBy
    <2>2. QED BY <1>0, <1>1, <2>1 DEF WorkerOK, dataVars
  <1>4. ASSUME NEW x \in Workers, x # w PROVE WorkerOK(x)'
    <2>1. worker'[x] = worker[x] /\ (counterLock' = x <=> counterLock = x)
      BY <1>0, <1>1, <1>4, NobodyAssumption
    <2>2. QED BY <1>1, <2>1, OthersKeep DEF dataVars
  <1>5. QED BY <1>1, <1>2, <1>3, <1>4, DataKept

\* The cancellation holds the row of its order.
LEMMA SwitchStep ==
  ASSUME LInv, NEW w \in Workers, CancelSwitches(w)
  PROVE  LInv'
  <1> USE DEF LInv
  <1>0. WorkerOK(w) /\ worker \in [Workers -> WorkerContext] /\ worker[w] \in WorkerContext
        /\ worker[w].at = "switch" /\ worker[w].key \in Keys
    BY DEF LocalTypeOK, CancelSwitches, WorkerOK
  <1>1. /\ worker'[w].at = "return" /\ worker'[w].wanted = Items(worker[w].key)
        /\ worker'[w].key = worker[w].key
        /\ worker' = [worker EXCEPT ![w] = worker'[w]] /\ worker'[w] \in WorkerContext
        /\ order[worker[w].key] = "PENDING" /\ orderLock[worker[w].key] = Nobody
        /\ orderLock' = [orderLock EXCEPT ![worker[w].key] = w]
        /\ UNCHANGED <<dataVars, variantLock, counterLock>>
    BY <1>0, ItemsAreVariants DEF CancelSwitches, WorkerContext
  <1>2. LocalTypeOK'
    BY <1>0, <1>1 DEF LocalTypeOK, dataVars
  <1>3. WorkerOK(w)'
    <2>1. HeldBy(w)' = {} /\ HeldBy(w) = {}
      BY <1>0, <1>1 DEF HeldBy
    <2>2. \A k \in Keys : orderLock'[k] = w <=> worker'[w].key = k
      BY <1>0, <1>1 DEF WorkerOK, LocalTypeOK
    <2>3. QED BY <1>0, <1>1, <2>1, <2>2 DEF WorkerOK, dataVars
  <1>4. ASSUME NEW x \in Workers, x # w PROVE WorkerOK(x)'
    <2>1. worker'[x] = worker[x] /\ \A k \in Keys : orderLock'[k] = x <=> orderLock[k] = x
      BY <1>0, <1>1, <1>4, NobodyAssumption DEF LocalTypeOK
    <2>2. QED BY <1>1, <2>1, OthersKeep DEF dataVars
  <1>5. QED BY <1>1, <1>2, <1>3, <1>4, DataKept

\* A transaction that ends without writing.
LEMMA EndStep ==
  ASSUME LInv, NEW w \in Workers, Finishes(w), UNCHANGED dataVars
  PROVE  LInv'
  <1> USE DEF LInv
  <1>1. /\ variantLock' \in [Variants -> Workers \cup {Nobody}]
        /\ counterLock' \in Workers \cup {Nobody}
        /\ orderLock' \in [Keys -> Workers \cup {Nobody}]
        /\ \A v \in Variants : variantLock'[v] # w
        /\ counterLock' # w
        /\ \A k \in Keys : orderLock'[k] # w
        /\ \A x \in Workers \ {w} :
             /\ \A v \in Variants : variantLock'[v] = x <=> variantLock[v] = x
             /\ counterLock' = x <=> counterLock = x
             /\ \A k \in Keys : orderLock'[k] = x <=> orderLock[k] = x
    BY UnlockFrees DEF Finishes
  <1>2. worker' = [worker EXCEPT ![w] = WIdle] /\ worker \in [Workers -> WorkerContext]
    BY DEF Finishes, LocalTypeOK
  <1>3. LocalTypeOK'
    BY <1>1, <1>2, WIdleTyped DEF LocalTypeOK, dataVars
  <1>4. WorkerOK(w)'
    BY <1>1, <1>2, IdleOK
  <1>5. ASSUME NEW x \in Workers, x # w PROVE WorkerOK(x)'
    <2>1. worker'[x] = worker[x]
      BY <1>2, <1>5
    <2>2. QED BY <1>1, <1>5, <2>1, OthersKeep DEF dataVars
  <1>6. QED BY <1>3, <1>4, <1>5, DataKept

-----------------------------------------------------------------------------
(* Steps that write the stock.                                             *)

ChainOK(j, start, end) ==
  /\ \A i \in 1 .. Len(j) - 1 : j[i + 1].before = j[i].after
  /\ IF j = <<>> THEN end = start ELSE j[1].before = start /\ j[Len(j)].after = end

\* A movement that starts at the stock and ends at the new stock extends a journal.
LEMMA JournalGrows ==
  ASSUME NEW j \in Seq(Movement), NEW start \in Nat, NEW end \in Nat, NEW next \in Nat,
         ChainOK(j, start, end)
  PROVE  LET m == Append(j, [before |-> end, after |-> next])
         IN  m \in Seq(Movement) /\ ChainOK(m, start, next)
  <1> DEFINE e == [before |-> end, after |-> next]
             m == Append(j, e)
  <1>1. e \in Movement /\ e.before = end /\ e.after = next
    BY DEF Movement
  <1> HIDE DEF e
  <1>2. m \in Seq(Movement) /\ Len(m) = Len(j) + 1 /\ m[Len(j) + 1] = e /\ Len(j) \in Nat
        /\ \A i \in 1 .. Len(j) : m[i] = j[i]
    BY <1>1
  <1>3. j = <<>> <=> Len(j) = 0
    OBVIOUS
  <1>4. m # <<>>
    BY <1>2
  <1> HIDE DEF m
  <1>5. \A i \in 1 .. Len(m) - 1 : m[i + 1].before = m[i].after
    <2> SUFFICES ASSUME NEW i \in 1 .. Len(j) PROVE m[i + 1].before = m[i].after
      BY <1>2
    <2>1. CASE i = Len(j)
      BY <1>1, <1>2, <1>3, <2>1 DEF ChainOK
    <2>2. CASE i # Len(j)
      BY <1>2, <2>2 DEF ChainOK
    <2>3. QED BY <2>1, <2>2
  <1>6. m[1].before = start /\ m[Len(m)].after = next
    BY <1>1, <1>2, <1>3 DEF ChainOK
  <1>7. QED BY <1>2, <1>4, <1>5, <1>6 DEF ChainOK, m, e

LEMMA JournalIsChain ==
  JournalExplainsStock <=> \A v \in Variants : ChainOK(journal[v], InitialStock[v], stock[v])
  BY DEF JournalExplainsStock, ChainOK

\* Every transaction that writes appends, for each variant it moves, such a movement.
LEMMA MovesKeepJournal ==
  ASSUME LInv, stock' \in [Variants -> Nat],
         journal' = [v \in Variants |-> journal'[v]],
         \A v \in Variants :
           \/ stock'[v] = stock[v] /\ journal'[v] = journal[v]
           \/ journal'[v] = Append(journal[v], [before |-> stock[v], after |-> stock'[v]])
  PROVE  journal' \in [Variants -> Seq(Movement)] /\ JournalExplainsStock'
  <1>1. ASSUME NEW v \in Variants
        PROVE  journal'[v] \in Seq(Movement) /\ ChainOK(journal'[v], InitialStock[v], stock'[v])
    <2>1. journal[v] \in Seq(Movement) /\ stock[v] \in Nat /\ InitialStock[v] \in Nat /\ stock'[v] \in Nat
          /\ ChainOK(journal[v], InitialStock[v], stock[v])
      BY InitialStockAssumption, JournalIsChain DEF LInv, LocalTypeOK
    <2>2. QED BY <1>1, <2>1, JournalGrows
  <1>2. QED BY <1>1 DEF JournalExplainsStock, ChainOK

LEMMA CommitStep ==
  ASSUME LInv, NEW w \in Workers, CheckoutCommits(w)
  PROVE  LInv' /\ Shelf!Next
  <1> USE DEF LInv
  <1>a. WorkerOK(w) /\ worker[w].at = "write"
    BY DEF CheckoutCommits
  <1>b. PICK k \in Keys : k = worker[w].key
    BY <1>a DEF WorkerOK
  <1>0. /\ WorkerOK(w) /\ worker \in [Workers -> WorkerContext] /\ worker[w] \in WorkerContext
        /\ k \in Keys /\ worker[w].at = "write" /\ counterLock = w
        /\ current \in Nat /\ worker[w].number = current + 1
        /\ HeldBy(w) = Items(k)
        /\ order[k] = "none"
    BY <1>a, <1>b DEF LocalTypeOK, CheckoutCommits, WorkerOK, HeldBy
  <1>1. /\ stock \in [Variants -> Nat] /\ Cart[k] \in [Variants -> Nat]
        /\ \A v \in Variants : stock[v] >= Cart[k][v]
        /\ stock' = [v \in Variants |-> stock[v] - Cart[k][v]]
        /\ \A v \in Items(k) : worker[w].seen[v] = stock[v]
        /\ order' = [order EXCEPT ![k] = "PENDING"]
        /\ number' = [number EXCEPT ![k] = current + 1] /\ current' = current + 1
        /\ Finishes(w)
        /\ UNCHANGED <<adjusted, adjustments>>
    <2>1. \A v \in Variants : stock[v] >= Cart[k][v]
      <3>1. \A v \in Items(k) : stock[v] >= Cart[k][v]
        BY <1>b DEF CheckoutCommits, Covered
      <3>2. \A v \in Variants \ Items(k) : stock[v] \in Nat /\ Cart[k][v] = 0
        BY ItemsAreVariants DEF LocalTypeOK
      <3>3. QED BY <3>1, <3>2
    <2>2. \A v \in Items(k) : worker[w].seen[v] = stock[v]
      BY <1>0 DEF WorkerOK
    <2>3. /\ stock' = [v \in Variants |-> stock[v] - Cart[k][v]]
          /\ order' = [order EXCEPT ![k] = "PENDING"]
          /\ number' = [number EXCEPT ![k] = current + 1] /\ current' = current + 1
          /\ Finishes(w)
          /\ UNCHANGED <<adjusted, adjustments>>
      BY <1>0, <1>b DEF CheckoutCommits, reserveStockForOrder
    <2>4. QED BY <2>1, <2>2, <2>3, CartAssumption DEF LocalTypeOK
  <1>2. journal' = [v \in Variants |->
          IF v \in Items(k) THEN Append(journal[v], [before |-> stock[v], after |-> stock'[v]])
                            ELSE journal[v]]
    <2>1. journal' = [v \in Variants |->
            IF v \in Items(k)
            THEN Append(journal[v], [before |-> worker[w].seen[v],
                                     after |-> worker[w].seen[v] - Cart[k][v]])
            ELSE journal[v]]
      BY <1>b DEF CheckoutCommits, reserveStockForOrder, Moves
    <2>2. ASSUME NEW v \in Items(k)
          PROVE  worker[w].seen[v] = stock[v] /\ worker[w].seen[v] - Cart[k][v] = stock'[v]
      BY <1>0, <1>1, <2>2, ItemsAreVariants
    <2>3. QED BY <2>1, <2>2
  <1>3. /\ variantLock' \in [Variants -> Workers \cup {Nobody}]
        /\ counterLock' \in Workers \cup {Nobody}
        /\ orderLock' \in [Keys -> Workers \cup {Nobody}]
        /\ \A v \in Variants : variantLock'[v] # w
        /\ counterLock' # w
        /\ \A j \in Keys : orderLock'[j] # w
        /\ \A x \in Workers \ {w} :
             /\ \A v \in Variants : variantLock'[v] = x <=> variantLock[v] = x
             /\ counterLock' = x <=> counterLock = x
             /\ \A j \in Keys : orderLock'[j] = x <=> orderLock[j] = x
    BY <1>1, UnlockFrees DEF Finishes
  <1>4. worker' = [worker EXCEPT ![w] = WIdle]
    BY <1>1 DEF Finishes
  <1>5. stock' \in [Variants -> Nat]
    BY <1>1
  <1>6. \A v \in Variants \ Items(k) : stock'[v] = stock[v]
    BY <1>0, <1>1, ItemsAreVariants
  <1>7. journal' \in [Variants -> Seq(Movement)] /\ JournalExplainsStock'
    BY <1>2, <1>5, <1>6, MovesKeepJournal
  <1>8. LocalTypeOK'
    <2>1. order' \in [Keys -> {"none", "PENDING", "CANCELLED"}]
      BY <1>0, <1>1 DEF LocalTypeOK
    <2>2. number' \in [Keys -> Nat] /\ current' \in Nat
      BY <1>0, <1>1 DEF LocalTypeOK
    <2>3. worker' \in [Workers -> WorkerContext]
      BY <1>0, <1>4, WIdleTyped
    <2>4. adjusted' \in [Variants -> Int] /\ adjustments' \in Nat
      BY <1>1 DEF LocalTypeOK
    <2>5. QED BY <1>3, <1>5, <1>7, <2>1, <2>2, <2>3, <2>4 DEF LocalTypeOK
  <1>9. NumbersOK' /\ ReferencesUnique'
    <2>1. order \in [Keys -> {"none", "PENDING", "CANCELLED"}] /\ number \in [Keys -> Nat]
      BY DEF LocalTypeOK
    <2>2. number'[k] = current + 1 /\ \A j \in Keys \ {k} : number'[j] = number[j] /\ order'[j] = order[j]
      BY <1>1, <2>1
    <2>3. \A j \in Keys : /\ order[j] # "none" => 1 <= number[j]
                          /\ order[j] = "none" => number[j] = 0
                          /\ number[j] \in Nat /\ number[j] <= current
      BY <1>0, <2>1 DEF NumbersOK
    <2>4. order'[k] = "PENDING"
      BY <1>1, <2>1
    <2>5. ASSUME NEW j \in Keys
          PROVE  IF order'[j] = "none" THEN number'[j] = 0 ELSE number'[j] \in 1 .. current'
      <3>1. CASE j = k
        BY <1>0, <1>1, <2>2, <2>4, <3>1
      <3>2. CASE j # k
        BY <1>0, <1>1, <2>2, <2>3, <3>2
      <3>3. QED BY <3>1, <3>2
    <2>6. ReferencesUnique'
      <3> SUFFICES ASSUME NEW i \in Keys, NEW j \in Keys, order'[i] # "none",
                          number'[i] = number'[j]
                   PROVE  i = j
        BY DEF ReferencesUnique
      <3>1. CASE i = k \/ j = k
        BY <1>0, <2>2, <2>3, <3>1
      <3>2. CASE i # k /\ j # k
        <4>1. order[i] # "none" /\ number[i] = number[j]
          BY <2>2, <3>2
        <4>2. QED BY <4>1 DEF ReferencesUnique
      <3>3. QED BY <3>1, <3>2
    <2>7. QED BY <2>5, <2>6 DEF NumbersOK
  <1>10. WorkerOK(w)'
    BY <1>0, <1>3, <1>4, IdleOK
  <1>11. ASSUME NEW x \in Workers, x # w PROVE WorkerOK(x)'
    <2>1. worker'[x] = worker[x] /\ counterLock # x
      BY <1>0, <1>4, <1>11
    <2>2. ASSUME NEW v \in Variants, variantLock[v] = x PROVE stock'[v] = stock[v]
      BY <1>0, <1>6, <1>11, <2>2 DEF WorkerOK
    <2>3. ASSUME NEW j \in Keys, orderLock[j] = x PROVE order'[j] = order[j]
      <3>1. order[j] = "PENDING"
        BY <2>3 DEF WorkerOK
      <3>2. QED BY <1>0, <1>1, <3>1 DEF LocalTypeOK
    <2>4. QED BY <1>3, <1>11, <2>1, <2>2, <2>3, OthersKeep
  <1>12. Shelf!Sell(k)
    BY <1>0, <1>1 DEF Shelf!Sell
  <1>13. QED BY <1>0, <1>7, <1>8, <1>9, <1>10, <1>11, <1>12 DEF Shelf!Next

LEMMA ReturnStep ==
  ASSUME LInv, NEW w \in Workers, CancelCommits(w)
  PROVE  LInv' /\ Shelf!Next
  <1> USE DEF LInv
  <1> DEFINE k == worker[w].key
  <1>0. /\ WorkerOK(w) /\ worker \in [Workers -> WorkerContext] /\ worker[w] \in WorkerContext
        /\ k \in Keys /\ worker[w].at = "return" /\ orderLock[k] = w
        /\ HeldBy(w) = Items(k)
        /\ order[k] = "PENDING"
    BY DEF LocalTypeOK, CancelCommits, WorkerOK, HeldBy
  <1>1. /\ stock \in [Variants -> Nat] /\ Cart[k] \in [Variants -> Nat]
        /\ stock' = [v \in Variants |-> stock[v] + Cart[k][v]]
        /\ journal' = [v \in Variants |->
             IF v \in Items(k) THEN Append(journal[v], [before |-> stock[v], after |-> stock[v] + Cart[k][v]])
                               ELSE journal[v]]
        /\ order' = [order EXCEPT ![k] = "CANCELLED"]
        /\ Finishes(w)
        /\ UNCHANGED <<number, current, adjusted, adjustments>>
    BY <1>0, CartAssumption DEF CancelCommits, Moves, LocalTypeOK
  <1> HIDE DEF k
  <1>2. journal' = [v \in Variants |->
          IF v \in Items(k) THEN Append(journal[v], [before |-> stock[v], after |-> stock'[v]])
                            ELSE journal[v]]
    BY <1>1
  <1>3. /\ variantLock' \in [Variants -> Workers \cup {Nobody}]
        /\ counterLock' \in Workers \cup {Nobody}
        /\ orderLock' \in [Keys -> Workers \cup {Nobody}]
        /\ \A v \in Variants : variantLock'[v] # w
        /\ counterLock' # w
        /\ \A j \in Keys : orderLock'[j] # w
        /\ \A x \in Workers \ {w} :
             /\ \A v \in Variants : variantLock'[v] = x <=> variantLock[v] = x
             /\ counterLock' = x <=> counterLock = x
             /\ \A j \in Keys : orderLock'[j] = x <=> orderLock[j] = x
    BY <1>1, UnlockFrees DEF Finishes
  <1>4. worker' = [worker EXCEPT ![w] = WIdle]
    BY <1>1 DEF Finishes
  <1>5. stock' \in [Variants -> Nat]
    BY <1>1
  <1>6. \A v \in Variants \ Items(k) : stock'[v] = stock[v]
    BY <1>0, <1>1, ItemsAreVariants
  <1>7. journal' \in [Variants -> Seq(Movement)] /\ JournalExplainsStock'
    BY <1>2, <1>5, <1>6, MovesKeepJournal
  <1>8. LocalTypeOK'
    BY <1>0, <1>1, <1>3, <1>4, <1>5, <1>7, WIdleTyped DEF LocalTypeOK
  <1>9. NumbersOK' /\ ReferencesUnique'
    BY <1>0, <1>1 DEF NumbersOK, ReferencesUnique, LocalTypeOK
  <1>10. WorkerOK(w)'
    BY <1>0, <1>3, <1>4, IdleOK
  <1>11. ASSUME NEW x \in Workers, x # w PROVE WorkerOK(x)'
    <2>1. worker'[x] = worker[x]
      BY <1>0, <1>4, <1>11
    <2>2. ASSUME NEW v \in Variants, variantLock[v] = x PROVE stock'[v] = stock[v]
      BY <1>0, <1>6, <1>11, <2>2 DEF WorkerOK
    <2>3. ASSUME NEW j \in Keys, orderLock[j] = x PROVE order'[j] = order[j]
      BY <1>0, <1>1, <1>11, <2>3 DEF LocalTypeOK
    <2>4. QED BY <1>1, <1>3, <1>11, <2>1, <2>2, <2>3, OthersKeep
  <1>12. Shelf!Return(k)
    BY <1>0, <1>1 DEF Shelf!Return
  <1>13. QED BY <1>0, <1>7, <1>8, <1>9, <1>10, <1>11, <1>12 DEF Shelf!Next

LEMMA AdjustStep ==
  ASSUME LInv, NEW v \in Variants, NEW delta \in {-1, 1}, adjustStock(v, delta)
  PROVE  LInv' /\ Shelf!Next
  <1> USE DEF LInv
  <1>1. /\ stock \in [Variants -> Nat] /\ stock' = [stock EXCEPT ![v] = stock[v] + delta]
        /\ stock[v] + delta \in Nat /\ variantLock[v] = Nobody
        /\ journal' = [journal EXCEPT ![v] = Append(journal[v], [before |-> stock[v], after |-> stock[v] + delta])]
        /\ UNCHANGED <<order, number, current, lockVars, worker>>
    BY DEF adjustStock, Moves, LocalTypeOK
  <1>2. stock' \in [Variants -> Nat] /\ journal \in [Variants -> Seq(Movement)]
    BY <1>1 DEF LocalTypeOK
  <1>3. journal' = [u \in Variants |-> journal'[u]]
        /\ \A u \in Variants :
             \/ stock'[u] = stock[u] /\ journal'[u] = journal[u]
             \/ journal'[u] = Append(journal[u], [before |-> stock[u], after |-> stock'[u]])
    <2>1. journal' = [u \in Variants |-> journal'[u]]
      BY <1>1, <1>2
    <2>2. \A u \in Variants \ {v} : stock'[u] = stock[u] /\ journal'[u] = journal[u]
      BY <1>1, <1>2
    <2>3. journal'[v] = Append(journal[v], [before |-> stock[v], after |-> stock'[v]])
      BY <1>1, <1>2
    <2>4. QED BY <2>1, <2>2, <2>3
  <1>4. journal' \in [Variants -> Seq(Movement)] /\ JournalExplainsStock'
    BY <1>2, <1>3, MovesKeepJournal
  <1>5. adjusted' \in [Variants -> Int] /\ adjustments' \in Nat
    BY DEF adjustStock, LocalTypeOK
  <1>6. LocalTypeOK'
    BY <1>1, <1>2, <1>4, <1>5 DEF LocalTypeOK, lockVars
  <1>7. NumbersOK' /\ ReferencesUnique'
    BY <1>1 DEF NumbersOK, ReferencesUnique
  <1>8. ASSUME NEW x \in Workers PROVE WorkerOK(x)'
    <2>1. ASSUME NEW u \in Variants, variantLock[u] = x PROVE stock'[u] = stock[u]
      BY <1>1, <2>1, NobodyAssumption
    <2>2. QED BY <1>1, <2>1, OthersKeep DEF lockVars
  <1>9. Shelf!Count(v)
    <2>1. stock'[v] = stock[v] + delta
      BY <1>1
    <2>2. QED BY <1>1, <1>2, <2>1 DEF Shelf!Count
  <1>10. QED BY <1>4, <1>6, <1>7, <1>8, <1>9 DEF Shelf!Next

-----------------------------------------------------------------------------
\* Every step keeps the invariant and is a step of the shelf, or none.
LEMMA LocalStepOK == LInv /\ [LocalNext]_localVars => LInv' /\ [Shelf!Next]_(Shelf!shelfVars)
  <1> SUFFICES ASSUME LInv, [LocalNext]_localVars PROVE LInv' /\ [Shelf!Next]_(Shelf!shelfVars)
    OBVIOUS
  <1>0. ASSUME UNCHANGED dataVars PROVE UNCHANGED Shelf!shelfVars
    BY <1>0 DEF dataVars, Shelf!shelfVars
  <1>1. ASSUME NEW w \in Workers, NEW k \in Keys, Submit(w, k) \/ Cancel(w, k)
        PROVE  LInv' /\ UNCHANGED dataVars
    BY <1>1, ContextStep DEF Submit, Cancel
  <1>2. ASSUME NEW w \in Workers, Replay(w) \/ Begin(w) \/ Locked(w)
        PROVE  LInv' /\ UNCHANGED dataVars
    <2>1. worker[w].key \in Keys
      BY <1>2 DEF Replay, Begin, Locked, LInv, WorkerOK
    <2>2. QED BY <1>2, <2>1, ContextStep DEF Replay, Begin, Locked
  <1>3. ASSUME NEW w \in Workers,
               LockVariant(w) \/ ReturnVariant(w) \/ CountLocked(w) \/ CancelSwitches(w)
        PROVE  LInv' /\ UNCHANGED dataVars
    BY <1>3, TakeStep, CountStep, SwitchStep
    DEF LockVariant, ReturnVariant, CountLocked, CancelSwitches
  <1>4. ASSUME NEW w \in Workers,
               CheckoutTwin(w) \/ CheckoutRefused(w) \/ CancelLoses(w) \/ RolledBack(w)
        PROVE  LInv' /\ UNCHANGED dataVars
    BY <1>4, EndStep DEF CheckoutTwin, CheckoutRefused, CancelLoses, RolledBack
  <1>5. ASSUME NEW w \in Workers, CheckoutCommits(w) \/ CancelCommits(w)
        PROVE  LInv' /\ Shelf!Next
    BY <1>5, CommitStep, ReturnStep
  <1>6. ASSUME NEW v \in Variants, NEW delta \in {-1, 1}, adjustStock(v, delta)
        PROVE  LInv' /\ Shelf!Next
    BY <1>6, AdjustStep
  <1>7. CASE UNCHANGED localVars
    <2>1. UNCHANGED dataVars
      BY <1>7 DEF localVars, dataVars
    <2>2. LocalTypeOK' /\ \A w \in Workers : WorkerOK(w)'
      BY <1>7 DEF localVars, LInv, LocalTypeOK, WorkerOK, HeldBy
    <2>3. QED BY <1>0, <2>1, <2>2, DataKept DEF LInv
  <1>8. QED BY <1>0, <1>1, <1>2, <1>3, <1>4, <1>5, <1>6, <1>7 DEF LocalNext, Checkout, Cancelling

LEMMA LocalInvariance == LocalSpec => []LInv
  BY LocalInitOK, LocalStepOK, PTL DEF LocalSpec

(* The rows, their locks and the requests keep their types; in particular   *)
(* no stock is ever negative.                                              *)
THEOREM LocalTypeCorrectness == LocalSpec => []LocalTypeOK
  BY LocalInvariance, PTL DEF LInv

(* The journal explains the stock, whatever transactions interleave.       *)
THEOREM JournalIsExact == LocalSpec => []JournalExplainsStock
  BY LocalInvariance, PTL DEF LInv

(* No two orders share a reference.                                        *)
THEOREM NoSharedReference == LocalSpec => []ReferencesUnique
  BY LocalInvariance, PTL DEF LInv

(* The row-by-row transactions implement the atomic shelf.                 *)
THEOREM TransactionsImplementShelf == LocalSpec => ImplementsShelfContract
  <1>1. LocalInit => Shelf!Init
    BY InitialStockAssumption DEF LocalInit, Shelf!Init
  <1>2. QED BY <1>1, LocalInvariance, LocalStepOK, PTL
            DEF LocalSpec, ImplementsShelfContract, Shelf!Spec

-----------------------------------------------------------------------------
(* Absence of deadlock.  A holder that waits for a variant waits for a      *)
(* later one than any it holds, so in a set whose members all wait for one  *)
(* another the one that waits for the last variant could not be waiting.   *)

\* The variant a transaction is about to take, if it is about to take one.
Next1(w) == Smallest(worker[w].wanted)
TakesVariant(w) == worker[w].at \in {"lock", "return"} /\ worker[w].wanted # {}

\* The holder of the order or of the counter, and of a variant.
LEMMA HoldersAreAhead ==
  ASSUME LInv, NEW w \in Workers, NEW x \in Workers, WaitsFor(w, x),
         NEW y \in Workers, WaitsFor(x, y)
  PROVE  /\ TakesVariant(x) \/ worker[x].at = "count"
         /\ TakesVariant(w) /\ TakesVariant(x) => Next1(w) < Next1(x)
         /\ worker[w].at # "count"
  <1>1. WorkerOK(w) /\ WorkerOK(x) /\ worker[w] \in WorkerContext /\ worker[x] \in WorkerContext
    BY DEF LInv, LocalTypeOK
  <1>2. worker[w].at # "count"
    <2>1. ASSUME worker[w].at = "count" PROVE FALSE
      <3>1. worker[x].at = "write"
        BY <1>1, <2>1 DEF WaitsFor, WorkerOK
      <3>2. QED BY <3>1 DEF WaitsFor
    <2>2. QED BY <2>1
  <1>3. TakesVariant(x) \/ worker[x].at = "count"
    <2>1. worker[x].at # "switch"
      <3>1. CASE worker[w].at = "switch"
        BY <1>1, <3>1 DEF WaitsFor, WorkerOK
      <3>2. CASE worker[w].at \in {"lock", "return"}
        <4>1. PICK v \in worker[w].wanted : v \in Variants /\ variantLock[v] = x
          <5>1. worker[w].wanted # {} /\ worker[w].wanted \in SUBSET Variants
                /\ variantLock[Smallest(worker[w].wanted)] = x
            BY <1>1, <3>2 DEF WaitsFor, nextLocked, nextReturned, WorkerContext
          <5>2. QED BY <5>1, SmallestIsFirst
        <4>2. QED BY <1>1, <4>1 DEF WorkerOK, HeldBy
      <3>3. QED BY <1>1, <1>2, <3>1, <3>2 DEF WaitsFor
    <2>2. QED BY <2>1 DEF WaitsFor, TakesVariant
  <1>4. ASSUME TakesVariant(w), TakesVariant(x) PROVE Next1(w) < Next1(x)
    <2>1. /\ worker[w].wanted # {} /\ worker[w].wanted \in SUBSET Variants
          /\ worker[x].wanted # {} /\ worker[x].wanted \in SUBSET Variants
          /\ variantLock[Next1(w)] = x
      BY <1>1, <1>4 DEF WaitsFor, nextLocked, nextReturned, WorkerContext, TakesVariant, Next1
    <2>2. Next1(w) \in Variants /\ Next1(x) \in worker[x].wanted
      BY <2>1, SmallestIsFirst DEF Next1
    <2>3. Next1(w) \in HeldBy(x)
      BY <1>1, <2>1, <2>2 DEF WorkerOK
    <2>4. QED BY <1>1, <1>4, <2>2, <2>3 DEF WorkerOK, TakesVariant
  <1>5. QED BY <1>2, <1>3, <1>4

(* PostgreSQL never has a deadlock to break among a finite number of        *)
(* requests.                                                               *)
THEOREM NoDeadlock ==
  ASSUME IsFiniteSet(Workers)
  PROVE  LocalSpec => []NoWaitCycle
  <1>1. ASSUME LInv, NEW S \in SUBSET Workers, S # {},
               \A w \in S : \E x \in S : WaitsFor(w, x)
        PROVE  FALSE
    <2> DEFINE Takers == {w \in S : TakesVariant(w)}
               T == {Next1(w) : w \in Takers}
    <2>1. \A w \in S : w \in Workers
      OBVIOUS
    <2>2. \A w \in S : worker[w].at # "count"
      <3> TAKE w \in S
      <3>1. PICK x \in S : WaitsFor(w, x)
        BY <1>1
      <3>2. PICK y \in S : WaitsFor(x, y)
        BY <1>1
      <3>3. QED BY <1>1, <2>1, <3>1, <3>2, HoldersAreAhead
    <2>3. ASSUME NEW w \in S, NEW x \in S, WaitsFor(w, x)
          PROVE  x \in Takers /\ (w \in Takers => Next1(w) < Next1(x))
      <3>1. PICK y \in S : WaitsFor(x, y)
        BY <1>1
      <3>2. QED BY <1>1, <2>1, <2>2, <2>3, <3>1, HoldersAreAhead
    <2>4. Takers # {}
      <3>0. S # {}
        BY <1>1
      <3>1. PICK w \in S : TRUE
        BY <3>0
      <3>2. PICK x \in S : WaitsFor(w, x)
        BY <1>1
      <3>3. QED BY <2>3, <3>2
    <2>5. IsFiniteSet(Takers)
      BY FS_Subset
    <2>6. T \in SUBSET Nat
      <3>1. ASSUME NEW w \in Takers PROVE Next1(w) \in Nat
        <4>1. w \in Workers /\ TakesVariant(w)
          BY <2>1
        <4>2. worker[w] \in WorkerContext
          BY <1>1, <4>1 DEF LInv, LocalTypeOK
        <4>3. worker[w].wanted \in SUBSET Variants /\ worker[w].wanted # {}
          BY <4>1, <4>2 DEF WorkerContext, TakesVariant
        <4>4. Smallest(worker[w].wanted) \in worker[w].wanted
          BY <4>3, SmallestIsFirst
        <4>5. QED BY <4>3, <4>4, VariantsAssumption DEF Next1
      <3>2. QED BY <3>1
    <2>7. IsFiniteSet(T)
      <3> DEFINE f == [w \in Takers |-> Next1(w)]
      <3>1. f \in Surjection(Takers, T)
        BY DEF Surjection
      <3> HIDE DEF Takers, T, f
      <3>2. QED BY <2>5, <3>1, FS_Surjection
    <2>8. T # {}
      BY <2>4
    <2>9. PICK n \in T : \A m \in T : m <= n
      <3> HIDE DEF T
      <3>1. QED BY <2>6, <2>7, <2>8, HasLast
    <2>10. PICK w \in Takers : n = Next1(w)
      BY <2>9
    <2>11. PICK x \in S : WaitsFor(w, x)
      BY <1>1, <2>10
    <2>12. x \in Takers /\ Next1(w) < Next1(x)
      BY <2>3, <2>10, <2>11
    <2>13. Next1(x) \in T /\ Next1(x) <= n
      BY <2>9, <2>12
    <2>14. QED BY <2>6, <2>10, <2>12, <2>13
  <1>2. ASSUME LInv, NEW S \in (SUBSET Workers) \ {{}}
        PROVE  \E w \in S : \A x \in S : ~ WaitsFor(w, x)
    <2>1. S \in SUBSET Workers /\ S # {}
      OBVIOUS
    <2>2. ~ \A w \in S : \E x \in S : WaitsFor(w, x)
      BY <1>1, <1>2, <2>1
    <2>3. QED BY <2>2
  <1>4. LInv => NoWaitCycle
    BY <1>2 DEF NoWaitCycle
  <1>5. QED BY <1>4, LocalInvariance, PTL

-----------------------------------------------------------------------------
(* Conservation of the goods.  Total adds over a finite set of keys, and the  *)
(* orders that hold goods are finitely many: none at first, and each step    *)
(* makes or cancels one.                                                    *)

Pending == {k \in Keys : order[k] = "PENDING"}

GoodsInv == IsFiniteSet(Pending) /\ GoodsConserved

\* What each key asks of a variant.
Asked(v) == [k \in Keys |-> Cart[k][v]]

\* f is the recursive function of Total.
TotalAdds(f, S, v) ==
  f = [T \in SUBSET S |->
         IF T = {} THEN 0
         ELSE LET k == CHOOSE x \in T : TRUE IN Cart[k][v] + f[T \ {k}]]

LEMMA TotalIsSum ==
  ASSUME NEW S \in SUBSET Keys, IsFiniteSet(S), NEW v
  PROVE  Total(S, v) = Sum(Asked(v), S)
  <1> DEFINE w == Asked(v)
  <1>1. ASSUME NEW f PROVE Adds(f, w, S) <=> TotalAdds(f, S, v)
    <2>1. ASSUME NEW T \in SUBSET S, T # {} PROVE w[Picked(T)] = Cart[Picked(T)][v]
      BY <2>1, PickedIsMember DEF Asked
    <2>2. [T \in SUBSET S |-> IF T = {} THEN 0 ELSE w[Picked(T)] + f[T \ {Picked(T)}]]
            = [T \in SUBSET S |-> IF T = {} THEN 0 ELSE Cart[Picked(T)][v] + f[T \ {Picked(T)}]]
      BY <2>1
    <2>3. TotalAdds(f, S, v) <=>
            f = [T \in SUBSET S |-> IF T = {} THEN 0 ELSE Cart[Picked(T)][v] + f[T \ {Picked(T)}]]
      BY DEF TotalAdds, Picked
    <2> HIDE DEF w
    <2>4. QED BY <2>2, <2>3 DEF Adds
  <1>2. \E f : TotalAdds(f, S, v)
    BY <1>1, AddsExists
  <1> DEFINE f == CHOOSE f : TotalAdds(f, S, v)
  <1>3. TotalAdds(f, S, v)
    BY <1>2
  <1>4. Total(S, v) = f[S]
    BY DEF Total, TotalAdds
  <1> HIDE DEF f
  <1>5. Adds(f, w, S) /\ SameWeights(w, w, S)
    BY <1>1, <1>3 DEF SameWeights
  <1>6. f[S] = Sum(w, S)
    <2> HIDE DEF w
    <2>1. QED BY <1>5, SumIs
  <1>7. QED BY <1>4, <1>6

LEMMA AskedIsNatural ==
  ASSUME NEW v \in Variants
  PROVE  \A k \in Keys : Asked(v)[k] = Cart[k][v] /\ Cart[k][v] \in Nat
  BY CartAssumption DEF Asked

\* One order more or less that holds its goods.
LEMMA TotalTakes ==
  ASSUME NEW S \in SUBSET Keys, IsFiniteSet(S), NEW k \in S, NEW v \in Variants
  PROVE  /\ IsFiniteSet(S \ {k})
         /\ Total(S, v) = Cart[k][v] + Total(S \ {k}, v)
         /\ Total(S, v) \in Int /\ Total(S \ {k}, v) \in Int
  <1>1. IsFiniteSet(S \ {k}) /\ S \ {k} \in SUBSET Keys
    BY FS_Subset
  <1>2. Total(S, v) = Sum(Asked(v), S) /\ Total(S \ {k}, v) = Sum(Asked(v), S \ {k})
    BY <1>1, TotalIsSum
  <1>3. \A x \in S : Asked(v)[x] \in Int
    BY AskedIsNatural
  <1>4. Sum(Asked(v), S) = Asked(v)[k] + Sum(Asked(v), S \ {k})
    BY <1>3, SumTakes
  <1>5. Sum(Asked(v), S) \in Int /\ Sum(Asked(v), S \ {k}) \in Int
    BY <1>1, <1>3, SumIsInteger
  <1>6. QED BY <1>1, <1>2, <1>4, <1>5, AskedIsNatural

LEMMA GoodsInit == LocalInit => GoodsInv
  <1> SUFFICES ASSUME LocalInit PROVE GoodsInv
    OBVIOUS
  <1>1. Pending = {}
    BY DEF LocalInit, Pending
  <1>2. IsFiniteSet({})
    BY FS_EmptySet
  <1>3. \A v \in Variants : Total({}, v) = 0
    BY <1>2, TotalIsSum, SumOfNone
  <1>4. GoodsConserved
    BY <1>1, <1>3, InitialStockAssumption DEF GoodsConserved, Pending, LocalInit
  <1>5. QED BY <1>1, <1>2, <1>4 DEF GoodsInv

\* A step that sells or returns nothing.
LEMMA GoodsKept ==
  ASSUME GoodsInv, order' = order,
         \A v \in Variants : stock'[v] - adjusted'[v] = stock[v] - adjusted[v],
         LocalTypeOK, LocalTypeOK'
  PROVE  GoodsInv'
  <1>1. Pending' = Pending
    BY DEF Pending
  <1>2. ASSUME NEW v \in Variants
        PROVE  stock'[v] + Total(Pending, v) = InitialStock[v] + adjusted'[v]
    <2>1. stock[v] + Total(Pending, v) = InitialStock[v] + adjusted[v]
      BY DEF GoodsInv, GoodsConserved, Pending
    <2>2. Total(Pending, v) = Sum(Asked(v), Pending)
      BY TotalIsSum DEF GoodsInv, Pending
    <2>3. Total(Pending, v) \in Int
      <3>1. \A x \in Pending : Asked(v)[x] \in Int
        BY AskedIsNatural DEF Pending
      <3>2. QED BY <2>2, <3>1, SumIsInteger DEF GoodsInv
    <2>4. /\ stock[v] \in Int /\ adjusted[v] \in Int /\ stock'[v] \in Int /\ adjusted'[v] \in Int
          /\ InitialStock[v] \in Int
      BY InitialStockAssumption DEF LocalTypeOK
    <2>5. QED BY <2>1, <2>3, <2>4
  <1>3. GoodsConserved'
    BY <1>1, <1>2 DEF GoodsConserved, Pending
  <1>4. QED BY <1>1, <1>3 DEF GoodsInv

\* A checkout that commits sells the cart of its key.
LEMMA GoodsSold ==
  ASSUME GoodsInv, LInv, LInv', NEW w \in Workers, CheckoutCommits(w)
  PROVE  GoodsInv'
  <1>1. PICK k \in Keys : k = worker[w].key
    BY DEF CheckoutCommits, LInv, WorkerOK
  <1>2. /\ order[k] = "none" /\ order' = [order EXCEPT ![k] = "PENDING"]
        /\ order \in [Keys -> {"none", "PENDING", "CANCELLED"}]
        /\ stock' = [v \in Variants |-> stock[v] - Cart[k][v]] /\ adjusted' = adjusted
    BY <1>1 DEF CheckoutCommits, reserveStockForOrder, LInv, LocalTypeOK
  <1>3. Pending' = Pending \cup {k} /\ k \notin Pending
    BY <1>2 DEF Pending
  <1>4. IsFiniteSet(Pending')
    BY <1>3, FS_AddElement DEF GoodsInv
  <1>5. Pending' \ {k} = Pending /\ Pending' \in SUBSET Keys /\ k \in Pending'
    BY <1>3 DEF Pending
  <1>6. ASSUME NEW v \in Variants
        PROVE  stock'[v] + Total(Pending', v) = InitialStock[v] + adjusted'[v]
    <2>1. stock[v] + Total(Pending, v) = InitialStock[v] + adjusted[v]
      BY DEF GoodsInv, GoodsConserved, Pending
    <2>2. /\ Total(Pending', v) = Cart[k][v] + Total(Pending, v)
          /\ Total(Pending, v) \in Int
      BY <1>4, <1>5, TotalTakes
    <2>3. stock[v] \in Int /\ adjusted[v] \in Int /\ InitialStock[v] \in Int /\ Cart[k][v] \in Int
      BY InitialStockAssumption, CartAssumption DEF LInv, LocalTypeOK
    <2>4. QED BY <1>2, <2>1, <2>2, <2>3
  <1>7. GoodsConserved'
    BY <1>6 DEF GoodsConserved, Pending
  <1>8. QED BY <1>4, <1>7 DEF GoodsInv

\* A cancellation that commits returns it.
LEMMA GoodsReturned ==
  ASSUME GoodsInv, LInv, LInv', NEW w \in Workers, CancelCommits(w)
  PROVE  GoodsInv'
  <1>1. PICK k \in Keys : k = worker[w].key
    BY DEF CancelCommits, LInv, WorkerOK
  <1>2. /\ order[k] = "PENDING" /\ order' = [order EXCEPT ![k] = "CANCELLED"]
        /\ order \in [Keys -> {"none", "PENDING", "CANCELLED"}]
        /\ stock' = [v \in Variants |-> stock[v] + Cart[k][v]] /\ adjusted' = adjusted
    BY <1>1 DEF CancelCommits, LInv, LocalTypeOK, WorkerOK
  <1>3. Pending' = Pending \ {k} /\ k \in Pending /\ Pending \in SUBSET Keys
    BY <1>2 DEF Pending
  <1>4. IsFiniteSet(Pending')
    BY <1>3, FS_Subset DEF GoodsInv
  <1>5. ASSUME NEW v \in Variants
        PROVE  stock'[v] + Total(Pending', v) = InitialStock[v] + adjusted'[v]
    <2>1. stock[v] + Total(Pending, v) = InitialStock[v] + adjusted[v]
      BY DEF GoodsInv, GoodsConserved, Pending
    <2>2. /\ Total(Pending, v) = Cart[k][v] + Total(Pending', v)
          /\ Total(Pending', v) \in Int
      BY <1>3, TotalTakes DEF GoodsInv
    <2>3. stock[v] \in Int /\ adjusted[v] \in Int /\ InitialStock[v] \in Int /\ Cart[k][v] \in Int
      BY InitialStockAssumption, CartAssumption DEF LInv, LocalTypeOK
    <2>4. QED BY <1>2, <2>1, <2>2, <2>3
  <1>6. GoodsConserved'
    BY <1>5 DEF GoodsConserved, Pending
  <1>7. QED BY <1>4, <1>6 DEF GoodsInv

LEMMA GoodsStep == LInv /\ GoodsInv /\ [LocalNext]_localVars => GoodsInv'
  <1> SUFFICES ASSUME LInv, GoodsInv, [LocalNext]_localVars PROVE GoodsInv'
    OBVIOUS
  <1>0. LInv' /\ LocalTypeOK /\ LocalTypeOK'
    BY LocalStepOK DEF LInv
  <1>1. ASSUME UNCHANGED dataVars PROVE GoodsInv'
    BY <1>0, <1>1, GoodsKept DEF dataVars
  <1>2. ASSUME NEW w \in Workers, NEW k \in Keys, Submit(w, k) \/ Cancel(w, k)
        PROVE  GoodsInv'
    BY <1>1, <1>2 DEF Submit, Cancel
  <1>3. ASSUME NEW w \in Workers, Checkout(w) PROVE GoodsInv'
    BY <1>0, <1>1, <1>3, GoodsSold
    DEF Checkout, Replay, Begin, LockVariant, Locked, CountLocked, CheckoutTwin, CheckoutRefused
  <1>4. ASSUME NEW w \in Workers, Cancelling(w) PROVE GoodsInv'
    BY <1>0, <1>1, <1>4, GoodsReturned
    DEF Cancelling, CancelSwitches, CancelLoses, ReturnVariant
  <1>5. ASSUME NEW w \in Workers, RolledBack(w) PROVE GoodsInv'
    BY <1>1, <1>5 DEF RolledBack
  <1>6. ASSUME NEW v \in Variants, NEW delta \in {-1, 1}, adjustStock(v, delta) PROVE GoodsInv'
    <2>1. /\ stock' = [stock EXCEPT ![v] = stock[v] + delta] /\ order' = order
          /\ adjusted' = [adjusted EXCEPT ![v] = adjusted[v] + delta]
      BY <1>6 DEF adjustStock
    <2>2. stock \in [Variants -> Nat] /\ adjusted \in [Variants -> Int]
      BY <1>0 DEF LocalTypeOK
    <2>3. \A u \in Variants : stock'[u] - adjusted'[u] = stock[u] - adjusted[u]
      BY <2>1, <2>2
    <2>4. QED BY <1>0, <2>1, <2>3, GoodsKept
  <1>7. CASE UNCHANGED localVars
    BY <1>1, <1>7 DEF localVars, dataVars
  <1>8. QED BY <1>2, <1>3, <1>4, <1>5, <1>6, <1>7 DEF LocalNext

(* Nothing is lost and nothing appears, whatever transactions interleave,    *)
(* are refused or are rolled back.                                          *)
THEOREM GoodsAreConserved == LocalSpec => []GoodsConserved
  <1>1. GoodsInv => GoodsConserved
    BY DEF GoodsInv
  <1>2. QED BY <1>1, GoodsInit, GoodsStep, LocalInvariance, PTL DEF LocalSpec
-----------------------------------------------------------------------------
(* The figures of the management.  A rounded quotient is the nearest integer *)
(* and a sum lies between its number of members times the least and the      *)
(* greatest: hence the average basket, and what the correction of the shares *)
(* can do to the largest of them.                                           *)

LEMMA QuotientIs ==
  ASSUME NEW a \in Int, NEW b \in Nat \ {0}
  PROVE  (a \div b) \in Int /\ b * (a \div b) <= a /\ a < b * (a \div b) + b
  OBVIOUS

LEMMA RoundedIs ==
  ASSUME NEW n \in Int, NEW d \in Nat \ {0}
  PROVE  /\ Rounded(n, d) \in Int
         /\ 2 * d * Rounded(n, d) <= 2 * n + d
         /\ 2 * n + d < 2 * d * Rounded(n, d) + 2 * d
  <1> DEFINE b == 2 * d
             a == 2 * n + d
             q == Rounded(n, d)
  <1>1. b \in Nat \ {0} /\ a \in Int
    OBVIOUS
  <1>2. q = a \div b
    BY DEF Rounded
  <1> HIDE DEF a, b, q
  <1>3. q \in Int /\ b * q <= a /\ a < b * q + b
    BY <1>1, <1>2, QuotientIs
  <1>4. QED BY <1>3 DEF a, b, q

\* The rounded quotient of a number between m and k times the divisor.
Between(n, d, m, k) == d * m <= n /\ n <= d * k

LEMMA RoundedBetween ==
  ASSUME NEW n \in Int, NEW d \in Nat \ {0}, NEW m \in Int, NEW k \in Int,
         Between(n, d, m, k)
  PROVE  Rounded(n, d) \in m .. k
  <1> DEFINE q == Rounded(n, d)
  <1>1. q \in Int /\ 2 * d * q <= 2 * n + d /\ 2 * n + d < 2 * d * q + 2 * d
    BY RoundedIs
  <1> HIDE DEF q
  <1>2. 2 * (d * q) <= 2 * (d * k) + d /\ 2 * (d * m) + d < 2 * (d * q) + 2 * d
    BY <1>1 DEF Between
  <1>3. q <= k
    <2>1. SUFFICES ASSUME q >= k + 1 PROVE FALSE
      BY <1>1
    <2>2. d * q >= d * (k + 1)
      BY <1>1, <2>1
    <2>3. d * (k + 1) = d * k + d
      OBVIOUS
    <2>4. d * q \in Int /\ d * k \in Int
      BY <1>1
    <2>5. QED BY <1>2, <2>2, <2>3, <2>4
  <1>4. m <= q
    <2>1. SUFFICES ASSUME q <= m - 1 PROVE FALSE
      BY <1>1
    <2>2. d * q <= d * (m - 1)
      BY <1>1, <2>1
    <2>3. d * (m - 1) = d * m - d
      OBVIOUS
    <2>4. d * q \in Int /\ d * m \in Int
      BY <1>1
    <2>5. QED BY <1>2, <2>2, <2>3, <2>4
  <1>5. QED BY <1>1, <1>3, <1>4 DEF q

\* A rounded percentage.
LEMMA RoundedPercent ==
  ASSUME NEW n \in Int, NEW d \in Nat \ {0}, 0 <= n, n <= 100 * d
  PROVE  Rounded(n, d) \in 0 .. 100
  <1>1. \A m \in Int, k \in Int : Between(n, d, m, k) => Rounded(n, d) \in m .. k
    BY RoundedBetween
  <1>2. PICK m \in Int, k \in Int : m = 0 /\ k = 100
    OBVIOUS
  <1>3. Between(n, d, m, k)
    BY <1>2 DEF Between
  <1>4. QED BY <1>1, <1>2, <1>3

\* Members that are no less, or no more, than a number.
LEMMA SumAtLeast ==
  ASSUME NEW w, NEW S, IsFiniteSet(S), NEW m \in Int,
         \A x \in S : w[x] \in Int /\ m <= w[x]
  PROVE  Cardinality(S) * m <= Sum(w, S)
  <1>1. PICK z : z = [x \in S |-> m]
    OBVIOUS
  <1>2. \A x \in S : w[x] \in Int /\ z[x] = 0 * w[x] + m /\ z[x] \in Int /\ z[x] <= w[x]
    BY <1>1
  <1>3. Cardinality(S) \in Nat /\ Sum(w, S) \in Int /\ 0 \in Int
    BY FS_CardinalityType, SumIsInteger
  <1>4. Sum(z, S) = 0 * Sum(w, S) + m * Cardinality(S)
    <2>1. Affine(z, w, S, 0, m)
      BY <1>2 DEF Affine
    <2>2. QED BY <1>3, <2>1, SumAffine
  <1>5. Sum(z, S) <= Sum(w, S)
    BY <1>2, SumCompares
  <1>6. QED BY <1>3, <1>4, <1>5

LEMMA SumAtMost ==
  ASSUME NEW w, NEW S, IsFiniteSet(S), NEW k \in Int,
         \A x \in S : w[x] \in Int /\ w[x] <= k
  PROVE  Sum(w, S) <= Cardinality(S) * k
  <1>1. PICK z : z = [x \in S |-> k]
    OBVIOUS
  <1>2. \A x \in S : w[x] \in Int /\ z[x] = 0 * w[x] + k /\ z[x] \in Int /\ w[x] <= z[x]
    BY <1>1
  <1>3. Cardinality(S) \in Nat /\ Sum(w, S) \in Int /\ 0 \in Int
    BY FS_CardinalityType, SumIsInteger
  <1>4. Sum(z, S) = 0 * Sum(w, S) + k * Cardinality(S)
    <2>1. Affine(z, w, S, 0, k)
      BY <1>2 DEF Affine
    <2>2. QED BY <1>3, <2>1, SumAffine
  <1>5. Sum(w, S) <= Sum(z, S)
    BY <1>2, SumCompares
  <1>6. QED BY <1>3, <1>4, <1>5

\* A sum of naturals is a natural that no member exceeds.
LEMMA SumOfNaturals ==
  ASSUME NEW w, NEW S, IsFiniteSet(S), \A x \in S : w[x] \in Nat
  PROVE  Sum(w, S) \in Nat /\ \A x \in S : w[x] <= Sum(w, S)
  <1>1. ASSUME NEW R \in SUBSET S PROVE Sum(w, R) \in Nat
    <2>1. IsFiniteSet(R) /\ \A x \in R : w[x] \in Int /\ 0 <= w[x]
      BY FS_Subset
    <2>2. Cardinality(R) * 0 <= Sum(w, R) /\ Sum(w, R) \in Int
      BY <2>1, SumAtLeast, SumIsInteger
    <2>3. Cardinality(R) \in Nat
      BY <2>1, FS_CardinalityType
    <2>4. QED BY <2>2, <2>3
  <1>2. ASSUME NEW k \in S PROVE w[k] <= Sum(w, S)
    <2>1. \A x \in S : w[x] \in Int
      OBVIOUS
    <2>2. Sum(w, S) = w[k] + Sum(w, S \ {k})
      BY <2>1, SumTakes
    <2>3. Sum(w, S \ {k}) \in Nat /\ w[k] \in Nat
      BY <1>1
    <2>4. QED BY <2>2, <2>3
  <1>3. QED BY <1>1, <1>2

-----------------------------------------------------------------------------
(* The shares of the categories.                                            *)

Hundred(shares) ==
  DOMAIN shares # {} => MapThenSumSet(LAMBDA r : shares[r], DOMAIN shares) = 100

Percentages(shares) == \A r \in DOMAIN shares : shares[r] \in 0 .. 100

\* What reduce adds up is a sum.
LEMMA TotalsAreSums ==
  ASSUME NEW w, NEW S
  PROVE  MapThenSumSet(LAMBDA r : w[r], S) = Sum(w, S)
  BY DEF MapThenSumSet, MapThenFoldSet, Sum, Adds, Picked

\* What every share is, and what the largest becomes.
LEMMA SharesAre ==
  ASSUME NEW revenue
  PROVE  LET D == DOMAIN revenue
             T == Sum(revenue, D)
             rounded == [r \in D |-> Rounded(100 * revenue[r], T)]
             b == CHOOSE r \in D : \A q \in D : revenue[q] <= revenue[r]
         IN  distributionShares(revenue) =
               IF T = 0 THEN [r \in D |-> 0]
               ELSE [rounded EXCEPT ![b] = @ + (100 - Sum(rounded, D))]
  BY DEF distributionShares, MapThenSumSet, MapThenFoldSet, Sum, Adds, Picked

\* The corrected largest share: a hundred less the others.
LEMMA LargestShare ==
  ASSUME NEW revenue, NEW D, IsFiniteSet(D), NEW b \in D, NEW T,
         \A r \in D : revenue[r] \in Nat \ {0},
         \A r \in D : revenue[r] <= revenue[b],
         T = Sum(revenue, D),
         Cardinality(D) <= 15,
         NEW rounded, \A r \in D : rounded[r] = Rounded(100 * revenue[r], T)
  PROVE  Sum(rounded, D \ {b}) \in 0 .. 100
  <1> DEFINE E == D \ {b}
             n == Cardinality(D)
  <1>1. IsFiniteSet(E) /\ Cardinality(E) = n - 1 /\ n \in Nat
    BY FS_RemoveElement, FS_CardinalityType
  <1>2. T \in Nat /\ T >= revenue[b] /\ revenue[b] \in Nat \ {0}
    BY SumOfNaturals
  <1>3. T <= n * revenue[b]
    <2>1. \A r \in D : revenue[r] \in Int /\ revenue[r] <= revenue[b] /\ revenue[b] \in Int
      BY <1>2
    <2>2. QED BY <2>1, SumAtMost
  <1>4. T = revenue[b] + Sum(revenue, E) /\ Sum(revenue, E) \in Int
    <2>1. \A r \in D : revenue[r] \in Int
      OBVIOUS
    <2>2. QED BY <1>1, <2>1, SumTakes, SumIsInteger
  <1>5. \A r \in E : /\ rounded[r] \in Nat
                     /\ 2 * T * rounded[r] <= 200 * revenue[r] + T
    <2>1. SUFFICES ASSUME NEW r \in E
          PROVE rounded[r] \in Nat /\ 2 * T * rounded[r] <= 200 * revenue[r] + T
      OBVIOUS
    <2>2. revenue[r] \in Nat /\ revenue[r] <= T /\ T \in Nat \ {0}
      BY <1>2, SumOfNaturals
    <2>3. rounded[r] = Rounded(100 * revenue[r], T) /\ 100 * revenue[r] \in Int
      BY <2>2
    <2>4. Rounded(100 * revenue[r], T) \in 0 .. 100
      <3>1. PICK x \in Int : x = 100 * revenue[r]
        BY <2>3
      <3>2. 0 <= x /\ x <= 100 * T
        BY <2>2, <3>1
      <3>3. Rounded(x, T) \in 0 .. 100
        BY <2>2, <3>2, RoundedPercent
      <3>4. QED BY <3>1, <3>3
    <2>5. 2 * T * Rounded(100 * revenue[r], T) <= 2 * (100 * revenue[r]) + T
      BY <2>2, <2>3, RoundedIs
    <2>6. QED BY <2>2, <2>3, <2>4, <2>5
  <1> HIDE DEF E, n
  <1>6. Sum(rounded, E) \in Nat
    BY <1>1, <1>5, SumOfNaturals
  <1>7. 2 * T * Sum(rounded, E) <= 200 * Sum(revenue, E) + T * (n - 1)
    <2>1. PICK w : w = [r \in E |-> 2 * T * rounded[r] + 0]
      OBVIOUS
    <2>2. PICK z : z = [r \in E |-> 200 * revenue[r] + T]
      OBVIOUS
    <2>3. \A r \in E : revenue[r] \in Int /\ rounded[r] \in Int
      BY <1>5 DEF E
    <2>4. Sum(w, E) = 2 * T * Sum(rounded, E) + 0 * Cardinality(E)
      <3>1. 2 * T \in Int /\ Affine(w, rounded, E, 2 * T, 0)
        BY <1>2, <2>1, <2>3 DEF Affine
      <3>2. QED BY <1>1, <3>1, SumAffine
    <2>5. Sum(z, E) = 200 * Sum(revenue, E) + T * Cardinality(E)
      <3>1. T \in Int /\ Affine(z, revenue, E, 200, T)
        BY <1>2, <2>2, <2>3 DEF Affine
      <3>2. QED BY <1>1, <3>1, SumAffine
    <2>6. Sum(w, E) <= Sum(z, E)
      <3>1. \A r \in E : w[r] \in Int /\ z[r] \in Int /\ w[r] <= z[r]
        BY <1>2, <1>5, <2>1, <2>2, <2>3
      <3>2. QED BY <1>1, <3>1, SumCompares
    <2>7. QED BY <1>1, <1>2, <1>4, <1>6, <2>4, <2>5, <2>6
  <1>8. Sum(rounded, E) <= 100
    <2> DEFINE s == Sum(rounded, E)
               v == revenue[b]
               others == Sum(revenue, E)
    <2>1. /\ T \in Nat /\ v \in Nat \ {0} /\ T >= v /\ s \in Nat /\ n \in Nat /\ n <= 15
          /\ others = T - v
      BY <1>1, <1>2, <1>4, <1>6 DEF n
    <2>2. 2 * T * s <= 200 * others + T * (n - 1) /\ T <= n * v
      BY <1>3, <1>7
    <2> HIDE DEF s, v, others
    <2>3. SUFFICES ASSUME s >= 101 PROVE FALSE
      BY <2>1 DEF s
    <2>4. 2 * T * s >= 202 * T
      BY <2>1, <2>3
    <2>5. T * (n - 1) <= 14 * T /\ n * v <= 15 * v
      BY <2>1
    <2>6. 202 * T <= 200 * (T - v) + 14 * T /\ T <= 15 * v
      <3>1. 2 * T * s \in Int /\ T * (n - 1) \in Int /\ n * v \in Int
        BY <2>1
      <3>2. QED BY <2>1, <2>2, <2>4, <2>5, <3>1
    <2>7. QED BY <2>1, <2>6
  <1>9. QED BY <1>6, <1>8 DEF E

(* The shares of distributionShares make a hundred, and up to fifteen of     *)
(* them are percentages: those that are rounded up exceed their due by a     *)
(* half each, which is no more than the largest.                            *)
LEMMA SharesMakeAHundred ==
  ASSUME NEW revenue, IsFiniteSet(DOMAIN revenue),
         \A r \in DOMAIN revenue : revenue[r] \in Nat \ {0}
  PROVE  /\ DOMAIN distributionShares(revenue) = DOMAIN revenue
         /\ Hundred(distributionShares(revenue))
         /\ Cardinality(DOMAIN revenue) <= 15 => Percentages(distributionShares(revenue))
  <1> DEFINE D == DOMAIN revenue
             T == Sum(revenue, D)
             rounded == [r \in D |-> Rounded(100 * revenue[r], T)]
             b == CHOOSE r \in D : \A q \in D : revenue[q] <= revenue[r]
             shares == distributionShares(revenue)
  <1>1. shares = IF T = 0 THEN [r \in D |-> 0]
                 ELSE [rounded EXCEPT ![b] = @ + (100 - Sum(rounded, D))]
    BY SharesAre
  <1>2. DOMAIN shares = D
    BY <1>1
  <1>3. CASE D = {}
    BY <1>2, <1>3 DEF Hundred, Percentages
  <1>4. CASE D # {}
    <2>1. T \in Nat /\ \A r \in D : revenue[r] \in Nat \ {0} /\ revenue[r] <= T
      BY SumOfNaturals
    <2>2. T \in Nat \ {0}
      BY <1>4, <2>1
    <2>3. b \in D /\ \A r \in D : revenue[r] <= revenue[b]
      <3> DEFINE V == {revenue[r] : r \in D}
      <3>1. V \in SUBSET Nat /\ V # {} /\ \A v \in V : v <= T
        BY <1>4, <2>1
      <3> HIDE DEF V
      <3>2. \E m \in V : \A v \in V : v <= m
        BY <2>1, <3>1, GreatestNatural
      <3>3. \E r \in D : \A q \in D : revenue[q] <= revenue[r]
        BY <3>2 DEF V
      <3>4. QED BY <3>3
    <2>4. \A r \in D : rounded[r] = Rounded(100 * revenue[r], T) /\ rounded[r] \in 0 .. 100
      <3>1. SUFFICES ASSUME NEW r \in D PROVE Rounded(100 * revenue[r], T) \in 0 .. 100
        OBVIOUS
      <3>2. PICK x \in Int : x = 100 * revenue[r]
        BY <2>1
      <3>3. 0 <= x /\ x <= 100 * T
        BY <2>1, <3>2
      <3> HIDE DEF T
      <3>4. Rounded(x, T) \in 0 .. 100
        BY <2>2, <3>3, RoundedPercent
      <3>5. QED BY <3>2, <3>4
    <2> DEFINE S == Sum(rounded, D)
    <2>5. S \in Int /\ S = rounded[b] + Sum(rounded, D \ {b}) /\ Sum(rounded, D \ {b}) \in Int
      <3>1. \A r \in D : rounded[r] \in Int
        BY <2>4
      <3>2. IsFiniteSet(D \ {b})
        BY FS_Subset
      <3> HIDE DEF rounded, D, b
      <3>3. QED BY <2>3, <3>1, <3>2, SumIsInteger, SumTakes DEF D
    <2>6. /\ shares[b] = rounded[b] + (100 - S)
          /\ \A r \in D \ {b} : shares[r] = rounded[r]
      BY <1>1, <2>2, <2>3
    <2> HIDE DEF rounded, shares, T, b, S
    <2>7. shares[b] = 100 - Sum(rounded, D \ {b})
      BY <2>3, <2>4, <2>5, <2>6
    <2>8. Sum(shares, D) = 100
      <3>1. \A r \in D : shares[r] \in Int
        BY <2>4, <2>5, <2>6, <2>7
      <3>2. Sum(shares, D) = shares[b] + Sum(shares, D \ {b})
        BY <2>3, <3>1, SumTakes
      <3>3. Sum(shares, D \ {b}) = Sum(rounded, D \ {b})
        <4>1. IsFiniteSet(D \ {b})
          BY FS_Subset
        <4>2. QED BY <2>6, <4>1, SumsEqual
      <3>4. QED BY <2>5, <2>7, <3>2, <3>3
    <2>9. Hundred(shares)
      <3>1. MapThenSumSet(LAMBDA r : shares[r], D) = Sum(shares, D)
        BY TotalsAreSums
      <3>2. QED BY <1>2, <2>8, <3>1 DEF Hundred
    <2>10. Cardinality(D) <= 15 => Percentages(shares)
      <3>1. SUFFICES ASSUME Cardinality(D) <= 15 PROVE \A r \in D : shares[r] \in 0 .. 100
        BY <1>2 DEF Percentages
      <3>2. Sum(rounded, D \ {b}) \in 0 .. 100
        <4>1. T = Sum(revenue, D)
          BY DEF T
        <4>2. \A r \in D : rounded[r] = Rounded(100 * revenue[r], T)
          BY <2>4
        <4>3. \A r \in D : revenue[r] \in Nat \ {0}
          OBVIOUS
        <4> HIDE DEF D
        <4>4. QED BY <2>3, <3>1, <4>1, <4>2, <4>3, LargestShare DEF D
      <3>3. QED BY <2>4, <2>6, <2>7, <3>2
    <2>11. QED BY <1>2, <2>9, <2>10 DEF shares
  <1>5. QED BY <1>3, <1>4

-----------------------------------------------------------------------------
(* The statements, of one state of the tables.                              *)

LEMMA EarnedAreFinite ==
  ASSUME NEW now
  PROVE  /\ EarnedIn(now) \subseteq Sales /\ IsFiniteSet(EarnedIn(now))
         /\ Cardinality(EarnedIn(now)) \in Nat
         /\ Cardinality(EarnedIn(now)) = 0 <=> EarnedIn(now) = {}
  <1>1. EarnedIn(now) \subseteq Sales
    BY DEF EarnedIn
  <1>2. IsFiniteSet(EarnedIn(now))
    BY <1>1, AnalyticsAssumption, FS_Subset
  <1>3. QED BY <1>1, <1>2, FS_CardinalityType, FS_EmptySet

LEMMA RevenueIs ==
  ASSUME NEW orders \in SUBSET Sales
  PROVE  /\ RevenueOf(orders) = Sum(totalOf, orders) /\ RevenueOf(orders) \in Nat
         /\ IsFiniteSet(orders)
         /\ orders # {} => RevenueOf(orders) # 0
  <1>1. IsFiniteSet(orders) /\ \A o \in orders : totalOf[o] \in Nat \ {0}
    BY AnalyticsAssumption, FS_Subset
  <1>2. RevenueOf(orders) = Sum(totalOf, orders)
    BY DEF RevenueOf, MapThenSumSet, MapThenFoldSet, Sum, Adds, Picked
  <1>3. Sum(totalOf, orders) \in Nat /\ \A o \in orders : totalOf[o] <= Sum(totalOf, orders)
    BY <1>1, SumOfNaturals
  <1>4. orders # {} => Sum(totalOf, orders) # 0
    BY <1>1, <1>3
  <1>5. QED BY <1>1, <1>2, <1>3, <1>4

\* The categories that have sold have sold something.
LEMMA CategoriesMakeAHundred ==
  ASSUME NEW now
  PROVE  LET shares == categoryBreakdown(now)
         IN  /\ Hundred(shares)
             /\ Cardinality(DOMAIN shares) <= 15 => Percentages(shares)
             /\ DOMAIN shares = {} <=> EarnedIn(now) = {}
  <1> DEFINE E == EarnedIn(now)
             D == {rangeOf[o] : o \in E}
             revenue == [r \in D |-> RevenueOf({o \in E : rangeOf[o] = r})]
  <1>1. IsFiniteSet(D)
    <2> DEFINE f == [o \in E |-> rangeOf[o]]
    <2>1. f \in Surjection(E, D)
      BY DEF Surjection
    <2>2. IsFiniteSet(E)
      BY EarnedAreFinite
    <2> HIDE DEF f, E, D
    <2>3. QED BY <2>1, <2>2, FS_Surjection
  <1>2. \A r \in D : revenue[r] \in Nat \ {0}
    <2>1. SUFFICES ASSUME NEW r \in D PROVE revenue[r] \in Nat \ {0}
      OBVIOUS
    <2> DEFINE S == {o \in E : rangeOf[o] = r}
    <2>2. S \in SUBSET Sales /\ S # {}
      BY EarnedAreFinite
    <2> HIDE DEF S
    <2>3. RevenueOf(S) \in Nat \ {0}
      BY <2>2, RevenueIs
    <2>4. QED BY <2>3 DEF S
  <1>3. DOMAIN revenue = D /\ categoryBreakdown(now) = distributionShares(revenue)
    BY DEF categoryBreakdown
  <1>4. D = {} <=> E = {}
    OBVIOUS
  <1> HIDE DEF revenue, D, E
  <1>5. /\ DOMAIN distributionShares(revenue) = D
        /\ Hundred(distributionShares(revenue))
        /\ Cardinality(D) <= 15 => Percentages(distributionShares(revenue))
    BY <1>1, <1>2, <1>3, SharesMakeAHundred
  <1>6. QED BY <1>3, <1>4, <1>5 DEF E

\* The last two bars of the history are this month's and the month before.
LEMMA LastBars ==
  ASSUME NEW now \in Int
  PROVE  LET bars == salesHistory(now)
             n    == SALES_HISTORY_MONTHS
         IN  /\ bars[n].revenue = RevenueOf(EarnedIn(now))
             /\ bars[n].orders = Cardinality(EarnedIn(now))
             /\ bars[n - 1].revenue = RevenueOf(EarnedIn(now - 1))
  <1> DEFINE n == SALES_HISTORY_MONTHS
  <1>1. n \in 1 .. n /\ n - 1 \in 1 .. n
    BY AnalyticsAssumption
  <1>2. now - n + n = now /\ now - n + (n - 1) = now - 1
    BY AnalyticsAssumption
  <1>3. \A i \in 1 .. n : /\ salesHistory(now)[i].revenue = RevenueOf(EarnedIn(now - n + i))
                         /\ salesHistory(now)[i].orders = Cardinality(EarnedIn(now - n + i))
    BY DEF salesHistory
  <1> HIDE DEF n
  <1>4. QED BY <1>1, <1>2, <1>3 DEF n

\* An average lies between the least and the greatest.
LEMMA BasketBetween ==
  ASSUME NEW now, Cardinality(EarnedIn(now)) > 0
  PROVE  averageBasket(RevenueOf(EarnedIn(now)), Cardinality(EarnedIn(now)))
           \in Min(Range(totalOf)) .. Max(Range(totalOf))
  <1> DEFINE E == EarnedIn(now)
             n == Cardinality(E)
             V == Range(totalOf)
             low == Min(V)
             high == Max(V)
  <1>1. /\ E \subseteq Sales /\ IsFiniteSet(E) /\ n \in Nat \ {0} /\ E # {}
        /\ RevenueOf(E) = Sum(totalOf, E)
    BY EarnedAreFinite, RevenueIs
  <1>2. V \in SUBSET Nat /\ \A o \in Sales : totalOf[o] \in V
    BY AnalyticsAssumption DEF Range
  <1>3. V # {}
    BY <1>1, <1>2
  <1>4. Sum(totalOf, Sales) \in Nat /\ \A v \in V : v <= Sum(totalOf, Sales)
    <2>1. IsFiniteSet(Sales) /\ \A o \in Sales : totalOf[o] \in Nat
      BY AnalyticsAssumption
    <2>2. Sum(totalOf, Sales) \in Nat /\ \A o \in Sales : totalOf[o] <= Sum(totalOf, Sales)
      BY <2>1, SumOfNaturals
    <2>3. QED BY <2>2, AnalyticsAssumption DEF Range
  <1> HIDE DEF V
  <1>5. low \in V /\ \A v \in V : low <= v
    <2>1. \E m \in V : \A v \in V : m <= v
      BY <1>2, <1>3, LeastNatural
    <2>2. QED BY <2>1 DEF Min
  <1>6. high \in V /\ \A v \in V : v <= high
    <2>1. \E m \in V : \A v \in V : v <= m
      BY <1>2, <1>3, <1>4, GreatestNatural
    <2>2. \E m \in V : \A v \in V : m >= v
      BY <1>2, <2>1
    <2>3. high \in V /\ \A v \in V : high >= v
      BY <2>2 DEF Max
    <2>4. QED BY <1>2, <2>3
  <1>7. low \in Nat /\ high \in Nat /\ \A o \in E : totalOf[o] \in Int /\ low <= totalOf[o] /\ totalOf[o] <= high
    <2>1. low \in Nat /\ high \in Nat
      BY <1>2, <1>5, <1>6
    <2>2. \A o \in E : totalOf[o] \in V
      BY <1>1, <1>2
    <2> HIDE DEF low, high, E
    <2>3. \A o \in E : totalOf[o] \in Int /\ low <= totalOf[o] /\ totalOf[o] <= high
      <3>1. \A v \in V : v \in Int /\ low <= v /\ v <= high
        BY <1>2, <1>5, <1>6
      <3>2. QED BY <2>2, <3>1
    <2>4. QED BY <2>1, <2>3
  <1> HIDE DEF low, high, n, E
  <1>8. n * low <= Sum(totalOf, E) /\ Sum(totalOf, E) <= n * high /\ Sum(totalOf, E) \in Int
    BY <1>1, <1>7, SumAtLeast, SumAtMost, SumIsInteger DEF n
  <1>9. Rounded(Sum(totalOf, E), n) \in low .. high
    <2>1. PICK x \in Int : x = Sum(totalOf, E)
      BY <1>8
    <2>2. Between(x, n, low, high)
      BY <1>8, <2>1 DEF Between
    <2>3. \A m \in Int, k \in Int : Between(x, n, m, k) => Rounded(x, n) \in m .. k
      BY <1>1, RoundedBetween
    <2>4. low \in Int /\ high \in Int
      BY <1>7
    <2>5. QED BY <2>1, <2>2, <2>3, <2>4
  <1>10. n # 0
    BY <1>1
  <1>11. QED BY <1>1, <1>9, <1>10 DEF averageBasket, low, high, n, E, V

\* As many deliveries closed without their code as deliveries, at the most.
LEMMA ClosuresAreSome ==
  ASSUME NEW now
  PROVE  LET manual == Cardinality({d \in ClosedIn(now) : closureOf[d] = "MANAGER_OVERRIDE"})
             all    == Cardinality(ClosedIn(now))
         IN  manual \in Nat /\ all \in Nat /\ manual <= all
  <1>1. IsFiniteSet(ClosedIn(now))
    BY AnalyticsAssumption, FS_Subset DEF ClosedIn
  <1>2. QED BY <1>1, FS_Subset, FS_CardinalityType

-----------------------------------------------------------------------------
(* The dashboard.                                                           *)

BoardType ==
  /\ month \in Int
  /\ board = [at |-> board.at, month |-> board.month, figures |-> board.figures,
              upsets |-> board.upsets]
  /\ board.at \in {"idle", "reading", "shown", "refused"}
  /\ board.month \in Int /\ board.upsets \in Nat
  /\ DOMAIN board.figures \subseteq Statements

\* What a reading knows: every share makes a hundred; while nothing moves, every figure is
\* still that of the tables.
Complete == board.at \in {"shown", "refused"} => DOMAIN board.figures = Statements
SharesAddUp ==
  "categories" \in DOMAIN board.figures => Hundred(board.figures["categories"])
StillTrue ==
  board.upsets = 0 =>
    \A s \in DOMAIN board.figures : board.figures[s] = Answer(s, board.month)
RefusedForCause == board.at = "refused" => ~ executiveDashboardSchema
EmptyWhenIdle == board.at = "idle" => DOMAIN board.figures = {}

BoardInv ==
  BoardType /\ Complete /\ SharesAddUp /\ StillTrue /\ RefusedForCause /\ EmptyWhenIdle

LEMMA AnswersStand ==
  ASSUME UNCHANGED <<sold, course>>, NEW s, NEW now
  PROVE  Answer(s, now)' = Answer(s, now)
  <1>1. \A m : EarnedIn(m)' = EarnedIn(m)
    BY DEF EarnedIn
  <1>2. \A m : ClosedIn(m)' = ClosedIn(m)
    BY DEF ClosedIn
  <1>3. salesHistory(now)' = salesHistory(now)
    BY <1>1 DEF salesHistory
  <1>4. categoryBreakdown(now)' = categoryBreakdown(now)
    BY <1>1 DEF categoryBreakdown
  <1>5. RevenueOf(EarnedIn(now))' = RevenueOf(EarnedIn(now)) /\ RevenueOf(EarnedIn(now - 1))' = RevenueOf(EarnedIn(now - 1))
    BY <1>1
  <1>6. QED BY <1>1, <1>2, <1>3, <1>4, <1>5 DEF Answer

LEMMA BoardInvInit == AnalyticsInit => BoardInv
  BY AnalyticsAssumption DEF AnalyticsInit, NoBoard, BoardInv, BoardType, Complete, SharesAddUp,
     StillTrue, RefusedForCause, EmptyWhenIdle

\* A row moves: a reading notes it, an idle board has nothing to note.
LEMMA UpsetKeepsBoardInv ==
  ASSUME BoardInv, Upsets, UNCHANGED month
  PROVE  BoardInv'
  <1>1. CASE board.at = "idle" /\ UNCHANGED board
    <2>1. DOMAIN board.figures = {}
      BY <1>1 DEF BoardInv, EmptyWhenIdle
    <2>2. QED BY <1>1, <2>1 DEF BoardInv, BoardType, Complete, SharesAddUp, StillTrue, RefusedForCause,
             EmptyWhenIdle
  <1>2. CASE board.at = "reading" /\ board' = [board EXCEPT !.upsets = @ + 1]
    <2>1. /\ board' = [at |-> "reading", month |-> board.month, figures |-> board.figures,
                       upsets |-> board.upsets + 1]
          /\ board.upsets + 1 \in Nat /\ board.upsets + 1 # 0
      BY <1>2 DEF BoardInv, BoardType
    <2>2. /\ board'.at = "reading" /\ board'.month = board.month
          /\ board'.figures = board.figures /\ board'.upsets \in Nat /\ board'.upsets # 0
      BY <2>1
    <2>3. BoardType'
      BY <2>1, <2>2 DEF BoardInv, BoardType
    <2>4. QED BY <2>2, <2>3 DEF BoardInv, Complete, SharesAddUp, StillTrue, RefusedForCause,
             EmptyWhenIdle
  <1>3. QED BY <1>1, <1>2 DEF Upsets

LEMMA BoardInvStep == BoardInv /\ [AnalyticsNext]_analyticsVars => BoardInv'
  <1> SUFFICES ASSUME BoardInv, [AnalyticsNext]_analyticsVars PROVE BoardInv'
    OBVIOUS
  <1>1. CASE UNCHANGED analyticsVars
    <2>1. UNCHANGED <<sold, course, month, board>>
      BY <1>1 DEF analyticsVars
    <2>2. \A s, now : Answer(s, now)' = Answer(s, now)
      BY <2>1, AnswersStand
    <2>3. QED BY <2>1, <2>2 DEF BoardInv, BoardType, Complete, SharesAddUp, StillTrue,
             RefusedForCause, EmptyWhenIdle, executiveDashboardSchema, manualClosureRate
  <1>2. CASE \E o \in Sales : orderPlaced(o) \/ orderCancelled(o)
    <2>1. Upsets /\ UNCHANGED month
      BY <1>2 DEF orderPlaced, orderCancelled
    <2>2. QED BY <2>1, UpsetKeepsBoardInv
  <1>3. CASE \E d \in Courses : deliveryCloses(d)
    <2>1. Upsets /\ UNCHANGED month
      BY <1>3 DEF deliveryCloses
    <2>2. QED BY <2>1, UpsetKeepsBoardInv
  <1>4. CASE monthPasses
    <2>1. UNCHANGED <<sold, course, board>> /\ month' \in Int
      BY <1>4 DEF monthPasses, BoardInv, BoardType
    <2>2. \A s, now : Answer(s, now)' = Answer(s, now)
      BY <2>1, AnswersStand
    <2>3. QED BY <2>1, <2>2 DEF BoardInv, BoardType, Complete, SharesAddUp, StillTrue,
             RefusedForCause, EmptyWhenIdle, executiveDashboardSchema, manualClosureRate
  <1>5. CASE executiveDashboard
    <2>1. board' = [at |-> "reading", month |-> month, figures |-> << >>, upsets |-> 0] /\ month' = month
      BY <1>5 DEF executiveDashboard, NoBoard
    <2>2. /\ board'.at = "reading" /\ board'.month = month /\ DOMAIN board'.figures = {}
          /\ board'.upsets = 0
      BY <2>1
    <2>3. BoardType'
      BY <2>1, <2>2 DEF BoardInv, BoardType
    <2>4. QED BY <2>2, <2>3 DEF BoardInv, Complete, SharesAddUp, StillTrue, RefusedForCause,
             EmptyWhenIdle
  <1>6. CASE boardLeft
    <2>1. board' = NoBoard /\ month' = month
      BY <1>6 DEF boardLeft
    <2>2. /\ board'.at = "idle" /\ board'.month = 0 /\ DOMAIN board'.figures = {}
          /\ board'.upsets = 0
      BY <2>1 DEF NoBoard
    <2>3. BoardType'
      BY <2>1, <2>2 DEF BoardInv, BoardType, NoBoard
    <2>4. QED BY <2>2, <2>3 DEF BoardInv, Complete, SharesAddUp, StillTrue, RefusedForCause,
             EmptyWhenIdle
  <1>7. CASE boardShown
    <2> DEFINE a == IF executiveDashboardSchema THEN "shown" ELSE "refused"
    <2>1. /\ board' = [at |-> a, month |-> board.month, figures |-> board.figures,
                       upsets |-> board.upsets]
          /\ UNCHANGED <<sold, course, month>> /\ DOMAIN board.figures = Statements
      BY <1>7 DEF boardShown, BoardInv, BoardType
    <2>2. /\ board'.at = a /\ a \in {"shown", "refused"} /\ board'.month = board.month
          /\ board'.figures = board.figures /\ board'.upsets = board.upsets
      BY <2>1
    <2>3. BoardType'
      BY <2>1, <2>2 DEF BoardInv, BoardType
    <2>4. \A s, now : Answer(s, now)' = Answer(s, now)
      BY <2>1, AnswersStand
    <2>5. StillTrue' /\ SharesAddUp' /\ Complete' /\ EmptyWhenIdle'
      BY <2>1, <2>2, <2>4 DEF BoardInv, StillTrue, SharesAddUp, Complete, EmptyWhenIdle
    <2>6. RefusedForCause'
      <3>1. executiveDashboardSchema' = executiveDashboardSchema
        BY <2>2 DEF executiveDashboardSchema, manualClosureRate
      <3>2. QED BY <2>2, <3>1 DEF RefusedForCause
    <2>7. QED BY <2>3, <2>5, <2>6 DEF BoardInv
  <1>8. ASSUME NEW statement \in Statements, statementAnswers(statement) PROVE BoardInv'
    <2> DEFINE F == [s \in DOMAIN board.figures \cup {statement} |->
                      IF s = statement THEN Answer(s, board.month) ELSE board.figures[s]]
    <2>1. /\ board' = [at |-> "reading", month |-> board.month, figures |-> F,
                       upsets |-> board.upsets]
          /\ UNCHANGED <<sold, course, month>>
      BY <1>8 DEF statementAnswers, BoardInv, BoardType
    <2>2. /\ board'.at = "reading" /\ board'.month = board.month
          /\ board'.figures = F /\ board'.upsets = board.upsets
      BY <2>1
    <2>3. /\ DOMAIN F = DOMAIN board.figures \cup {statement}
          /\ F[statement] = Answer(statement, board.month)
          /\ \A s \in DOMAIN board.figures \ {statement} : F[s] = board.figures[s]
      OBVIOUS
    <2> HIDE DEF F
    <2>4. BoardType'
      BY <2>1, <2>2, <2>3 DEF BoardInv, BoardType
    <2>5. \A s, now : Answer(s, now)' = Answer(s, now)
      BY <2>1, AnswersStand
    <2>6. StillTrue'
      BY <2>2, <2>3, <2>5 DEF BoardInv, StillTrue
    <2>7. SharesAddUp'
      <3>1. CASE statement = "categories"
        <4>1. F["categories"] = categoryBreakdown(board.month)
          BY <2>3, <3>1 DEF Answer
        <4>2. QED BY <2>2, <4>1, CategoriesMakeAHundred DEF SharesAddUp
      <3>2. CASE statement # "categories"
        BY <2>2, <2>3, <3>2 DEF BoardInv, SharesAddUp
      <3>3. QED BY <3>1, <3>2
    <2>8. Complete' /\ RefusedForCause' /\ EmptyWhenIdle'
      BY <2>2 DEF Complete, RefusedForCause, EmptyWhenIdle
    <2>9. QED BY <2>4, <2>6, <2>7, <2>8 DEF BoardInv
  <1>9. QED BY <1>1, <1>2, <1>3, <1>4, <1>5, <1>6, <1>7, <1>8 DEF AnalyticsNext

\* Figures of one state satisfy the schema, as long as the shares are percentages.
LEMMA TrueFiguresAreShown ==
  ASSUME BoardInv, board.upsets = 0, DOMAIN board.figures = Statements,
         Cardinality(DOMAIN board.figures["categories"]) <= 15
  PROVE  executiveDashboardSchema
  <1>1. /\ board.figures["categories"] = categoryBreakdown(board.month)
        /\ board.figures["deliveredMonth"] = Cardinality(ClosedIn(board.month))
        /\ board.figures["manualClosures"] =
             Cardinality({d \in ClosedIn(board.month) : closureOf[d] = "MANAGER_OVERRIDE"})
    BY DEF BoardInv, StillTrue, Statements, Answer
  <1>2. \A r \in DOMAIN board.figures["categories"] : board.figures["categories"][r] \in 0 .. 100
    <2>1. Percentages(categoryBreakdown(board.month))
      BY <1>1, CategoriesMakeAHundred
    <2>2. QED BY <1>1, <2>1 DEF Percentages
  <1>3. manualClosureRate \in 0 .. 100
    <2>1. PICK x \in Nat, y \in Nat : x = board.figures["manualClosures"] /\ y = board.figures["deliveredMonth"]
      BY <1>1, ClosuresAreSome
    <2>2. x <= y
      BY <1>1, <2>1, ClosuresAreSome
    <2>3. CASE y = 0
      BY <2>1, <2>3 DEF manualClosureRate
    <2>4. CASE y # 0
      <3>1. PICK z \in Int : z = 100 * x
        OBVIOUS
      <3>2. 0 <= z /\ z <= 100 * y /\ y \in Nat \ {0}
        BY <2>2, <2>4, <3>1
      <3>3. Rounded(z, y) \in 0 .. 100
        BY <3>2, RoundedPercent
      <3>4. QED BY <2>1, <2>4, <3>1, <3>3 DEF manualClosureRate
    <2>5. QED BY <2>3, <2>4
  <1>4. QED BY <1>2, <1>3 DEF executiveDashboardSchema

LEMMA BoardInvAddsUp == BoardInv => DashboardAddsUp
  <1> DEFINE figures == board.figures
             bars    == figures["history"]
             n       == SALES_HISTORY_MONTHS
             shares  == figures["categories"]
  <1> SUFFICES ASSUME BoardInv, board.at \in {"shown", "refused"} PROVE DashboardAddsUp
    BY DEF DashboardAddsUp
  <1>1. DOMAIN figures = Statements
    BY DEF BoardInv, Complete
  <1>2. Hundred(shares)
    BY <1>1 DEF BoardInv, SharesAddUp, Statements
  <1>3. ASSUME board.upsets = 0
        PROVE /\ Cardinality(DOMAIN shares) <= 15 => board.at = "shown"
              /\ bars[n].revenue = figures["revenue"] /\ bars[n].orders = figures["orders"]
              /\ growthRate(figures["revenue"], figures["previousRevenue"]) =
                   growthRate(bars[n].revenue, bars[n - 1].revenue)
              /\ figures["orders"] > 0 =>
                   averageBasket(figures["revenue"], figures["orders"])
                     \in Min(Range(totalOf)) .. Max(Range(totalOf))
              /\ (DOMAIN shares = {}) <=> (figures["orders"] = 0)
    <2> DEFINE now == board.month
    <2>1. /\ figures["revenue"] = RevenueOf(EarnedIn(now))
          /\ figures["orders"] = Cardinality(EarnedIn(now))
          /\ figures["previousRevenue"] = RevenueOf(EarnedIn(now - 1))
          /\ bars = salesHistory(now) /\ shares = categoryBreakdown(now)
      BY <1>1, <1>3 DEF BoardInv, StillTrue, Statements, Answer
    <2>2. Cardinality(DOMAIN shares) <= 15 => board.at = "shown"
      <3>1. Cardinality(DOMAIN shares) <= 15 => executiveDashboardSchema
        BY <1>1, <1>3, TrueFiguresAreShown
      <3>2. QED BY <3>1 DEF BoardInv, RefusedForCause
    <2>3. now \in Int
      BY DEF BoardInv, BoardType
    <2> HIDE DEF figures, bars, shares, now, n
    <2>4. /\ bars[n].revenue = figures["revenue"] /\ bars[n].orders = figures["orders"]
          /\ bars[n - 1].revenue = figures["previousRevenue"]
      BY <2>1, <2>3, LastBars DEF n
    <2>5. figures["orders"] > 0 =>
            averageBasket(figures["revenue"], figures["orders"])
              \in Min(Range(totalOf)) .. Max(Range(totalOf))
      BY <2>1, BasketBetween
    <2>6. (DOMAIN shares = {}) <=> (figures["orders"] = 0)
      BY <2>1, CategoriesMakeAHundred, EarnedAreFinite
    <2>7. QED BY <2>2, <2>4, <2>5, <2>6
  <1>4. QED BY <1>2, <1>3 DEF DashboardAddsUp, Hundred

(* The dashboard adds up: whatever the sales, the deliveries, the categories *)
(* and the length of the history, whatever moves while the statements are    *)
(* read, and however long (DashboardAddsUp).                                *)
THEOREM DashboardsAddUp == AnalyticsSpec => []DashboardAddsUp
  <1>1. QED BY BoardInvInit, BoardInvStep, BoardInvAddsUp, PTL DEF AnalyticsSpec
=============================================================================
