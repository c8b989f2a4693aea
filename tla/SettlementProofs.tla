------------------------- MODULE SettlementProofs -------------------------
(***************************************************************************)
(* Theorems about Deliveries and DirectPayments, for every number of       *)
(* orders, couriers, handlers, spellings, requests and desks. ClosuresOK   *)
(* says what a handler that is about to close a run or to call the site    *)
(* has seen happen, CountsOK counts the failures of a code together with   *)
(* the handlers that have still to write one. DInv holds the payments,     *)
(* declarations and desks of a direct transfer. The order row of each adds *)
(* the invariant of OrderLifecycle (IInv), which the writes of the         *)
(* couriers, of the office and of the staff keep.                          *)
(***************************************************************************)
EXTENDS Deliveries, DirectPayments, OrderLifecycleProofs, FiniteSetTheorems

-----------------------------------------------------------------------------
(* Deliveries and their codes.                                             *)

HAND_POINTS ==
  {"idle", "assign", "update", "updateCommit", "issue", "issueCommit", "verify", "consume",
   "countFailure", "close", "closeCommit", "override", "finalise"}

HandContext ==
  [at : HAND_POINTS, order : Orders \cup {NoOrder}, courier : Couriers \cup {NoCourier},
   to : DELIVERY_STATUSES \cup {"NONE"},
   sees : DELIVERY_STATUSES \cup ORDER_STATUSES \cup {"NONE"}, code : Nat]

Code == [state : {"ACTIVE", "USED", "INVALID"}, attempts : Nat]

DeliveryTypeOK ==
  /\ delivery \in [Orders -> [status : DELIVERY_STATUSES \cup {"NONE"},
                              courier : Couriers \cup {NoCourier}]]
  /\ closureMode \in [Orders -> {"NONE", "CLIENT_OTP", "MANAGER_OVERRIDE"}]
  /\ otp \in [Orders -> Seq(Code)]
  /\ accepted \in [Orders -> Nat]
  /\ hand \in [Hands -> HandContext]

\* A handler works on an order, and on a code of that order.
HandsOK ==
  \A h \in Hands :
    /\ hand[h].at # "idle" => hand[h].order \in Orders
    /\ hand[h].at \in {"consume", "countFailure"} => hand[h].code \in DOMAIN otp[hand[h].order]
    /\ hand[h].at \in {"update", "updateCommit"} => hand[h].to \in COURIER_SETTABLE

\* A run is closed by a code used, or by the office, and the site is called after.
ClosuresOK ==
  \A h \in Hands :
    /\ hand[h].at \in {"close", "closeCommit"} => UsedCodes(hand[h].order) # {}
    /\ hand[h].at = "finalise" => closureMode[hand[h].order] # "NONE"

\* No screen of the office asks for DELIVERED.
TargetsOK ==
  \A r \in Requests : req[r].at = "advanceTxn" => req[r].target # "DELIVERED"

\* The handlers that compared wrong digits with code i and have not counted it yet.
Failing(o, i) ==
  {h \in Hands : hand[h].at = "countFailure" /\ hand[h].order = o /\ hand[h].code = i}

CountsOK ==
  \A o \in Orders :
    /\ accepted[o] = Cardinality(UsedCodes(o))
    /\ \A i \in DOMAIN otp[o] :
         otp[o][i].attempts + Cardinality(Failing(o, i)) <= MaxAttempts + Cardinality(Hands) - 1

DeliveryInv ==
  /\ DeliveryTypeOK
  /\ HandsOK
  /\ ClosuresOK
  /\ TargetsOK
  /\ DeliveredOnlyByCodeOrManager
  /\ CountsOK

-----------------------------------------------------------------------------
(* Codes.                                                                  *)

\* Codes are added or invalidated, none is used or counted, none disappears.
CodesKept ==
  /\ otp' \in [Orders -> Seq(Code)]
  /\ \A o \in Orders :
       /\ DOMAIN otp[o] \subseteq DOMAIN otp'[o]
       /\ \A i \in DOMAIN otp'[o] :
            IF i \in DOMAIN otp[o]
              THEN /\ otp'[o][i].state = "USED" <=> otp[o][i].state = "USED"
                   /\ otp'[o][i].attempts = otp[o][i].attempts
              ELSE otp'[o][i].state # "USED" /\ otp'[o][i].attempts = 0

LEMMA CodesStay == ASSUME DeliveryTypeOK, otp' = otp PROVE CodesKept
  BY DEF DeliveryTypeOK, CodesKept

LEMMA InvalidatedIsCode ==
  ASSUME NEW c \in Code
  PROVE  /\ Invalidated(c) \in Code
         /\ Invalidated(c).state = "USED" <=> c.state = "USED"
         /\ Invalidated(c).attempts = c.attempts
  BY DEF Code, Invalidated

\* The UPDATE of the issue, on the codes committed when it reads, and of the
\* manual closure, on all of them.
InvalidatedUpTo(s, n) == [i \in DOMAIN s |-> IF i <= n THEN Invalidated(s[i]) ELSE s[i]]

LEMMA InvalidatesSome ==
  ASSUME NEW s \in Seq(Code), NEW n \in Nat
  PROVE  LET t == InvalidatedUpTo(s, n) IN
         /\ t \in Seq(Code) /\ Len(t) = Len(s) /\ DOMAIN t = DOMAIN s
         /\ \A i \in DOMAIN s : /\ t[i].state = "USED" <=> s[i].state = "USED"
                                /\ t[i].attempts = s[i].attempts
  <1> DEFINE t == InvalidatedUpTo(s, n)
  <1>1. Len(s) \in Nat /\ DOMAIN s = 1 .. Len(s) /\ \A i \in DOMAIN s : s[i] \in Code
    OBVIOUS
  <1>2. \A i \in DOMAIN s : t[i] \in Code
    BY <1>1, InvalidatedIsCode DEF InvalidatedUpTo
  <1>3. t \in [1 .. Len(s) -> Code]
    BY <1>1, <1>2 DEF InvalidatedUpTo
  <1>4. t \in Seq(Code) /\ Len(t) = Len(s) /\ DOMAIN t = DOMAIN s
    BY <1>1, <1>3
  <1>5. \A i \in DOMAIN s : /\ t[i].state = "USED" <=> s[i].state = "USED"
                            /\ t[i].attempts = s[i].attempts
    BY <1>1, InvalidatedIsCode DEF InvalidatedUpTo
  <1>6. QED BY <1>4, <1>5

LEMMA IssueKeepsCodes ==
  ASSUME DeliveryTypeOK, NEW o \in Orders, NEW n \in Nat,
         otp' = [otp EXCEPT ![o] =
                   Append([i \in DOMAIN @ |-> IF i <= n THEN Invalidated(@[i]) ELSE @[i]], NewCode)]
  PROVE  CodesKept
  <1> DEFINE s == otp[o]
             t == InvalidatedUpTo(s, n)
  <1>1. s \in Seq(Code)
    BY DEF DeliveryTypeOK
  <1>2. /\ t \in Seq(Code) /\ Len(t) = Len(s) /\ DOMAIN t = DOMAIN s
        /\ \A i \in DOMAIN s : /\ t[i].state = "USED" <=> s[i].state = "USED"
                               /\ t[i].attempts = s[i].attempts
    BY <1>1, InvalidatesSome
  <1>3. otp' = [otp EXCEPT ![o] = Append(t, NewCode)]
    BY DEF InvalidatedUpTo
  <1> HIDE DEF s, t
  <1>4. NewCode \in Code /\ NewCode.state = "ACTIVE" /\ NewCode.attempts = 0
    BY DEF NewCode, Code
  <1>5. /\ Append(t, NewCode) \in Seq(Code)
        /\ DOMAIN Append(t, NewCode) = 1 .. Len(t) + 1
        /\ \A i \in 1 .. Len(t) : Append(t, NewCode)[i] = t[i]
        /\ Append(t, NewCode)[Len(t) + 1] = NewCode
        /\ DOMAIN t = 1 .. Len(t) /\ Len(t) \in Nat
    BY <1>2, <1>4
  <1>6. otp' \in [Orders -> Seq(Code)] /\ otp'[o] = Append(t, NewCode)
        /\ \A x \in Orders : x # o => otp'[x] = otp[x]
    BY <1>3, <1>5 DEF DeliveryTypeOK
  <1>7. ASSUME NEW i \in DOMAIN otp'[o]
        PROVE  IF i \in DOMAIN otp[o]
                 THEN /\ otp'[o][i].state = "USED" <=> otp[o][i].state = "USED"
                      /\ otp'[o][i].attempts = otp[o][i].attempts
                 ELSE otp'[o][i].state # "USED" /\ otp'[o][i].attempts = 0
    <2>1. CASE i \in 1 .. Len(t)
      BY <1>2, <1>5, <1>6, <2>1 DEF s
    <2>2. CASE i = Len(t) + 1
      BY <1>2, <1>4, <1>5, <1>6, <2>2 DEF s
    <2>3. QED BY <1>5, <1>6, <2>1, <2>2
  <1>8. DOMAIN otp[o] \subseteq DOMAIN otp'[o]
    BY <1>2, <1>5, <1>6 DEF s
  <1>9. QED BY <1>6, <1>7, <1>8 DEF CodesKept

LEMMA OverrideKeepsCodes ==
  ASSUME DeliveryTypeOK, NEW o \in Orders,
         otp' = [otp EXCEPT ![o] = [i \in DOMAIN @ |-> Invalidated(@[i])]]
  PROVE  CodesKept
  <1> DEFINE s == otp[o]
             t == InvalidatedUpTo(s, Len(s))
  <1>1. s \in Seq(Code) /\ Len(s) \in Nat /\ DOMAIN s = 1 .. Len(s)
    BY DEF DeliveryTypeOK
  <1>2. t = [i \in DOMAIN s |-> Invalidated(s[i])]
    BY <1>1 DEF InvalidatedUpTo
  <1>3. /\ t \in Seq(Code) /\ DOMAIN t = DOMAIN s
        /\ \A i \in DOMAIN s : /\ t[i].state = "USED" <=> s[i].state = "USED"
                               /\ t[i].attempts = s[i].attempts
    BY <1>1, InvalidatesSome
  <1>4. otp' = [otp EXCEPT ![o] = t]
    BY <1>2
  <1> HIDE DEF t
  <1>5. otp' \in [Orders -> Seq(Code)] /\ otp'[o] = t
        /\ \A x \in Orders : x # o => otp'[x] = otp[x]
    BY <1>3, <1>4 DEF DeliveryTypeOK
  <1>6. QED BY <1>3, <1>5 DEF CodesKept

LEMMA KeptCodesAreUsed ==
  ASSUME CodesKept PROVE \A o \in Orders : UsedCodes(o)' = UsedCodes(o)
  BY DEF CodesKept, UsedCodes

\* The CHOOSE of the latest usable code finds one.
LEMMA LastIsThere ==
  ASSUME NEW n \in Nat, NEW S \in SUBSET (1 .. n), S # {}
  PROVE  \E j \in S : \A k \in S : k <= j
  <1>1. PICK x \in S : TRUE
    OBVIOUS
  <1> DEFINE R == {n - y : y \in S}
  <1>2. R \in SUBSET Nat /\ n - x \in R
    OBVIOUS
  <1> HIDE DEF R
  <1>3. PICK m \in R : \A y \in R : ~ (<<y, m>> \in OpToRel(<, Nat))
    BY <1>2, NatLessThanWellFounded, WFMin
  <1>4. \A y \in R : m <= y
    <2>1. ASSUME NEW y \in R, y < m PROVE FALSE
      BY <1>2, <1>3, <2>1 DEF OpToRel
    <2>2. QED BY <1>2, <2>1
  <1>5. PICK j \in S : m = n - j
    BY DEF R
  <1>6. ASSUME NEW k \in S PROVE k <= j
    <2>1. n - k \in R
      BY DEF R
    <2>2. m <= n - k
      BY <1>4, <2>1
    <2>3. QED BY <1>5, <2>2
  <1>7. QED BY <1>6

LEMMA CodesAreTyped ==
  ASSUME DeliveryTypeOK, NEW o \in Orders, NEW i \in DOMAIN otp[o]
  PROVE  otp[o][i] \in Code
  <1>1. otp[o] \in Seq(Code)
    BY DEF DeliveryTypeOK
  <1>2. QED BY <1>1

LEMMA UsedAreFinite ==
  ASSUME DeliveryTypeOK, NEW o \in Orders
  PROVE  IsFiniteSet(UsedCodes(o)) /\ UsedCodes(o) \subseteq DOMAIN otp[o]
  <1>1. Len(otp[o]) \in Nat /\ DOMAIN otp[o] = 1 .. Len(otp[o])
    BY DEF DeliveryTypeOK
  <1>2. IsFiniteSet(1 .. Len(otp[o]))
    BY <1>1, FS_Interval
  <1>3. UsedCodes(o) \in SUBSET (1 .. Len(otp[o]))
    BY <1>1 DEF UsedCodes
  <1>4. QED BY <1>1, <1>2, <1>3, FS_Subset

LEMMA FailingAreCounted ==
  ASSUME NEW o, NEW i
  PROVE  /\ IsFiniteSet(Failing(o, i))
         /\ Cardinality(Failing(o, i)) \in Nat
         /\ Cardinality(Failing(o, i)) <= Cardinality(Hands)
  <1>1. Failing(o, i) \in SUBSET Hands
    BY DEF Failing
  <1>2. QED BY <1>1, HandsAssumption, FS_Subset, FS_CardinalityType

LEMMA SomebodyIsCounted ==
  ASSUME NEW h \in Hands PROVE Cardinality(Hands) \in Nat \ {0}
  BY HandsAssumption, FS_EmptySet, FS_CardinalityType

-----------------------------------------------------------------------------
(* Initial states.                                                         *)

LEMMA DeliveryInitOK == DeliveryInit => DeliveryInv /\ IInv
  <1> SUFFICES ASSUME DeliveryInit PROVE DeliveryInv /\ IInv
    OBVIOUS
  <1>1. IInv
    BY InitIInv DEF DeliveryInit
  <1>2. DeliveryTypeOK
    BY DEF DeliveryInit, DeliveryTypeOK, Free, HandContext, HAND_POINTS
  <1>3. HandsOK /\ ClosuresOK
    BY DEF DeliveryInit, HandsOK, ClosuresOK, Free
  <1>4. TargetsOK
    BY DEF DeliveryInit, Init, TargetsOK, Idle
  <1>5. DeliveredOnlyByCodeOrManager
    BY DEF DeliveryInit, Init, DeliveredOnlyByCodeOrManager
  <1>6. CountsOK
    <2>1. ASSUME NEW o \in Orders PROVE UsedCodes(o) = {} /\ DOMAIN otp[o] = {}
      BY DEF DeliveryInit, UsedCodes
    <2>2. QED BY <2>1, FS_EmptySet DEF DeliveryInit, CountsOK
  <1>7. QED BY <1>1, <1>2, <1>3, <1>4, <1>5, <1>6 DEF DeliveryInv

-----------------------------------------------------------------------------
(* The requests of the customer and of the manager leave the run alone.     *)

LEMMA RequestsDeliverNothing ==
  ASSUME IInv, TargetsOK, Next
  PROVE  /\ TargetsOK'
         /\ \A o \in Orders :
              /\ status'[o] = "DELIVERED" => status[o] = "DELIVERED"
              /\ reservation'[o] = "FINALISED" => reservation[o] = "FINALISED"
  <1> USE DEF IInv
  <1>1. ASSUME NEW o \in Orders, SiteExpires(o)
        PROVE  /\ status' = status /\ req' = req
               /\ \A x \in Orders : reservation'[x] = "FINALISED" => reservation[x] = "FINALISED"
    BY <1>1 DEF SiteExpires, TypeOK
  <1>2. ASSUME NEW r \in Requests, Starting(r)
        PROVE  UNCHANGED <<status, reservation>> /\ TargetsOK'
    <2>1. ASSUME NEW o \in Orders, ClientCancel(r, o) \/ ManagerCancel(r, o)
          PROVE  UNCHANGED <<status, reservation>> /\ TargetsOK'
      BY <2>1 DEF ClientCancel, ManagerCancel, Starts, orderVars, TargetsOK, TypeOK
    <2>2. ASSUME NEW o \in Orders, NEW s \in ORDER_STATUSES, ManagerAdvance(r, o, s)
          PROVE  UNCHANGED <<status, reservation>> /\ TargetsOK'
      <3>1. s # "DELIVERED"
        BY <2>2 DEF ManagerAdvance, managerActionFor, TypeOK, ORDER_STATUSES
      <3>2. QED BY <2>2, <3>1 DEF ManagerAdvance, Starts, orderVars, TargetsOK, TypeOK
    <2>3. QED BY <1>2, <2>1, <2>2 DEF Starting
  <1>3. ASSUME NEW r \in Requests, Serving(r) \/ Abandoned(r)
        PROVE  /\ TargetsOK'
               /\ \A o \in Orders :
                    /\ status'[o] = "DELIVERED" => status[o] = "DELIVERED"
                    /\ reservation'[o] = "FINALISED" => reservation[o] = "FINALISED"
    <2>1. CASE CancelWins(r)
      BY <2>1 DEF CancelWins, cancelOrderAndReleaseStock, Ends, Starts, Idle, TargetsOK, TypeOK
    <2>2. CASE CancelLoses(r) \/ ReleaseFails(r) \/ Abandoned(r)
      BY <2>2 DEF CancelLoses, ReleaseFails, Abandoned, Ends, Idle, orderVars, TargetsOK, TypeOK
    <2>3. CASE ReleaseSucceeds(r)
      BY <2>3 DEF ReleaseSucceeds, siteLiberer, Ends, Idle, TargetsOK, TypeOK
    <2>4. CASE AdvanceTxn(r)
      BY <2>4 DEF AdvanceTxn, updateStatusOf, Ends, Idle, TargetsOK, TypeOK
    <2>5. QED BY <1>3, <2>1, <2>2, <2>3, <2>4 DEF Serving
  <1>4. QED BY <1>1, <1>2, <1>3 DEF Next, TargetsOK

LEMMA RequestStep ==
  ASSUME DeliveryInv, IInv, Next, UNCHANGED runVars PROVE DeliveryInv'
  <1>1. /\ TargetsOK'
        /\ \A o \in Orders :
             /\ status'[o] = "DELIVERED" => status[o] = "DELIVERED"
             /\ reservation'[o] = "FINALISED" => reservation[o] = "FINALISED"
    BY RequestsDeliverNothing DEF DeliveryInv
  <1>2. UNCHANGED <<delivery, closureMode, otp, accepted, hand>>
    BY DEF runVars
  <1>3. DeliveryTypeOK' /\ HandsOK'
    BY <1>2 DEF DeliveryInv, DeliveryTypeOK, HandsOK
  <1>4. \A o \in Orders : UsedCodes(o)' = UsedCodes(o) /\ \A i : Failing(o, i)' = Failing(o, i)
    BY <1>2 DEF UsedCodes, Failing
  <1>5. ClosuresOK' /\ CountsOK'
    BY <1>2, <1>4 DEF DeliveryInv, HandsOK, ClosuresOK, CountsOK
  <1>6. DeliveredOnlyByCodeOrManager'
    BY <1>1, <1>2, <1>4 DEF DeliveryInv, DeliveredOnlyByCodeOrManager
  <1>7. QED BY <1>1, <1>3, <1>5, <1>6 DEF DeliveryInv

-----------------------------------------------------------------------------
(* The steps of a handler that use and count no code.                       *)

\* The context c fits the rows as the step leaves them.
Fits(c) ==
  /\ c \in HandContext
  /\ c.at # "idle" => c.order \in Orders
  /\ c.at \in {"update", "updateCommit"} => c.to \in COURIER_SETTABLE
  /\ c.at = "consume" => c.code \in DOMAIN otp'[c.order]
  /\ c.at \in {"close", "closeCommit"} => UsedCodes(c.order) # {}
  /\ c.at = "finalise" => closureMode'[c.order] # "NONE"
  /\ c.at = "countFailure" =>
       /\ otp' = otp
       /\ c.code \in DOMAIN otp[c.order]
       /\ otp[c.order][c.code].attempts < MaxAttempts

\* What is closed stays so, by a code only if one was used, and the order with it.
RunKept ==
  /\ delivery' \in [Orders -> [status : DELIVERY_STATUSES \cup {"NONE"},
                               courier : Couriers \cup {NoCourier}]]
  /\ closureMode' \in [Orders -> {"NONE", "CLIENT_OTP", "MANAGER_OVERRIDE"}]
  /\ \A o \in Orders :
       /\ closureMode[o] # "NONE" => closureMode'[o] # "NONE"
       /\ closureMode'[o] = "CLIENT_OTP" => closureMode[o] = "CLIENT_OTP" \/ UsedCodes(o) # {}
       /\ status'[o] = "DELIVERED" => status[o] = "DELIVERED" \/ closureMode'[o] # "NONE"
       /\ reservation'[o] = "FINALISED" => reservation[o] = "FINALISED" \/ closureMode'[o] # "NONE"

LEMMA HandMoves ==
  ASSUME DeliveryInv, NEW h \in Hands, NEW c, Fits(c), hand' = [hand EXCEPT ![h] = c],
         CodesKept, RunKept, UNCHANGED <<accepted, req>>
  PROVE  DeliveryInv'
  <1>0. /\ DeliveryTypeOK /\ HandsOK /\ ClosuresOK /\ TargetsOK
        /\ DeliveredOnlyByCodeOrManager /\ CountsOK
    BY DEF DeliveryInv
  <1>1. \A o \in Orders : UsedCodes(o)' = UsedCodes(o)
    BY KeptCodesAreUsed
  <1>2. /\ hand' \in [Hands -> HandContext] /\ hand'[h] = c
        /\ \A g \in Hands : g # h => hand'[g] = hand[g]
    BY <1>0 DEF Fits, DeliveryTypeOK
  <1>3. DeliveryTypeOK'
    BY <1>0, <1>2 DEF DeliveryTypeOK, CodesKept, RunKept
  <1>4. HandsOK'
    BY <1>0, <1>2 DEF HandsOK, Fits, CodesKept
  <1>5. ClosuresOK'
    BY <1>0, <1>1, <1>2 DEF HandsOK, ClosuresOK, Fits, RunKept
  <1>6. TargetsOK'
    BY <1>0 DEF TargetsOK
  <1>7. DeliveredOnlyByCodeOrManager'
    BY <1>0, <1>1 DEF DeliveredOnlyByCodeOrManager, RunKept
  <1>8. CountsOK'
    <2>1. ASSUME NEW o \in Orders PROVE accepted'[o] = Cardinality(UsedCodes(o)')
      BY <1>0, <1>1, <2>1 DEF CountsOK
    <2>2. ASSUME NEW o \in Orders, NEW i \in DOMAIN otp'[o]
          PROVE  otp'[o][i].attempts + Cardinality(Failing(o, i)')
                   <= MaxAttempts + Cardinality(Hands) - 1
      <3>1. /\ Cardinality(Hands) \in Nat \ {0} /\ MaxAttempts \in Nat
            /\ IsFiniteSet(Failing(o, i)) /\ Cardinality(Failing(o, i)) \in Nat
        BY SomebodyIsCounted, FailingAreCounted, MaxAttemptsAssumption
      <3>2. Failing(o, i)' \in SUBSET Hands
        BY DEF Failing
      <3>3. Cardinality(Failing(o, i)') \in Nat /\ Cardinality(Failing(o, i)') <= Cardinality(Hands)
        BY <3>2, HandsAssumption, FS_Subset, FS_CardinalityType
      <3>4. CASE c.at = "countFailure" /\ c.order = o /\ c.code = i
        <4>1. otp'[o][i].attempts \in Nat /\ otp'[o][i].attempts < MaxAttempts
          BY <3>4, <1>0, CodesAreTyped DEF Fits, Code
        <4>2. QED BY <3>1, <3>3, <4>1
      <3>5. CASE ~ (c.at = "countFailure" /\ c.order = o /\ c.code = i)
        <4>1. Failing(o, i)' \in SUBSET Failing(o, i)
          BY <1>2, <3>5 DEF Failing
        <4>2. Cardinality(Failing(o, i)') <= Cardinality(Failing(o, i))
          BY <3>1, <4>1, FS_Subset
        <4>3. CASE i \in DOMAIN otp[o]
          <5>1. /\ otp[o][i].attempts + Cardinality(Failing(o, i)) <= MaxAttempts + Cardinality(Hands) - 1
                /\ otp'[o][i].attempts = otp[o][i].attempts
                /\ otp[o][i].attempts \in Nat
            BY <1>0, <4>3, CodesAreTyped DEF CountsOK, CodesKept, Code
          <5>2. QED BY <3>1, <3>3, <4>2, <5>1
        <4>4. CASE i \notin DOMAIN otp[o]
          <5>1. otp'[o][i].attempts = 0
            BY <4>4 DEF CodesKept
          <5>2. Failing(o, i) = {}
            BY <1>0, <4>4 DEF HandsOK, Failing
          <5>3. Cardinality(Failing(o, i)') = 0
            BY <4>1, <5>2, FS_EmptySet
          <5>4. QED BY <3>1, <5>1, <5>3
        <4>5. QED BY <4>3, <4>4
      <3>6. QED BY <3>4, <3>5
    <2>3. QED BY <2>1, <2>2 DEF CountsOK
  <1>9. QED BY <1>3, <1>4, <1>5, <1>6, <1>7, <1>8 DEF DeliveryInv

LEMMA RowUnchangedKeepsIInv == ASSUME IInv, UNCHANGED vars PROVE IInv'
  BY DEF IInv, vars, TypeOK, ContextsOK, StockReturnedOncePerCancellation, Cancellations,
         ReleaseFollowsCancellation

\* A step that writes no table: it reads, or it leaves.
LEMMA HandReads ==
  ASSUME DeliveryInv, IInv, NEW h \in Hands, NEW c, hand' = [hand EXCEPT ![h] = c],
         UNCHANGED <<vars, tables>>, Fits(c)
  PROVE  DeliveryInv' /\ IInv'
  <1>1. CodesKept
    BY CodesStay DEF tables, DeliveryInv
  <1>2. RunKept
    BY DEF tables, vars, RunKept, DeliveryInv, DeliveryTypeOK
  <1>3. QED BY <1>1, <1>2, HandMoves, RowUnchangedKeepsIInv DEF tables, vars

LEMMA FreeFits == Fits(Free)
  BY DEF Fits, Free, HandContext, HAND_POINTS

LEMMA EnteringKeeps ==
  ASSUME DeliveryInv, IInv, NEW h \in Hands, HandEnters(h)
  PROVE  DeliveryInv' /\ IInv'
  <1> DEFINE entry(at, o, k, to, sees) ==
               [at |-> at, order |-> o, courier |-> k, to |-> to, sees |-> sees, code |-> 0]
  <1>1. ASSUME NEW at \in {"assign", "update", "issue", "verify", "override"},
               NEW o \in Orders, NEW k \in Couriers \cup {NoCourier},
               NEW to \in DELIVERY_STATUSES \cup {"NONE"},
               NEW sees \in DELIVERY_STATUSES \cup ORDER_STATUSES \cup {"NONE"},
               at = "update" => to \in COURIER_SETTABLE,
               Enters(h, at, o, k, to, sees), UNCHANGED <<vars, tables>>
        PROVE  DeliveryInv' /\ IInv'
    <2>1. Fits(entry(at, o, k, to, sees))
      BY <1>1 DEF Fits, HandContext, HAND_POINTS
    <2>2. hand' = [hand EXCEPT ![h] = entry(at, o, k, to, sees)]
      BY <1>1 DEF Enters
    <2>3. QED BY <1>1, <2>1, <2>2, HandReads
  <1> HIDE DEF entry
  <1>2. ASSUME NEW o \in Orders
        PROVE  /\ status[o] \in ORDER_STATUSES
               /\ delivery[o].status \in DELIVERY_STATUSES \cup {"NONE"}
    BY DEF DeliveryInv, DeliveryTypeOK, IInv, TypeOK
  <1>3. ASSUME NEW o \in Orders, Resend(h, o) \/ ManagerCloses(h, o)
        PROVE  DeliveryInv' /\ IInv'
    <2>1. CASE Resend(h, o)
      BY <1>1, <2>1 DEF Resend
    <2>2. CASE ManagerCloses(h, o)
      BY <1>1, <1>2, <2>2 DEF ManagerCloses
    <2>3. QED BY <1>3, <2>1, <2>2
  <1>4. ASSUME NEW o \in Orders, NEW k \in Couriers, Assign(h, o, k) \/ Verify(h, o, k)
        PROVE  DeliveryInv' /\ IInv'
    <2>1. CASE Assign(h, o, k)
      BY <1>1, <1>2, <2>1 DEF Assign
    <2>2. CASE Verify(h, o, k)
      BY <1>1, <2>2 DEF Verify
    <2>3. QED BY <1>4, <2>1, <2>2
  <1>5. ASSUME NEW o \in Orders, NEW k \in Couriers, NEW s \in DELIVERY_STATUSES,
               CourierUpdate(h, o, k, s)
        PROVE  DeliveryInv' /\ IInv'
    BY <1>1, <1>5 DEF CourierUpdate
  <1>6. QED BY <1>3, <1>4, <1>5 DEF HandEnters

\* The handlers that only read, and the one that stops.
LEMMA ReadingKeeps ==
  ASSUME DeliveryInv, IInv, NEW h \in Hands,
         \/ UpdateReads(h) \/ IssueInvalidates(h) \/ VerifyReads(h) \/ CloseReads(h)
         \/ HandAbandons(h)
  PROVE  DeliveryInv' /\ IInv'
  <1> DEFINE o == hand[h].order
  <1>0. hand[h] \in HandContext /\ (hand[h].at # "idle" => o \in Orders)
    BY DEF DeliveryInv, DeliveryTypeOK, HandsOK
  <1>1. CASE UpdateReads(h)
    <2> DEFINE c == [hand[h] EXCEPT !.at = "updateCommit", !.sees = status[o]]
    <2>1. hand' = [hand EXCEPT ![h] = c] /\ UNCHANGED <<vars, tables>>
      BY <1>1, <1>0 DEF UpdateReads, DeliveryInv, DeliveryTypeOK, HandContext
    <2>2. Fits(c)
      BY <1>0, <1>1 DEF UpdateReads, Fits, HandContext, HAND_POINTS, DeliveryInv, HandsOK, IInv, TypeOK
    <2> HIDE DEF c
    <2>3. QED BY <2>1, <2>2, HandReads
  <1>2. CASE IssueInvalidates(h)
    <2> DEFINE c == [hand[h] EXCEPT !.at = "issueCommit", !.code = Len(otp[o])]
    <2>0. o \in Orders /\ otp[o] \in Seq(Code)
      BY <1>0, <1>2 DEF IssueInvalidates, DeliveryInv, DeliveryTypeOK
    <2>1. hand' = [hand EXCEPT ![h] = c] /\ UNCHANGED <<vars, tables>>
      BY <1>0, <1>2 DEF IssueInvalidates, DeliveryInv, DeliveryTypeOK, HandContext
    <2>2. Len(otp[o]) \in Nat
      BY <2>0
    <2>3. Fits(c)
      BY <1>0, <2>0, <2>2 DEF Fits, HandContext, HAND_POINTS
    <2> HIDE DEF c
    <2>4. QED BY <2>1, <2>3, HandReads
  <1>3. CASE VerifyReads(h)
    <2> DEFINE i == LatestActive(o)
    <2>0. /\ o \in Orders
          /\ ActiveCodes(o) # {}
          /\ otp[o][i].attempts < MaxAttempts
          /\ UNCHANGED <<vars, tables>>
      BY <1>0, <1>3 DEF VerifyReads
    <2>1. PICK point \in {"consume", "countFailure"} :
             hand' = [hand EXCEPT ![h].at = point, ![h].code = i]
      BY <1>3 DEF VerifyReads
    <2> DEFINE c == [hand[h] EXCEPT !.at = point, !.code = i]
    <2>2. hand' = [hand EXCEPT ![h] = c]
      BY <1>0, <2>1 DEF DeliveryInv, DeliveryTypeOK, HandContext
    <2>3. i \in DOMAIN otp[o] /\ i \in Nat
      <3>1. Len(otp[o]) \in Nat /\ DOMAIN otp[o] = 1 .. Len(otp[o])
        BY <2>0 DEF DeliveryInv, DeliveryTypeOK
      <3>2. ActiveCodes(o) \in SUBSET (1 .. Len(otp[o]))
        BY <3>1 DEF ActiveCodes
      <3>3. \E j \in ActiveCodes(o) : \A k \in ActiveCodes(o) : k <= j
        BY <2>0, <3>1, <3>2, LastIsThere
      <3>4. i \in ActiveCodes(o)
        BY <3>3 DEF LatestActive
      <3>5. QED BY <3>1, <3>2, <3>4
    <2> HIDE DEF i
    <2>4. Fits(c)
      BY <1>0, <2>0, <2>1, <2>3 DEF Fits, HandContext, HAND_POINTS, tables
    <2> HIDE DEF c
    <2>5. QED BY <2>0, <2>2, <2>4, HandReads
  <1>4. CASE CloseReads(h)
    <2> DEFINE c == [hand[h] EXCEPT !.at = "closeCommit", !.sees = status[o]]
    <2>1. hand' = [hand EXCEPT ![h] = c] /\ UNCHANGED <<vars, tables>>
      BY <1>0, <1>4 DEF CloseReads, DeliveryInv, DeliveryTypeOK, HandContext
    <2>2. UsedCodes(o) # {} /\ o \in Orders /\ status[o] \in ORDER_STATUSES
      BY <1>0, <1>4 DEF CloseReads, DeliveryInv, ClosuresOK, IInv, TypeOK
    <2>3. Fits(c)
      BY <1>0, <2>2 DEF Fits, HandContext, HAND_POINTS
    <2> HIDE DEF c
    <2>4. QED BY <2>1, <2>3, HandReads
  <1>5. CASE HandAbandons(h)
    BY <1>5, FreeFits, HandReads DEF HandAbandons, Leaves
  <1>6. QED BY <1>1, <1>2, <1>3, <1>4, <1>5

-----------------------------------------------------------------------------
(* The writes of the run.                                                   *)

\* What an order row becomes when it follows its run.
LEMMA FollowsKeeps ==
  ASSUME IInv, NEW o \in Orders, NEW s \in ORDER_STATUSES \ {"CANCELLED"}, NEW seen,
         orderFollows(o, s, seen), UNCHANGED <<reservation, req>>
  PROVE  /\ IInv'
         /\ \A x \in Orders : status'[x] = status[x] \/ (x = o /\ status'[x] = s)
  <1>1. CASE updateStatusOf(o, s)
    BY <1>1, UpdateKeepsIInv DEF updateStatusOf, IInv, TypeOK
  <1>2. CASE UNCHANGED <<status, returned, revived>>
    BY <1>2, RowUnchangedKeepsIInv DEF vars
  <1>3. QED BY <1>1, <1>2 DEF orderFollows

LEMMA MovesFits ==
  ASSUME DeliveryInv, NEW h \in Hands, NEW at, Moves(h, at)
  PROVE  hand' = [hand EXCEPT ![h] = [hand[h] EXCEPT !.at = at]]
  BY DEF DeliveryInv, DeliveryTypeOK, HandContext, Moves

LEMMA WritingKeeps ==
  ASSUME DeliveryInv, IInv, NEW h \in Hands,
         \/ AssignClaim(h) \/ UpdateCommits(h) \/ IssueCommits(h)
         \/ CloseCommits(h) \/ OverrideCommits(h) \/ Finalise(h)
  PROVE  DeliveryInv' /\ IInv'
  <1> DEFINE o == hand[h].order
  <1>0. hand[h] \in HandContext /\ (hand[h].at # "idle" => o \in Orders) /\ DeliveryTypeOK
    BY DEF DeliveryInv, DeliveryTypeOK, HandsOK
  <1>1. CASE AssignClaim(h)
    <2>0. /\ hand' = [hand EXCEPT ![h] = Free] /\ UNCHANGED <<vars, closureMode, otp, accepted>>
          /\ delivery' = [delivery EXCEPT ![o] = [status |-> "ASSIGNED", courier |-> hand[h].courier]]
      BY <1>1 DEF AssignClaim, Leaves
    <2>1. CodesKept
      BY <1>0, <2>0, CodesStay
    <2>2. RunKept
      BY <1>0, <2>0 DEF RunKept, vars, DeliveryTypeOK, HandContext, DELIVERY_STATUSES
    <2>3. QED BY <2>0, <2>1, <2>2, FreeFits, HandMoves, RowUnchangedKeepsIInv DEF vars
  <1>2. CASE UpdateCommits(h)
    <2> DEFINE s == hand[h].to
    <2>0. /\ o \in Orders /\ s \in COURIER_SETTABLE
          /\ delivery' = [delivery EXCEPT ![o].status = s]
          /\ UNCHANGED <<reservation, req, closureMode, otp, accepted>>
      BY <1>0, <1>2 DEF UpdateCommits, DeliveryInv, HandsOK
    <2>1. IInv' /\ \A x \in Orders : status'[x] = "DELIVERED" => status[x] = "DELIVERED"
      <3>1. ORDER_STATUS_FOR_DELIVERY(s) \in SUBSET {"OUT_FOR_DELIVERY", "READY"}
        BY <2>0 DEF ORDER_STATUS_FOR_DELIVERY, COURIER_SETTABLE
      <3>2. CASE UNCHANGED <<status, returned, revived>>
        BY <2>0, <3>2, RowUnchangedKeepsIInv DEF vars
      <3>3. CASE \E next \in ORDER_STATUS_FOR_DELIVERY(s) : orderFollows(o, next, hand[h].sees)
        <4>1. PICK next \in {"OUT_FOR_DELIVERY", "READY"} : orderFollows(o, next, hand[h].sees)
          BY <3>1, <3>3
        <4>2. next \in ORDER_STATUSES \ {"CANCELLED"} /\ next # "DELIVERED"
          BY DEF ORDER_STATUSES
        <4>3. QED BY <2>0, <4>1, <4>2, FollowsKeeps
      <3>4. QED BY <1>2, <3>2, <3>3 DEF UpdateCommits
    <2>2. CodesKept
      BY <1>0, <2>0, CodesStay
    <2>3. RunKept
      <3>1. s \in DELIVERY_STATUSES
        BY <2>0 DEF COURIER_SETTABLE, DELIVERY_STATUSES
      <3>2. QED BY <1>0, <2>0, <2>1, <3>1 DEF RunKept, DeliveryTypeOK
    <2>4. CASE Moves(h, "issue")
      <3> DEFINE c == [hand[h] EXCEPT !.at = "issue"]
      <3>1. hand' = [hand EXCEPT ![h] = c]
        BY <2>4, MovesFits
      <3>2. Fits(c)
        BY <1>0, <2>0 DEF Fits, HandContext, HAND_POINTS
      <3> HIDE DEF c
      <3>3. QED BY <2>0, <2>1, <2>2, <2>3, <3>1, <3>2, HandMoves
    <2>5. CASE Leaves(h)
      BY <2>0, <2>1, <2>2, <2>3, <2>5, FreeFits, HandMoves DEF Leaves
    <2>6. QED BY <1>2, <2>4, <2>5 DEF UpdateCommits
  <1>3. CASE IssueCommits(h)
    <2>0. /\ o \in Orders /\ hand[h].code \in Nat
          /\ hand' = [hand EXCEPT ![h] = Free] /\ UNCHANGED <<vars, delivery, closureMode, accepted>>
          /\ otp' = [otp EXCEPT ![o] =
                       Append([i \in DOMAIN @ |-> IF i <= hand[h].code THEN Invalidated(@[i]) ELSE @[i]],
                              NewCode)]
      BY <1>0, <1>3 DEF IssueCommits, Leaves, HandContext
    <2>1. CodesKept
      BY <1>0, <2>0, IssueKeepsCodes
    <2>2. RunKept
      BY <1>0, <2>0 DEF RunKept, vars, DeliveryTypeOK
    <2>3. QED BY <2>0, <2>1, <2>2, FreeFits, HandMoves, RowUnchangedKeepsIInv DEF vars
  <1>4. CASE CloseCommits(h)
    <2>0. /\ o \in Orders /\ UsedCodes(o) # {}
          /\ delivery' = [delivery EXCEPT ![o].status = "DELIVERED"]
          /\ closureMode' = [closureMode EXCEPT ![o] = "CLIENT_OTP"]
          /\ orderFollows(o, "DELIVERED", hand[h].sees)
          /\ Moves(h, "finalise")
          /\ UNCHANGED <<reservation, req, otp, accepted>>
      BY <1>0, <1>4 DEF CloseCommits, DeliveryInv, ClosuresOK
    <2>1. IInv' /\ \A x \in Orders : x # o => status'[x] = status[x]
      BY <2>0, FollowsKeeps DEF ORDER_STATUSES
    <2>2. CodesKept
      BY <1>0, <2>0, CodesStay
    <2>3. RunKept
      BY <1>0, <2>0, <2>1 DEF RunKept, DeliveryTypeOK, DELIVERY_STATUSES
    <2> DEFINE c == [hand[h] EXCEPT !.at = "finalise"]
    <2>4. hand' = [hand EXCEPT ![h] = c]
      BY <2>0, MovesFits
    <2>5. Fits(c)
      BY <1>0, <2>0 DEF Fits, HandContext, HAND_POINTS, DeliveryTypeOK
    <2> HIDE DEF c
    <2>6. QED BY <2>0, <2>1, <2>2, <2>3, <2>4, <2>5, HandMoves
  <1>5. CASE OverrideCommits(h)
    <2>0. /\ o \in Orders
          /\ otp' = [otp EXCEPT ![o] = [i \in DOMAIN @ |-> Invalidated(@[i])]]
          /\ delivery' = [delivery EXCEPT ![o].status = "DELIVERED"]
          /\ closureMode' = [closureMode EXCEPT ![o] = "MANAGER_OVERRIDE"]
          /\ orderFollows(o, "DELIVERED", hand[h].sees)
          /\ Moves(h, "finalise")
          /\ UNCHANGED <<reservation, req, accepted>>
      BY <1>0, <1>5 DEF OverrideCommits
    <2>1. IInv' /\ \A x \in Orders : x # o => status'[x] = status[x]
      BY <2>0, FollowsKeeps DEF ORDER_STATUSES
    <2>2. CodesKept
      BY <1>0, <2>0, OverrideKeepsCodes
    <2>3. RunKept
      BY <1>0, <2>0, <2>1 DEF RunKept, DeliveryTypeOK, DELIVERY_STATUSES
    <2> DEFINE c == [hand[h] EXCEPT !.at = "finalise"]
    <2>4. hand' = [hand EXCEPT ![h] = c]
      BY <2>0, MovesFits
    <2>5. Fits(c)
      BY <1>0, <2>0 DEF Fits, HandContext, HAND_POINTS, DeliveryTypeOK
    <2> HIDE DEF c
    <2>6. QED BY <2>0, <2>1, <2>2, <2>3, <2>4, <2>5, HandMoves
  <1>6. CASE Finalise(h)
    <2>0. /\ o \in Orders /\ closureMode[o] # "NONE"
          /\ hand' = [hand EXCEPT ![h] = Free]
          /\ siteFinaliser(o) \/ UNCHANGED reservation
          /\ UNCHANGED <<status, returned, revived, req, delivery, closureMode, otp, accepted>>
      BY <1>0, <1>6 DEF Finalise, Leaves, tables, DeliveryInv, ClosuresOK
    <2>1. /\ reservation' \in [Orders -> RESERVATION_STATES]
          /\ \A x \in Orders : reservation'[x] = reservation[x] \/ (x = o /\ reservation'[x] = "FINALISED")
      BY <2>0 DEF siteFinaliser, IInv, TypeOK, RESERVATION_STATES
    <2>2. IInv'
      BY <2>0, <2>1 DEF IInv, TypeOK, ContextsOK, StockReturnedOncePerCancellation, Cancellations,
                        ReleaseFollowsCancellation
    <2>3. CodesKept
      BY <1>0, <2>0, CodesStay
    <2>4. RunKept
      BY <1>0, <2>0, <2>1 DEF RunKept, DeliveryTypeOK
    <2>5. QED BY <2>0, <2>2, <2>3, <2>4, FreeFits, HandMoves
  <1>7. QED BY <1>1, <1>2, <1>3, <1>4, <1>5, <1>6

-----------------------------------------------------------------------------
(* The two steps that count a failure and use a code.                       *)

LEMMA OneCodeChanges ==
  ASSUME DeliveryTypeOK, NEW o \in Orders, NEW i \in DOMAIN otp[o], NEW c \in Code,
         otp' = [otp EXCEPT ![o] = [otp[o] EXCEPT ![i] = c]]
  PROVE  /\ otp' \in [Orders -> Seq(Code)]
         /\ \A x \in Orders : DOMAIN otp'[x] = DOMAIN otp[x]
         /\ otp'[o][i] = c
         /\ \A x \in Orders : \A j \in DOMAIN otp[x] :
              (x # o \/ j # i) => otp'[x][j] = otp[x][j]
  <1>1. /\ otp[o] \in Seq(Code)
        /\ Len(otp[o]) \in Nat
        /\ DOMAIN otp[o] = 1 .. Len(otp[o])
        /\ \A j \in DOMAIN otp[o] : otp[o][j] \in Code
    BY DEF DeliveryTypeOK
  <1> DEFINE t == [otp[o] EXCEPT ![i] = c]
  <1>2. t \in [1 .. Len(otp[o]) -> Code]
    BY <1>1
  <1>3. /\ t \in Seq(Code) /\ DOMAIN t = DOMAIN otp[o] /\ t[i] = c
        /\ \A j \in DOMAIN otp[o] : j # i => t[j] = otp[o][j]
    BY <1>1, <1>2
  <1> HIDE DEF t
  <1>4. otp' = [otp EXCEPT ![o] = t]
    BY DEF t
  <1>5. QED BY <1>3, <1>4 DEF DeliveryTypeOK

LEMMA CountingKeeps ==
  ASSUME DeliveryInv, IInv, NEW h \in Hands, CountFailure(h)
  PROVE  DeliveryInv' /\ IInv'
  <1> DEFINE o == hand[h].order
             i == hand[h].code
             c == [otp[o][i] EXCEPT !.attempts = @ + 1]
  <1>0. /\ DeliveryTypeOK /\ HandsOK /\ ClosuresOK /\ TargetsOK /\ CountsOK
        /\ DeliveredOnlyByCodeOrManager
    BY DEF DeliveryInv
  <1>1. /\ hand[h].at = "countFailure" /\ o \in Orders /\ i \in DOMAIN otp[o]
        /\ hand[h] \in HandContext
    BY <1>0 DEF CountFailure, HandsOK, DeliveryTypeOK
  <1>2. otp[o][i] \in Code
    BY <1>0, <1>1, CodesAreTyped
  <1>3. c \in Code /\ c.state = otp[o][i].state /\ c.attempts = otp[o][i].attempts + 1
    BY <1>2 DEF Code
  <1>4. otp' = [otp EXCEPT ![o] = [otp[o] EXCEPT ![i] = c]]
    BY <1>2, <1>1, <1>0 DEF CountFailure, DeliveryTypeOK, Code
  <1>5. /\ hand' = [hand EXCEPT ![h] = Free]
        /\ UNCHANGED <<vars, delivery, closureMode, accepted>>
    BY DEF CountFailure, Leaves
  <1> HIDE DEF c, o, i
  <1>6. /\ otp' \in [Orders -> Seq(Code)]
        /\ \A x \in Orders : DOMAIN otp'[x] = DOMAIN otp[x]
        /\ otp'[o][i] = c
        /\ \A x \in Orders : \A j \in DOMAIN otp[x] :
             (x # o \/ j # i) => otp'[x][j] = otp[x][j]
    BY <1>0, <1>1, <1>3, <1>4, OneCodeChanges
  <1>7. /\ Free \in HandContext /\ hand'[h] = Free
        /\ \A g \in Hands : g # h => hand'[g] = hand[g]
    BY <1>0, <1>5 DEF DeliveryTypeOK, Free, HandContext, HAND_POINTS
  <1>8. DeliveryTypeOK'
    BY <1>0, <1>5, <1>6, <1>7 DEF DeliveryTypeOK
  <1>9. \A x \in Orders : UsedCodes(x)' = UsedCodes(x)
    BY <1>3, <1>6 DEF UsedCodes
  <1>10. HandsOK'
    BY <1>0, <1>6, <1>7 DEF HandsOK, Free
  <1>11. ClosuresOK'
    BY <1>0, <1>5, <1>7, <1>9 DEF ClosuresOK, HandsOK, Free
  <1>12. TargetsOK' /\ DeliveredOnlyByCodeOrManager'
    BY <1>0, <1>5, <1>9 DEF TargetsOK, DeliveredOnlyByCodeOrManager, vars
  <1>13. \A x \in Orders : accepted'[x] = Cardinality(UsedCodes(x)')
    BY <1>0, <1>5, <1>9 DEF CountsOK
  <1>14. ASSUME NEW x \in Orders, NEW j \in DOMAIN otp'[x]
         PROVE  otp'[x][j].attempts + Cardinality(Failing(x, j)')
                  <= MaxAttempts + Cardinality(Hands) - 1
    <2>0. j \in DOMAIN otp[x]
      BY <1>6
    <2>1. /\ otp[x][j].attempts + Cardinality(Failing(x, j)) <= MaxAttempts + Cardinality(Hands) - 1
          /\ otp[x][j].attempts \in Nat /\ Cardinality(Hands) \in Nat /\ MaxAttempts \in Nat
          /\ Cardinality(Failing(x, j)) \in Nat /\ IsFiniteSet(Failing(x, j))
      BY <1>0, <2>0, CodesAreTyped, FailingAreCounted, SomebodyIsCounted, MaxAttemptsAssumption
         DEF CountsOK, Code
    <2>2. CASE x = o /\ j = i
      <3>1. h \in Failing(x, j) /\ Failing(x, j)' = Failing(x, j) \ {h}
        BY <1>1, <1>7, <2>2 DEF Failing, Free, o, i
      <3>2. Cardinality(Failing(x, j)') = Cardinality(Failing(x, j)) - 1
        BY <2>1, <3>1, FS_RemoveElement
      <3>3. otp'[x][j].attempts = otp[x][j].attempts + 1
        BY <1>3, <1>6, <2>2
      <3>4. QED BY <2>1, <3>2, <3>3
    <2>3. CASE ~ (x = o /\ j = i)
      <3>1. Failing(x, j)' = Failing(x, j)
        BY <1>1, <1>7, <2>3 DEF Failing, Free, o, i
      <3>2. otp'[x][j] = otp[x][j]
        BY <1>6, <2>0, <2>3
      <3>3. QED BY <2>1, <3>1, <3>2
    <2>4. QED BY <2>2, <2>3
  <1>15. CountsOK'
    BY <1>13, <1>14 DEF CountsOK
  <1>16. IInv'
    BY <1>5, RowUnchangedKeepsIInv
  <1>17. QED BY <1>8, <1>10, <1>11, <1>12, <1>15, <1>16 DEF DeliveryInv

\* The conditional update uses one code more, which counts one acceptance more.
LEMMA ConsumingKeeps ==
  ASSUME DeliveryInv, IInv, NEW h \in Hands, Consume(h)
  PROVE  DeliveryInv' /\ IInv'
  <1>a. PICK o, i : o = hand[h].order /\ i = hand[h].code
    OBVIOUS
  <1> DEFINE c == [otp[o][i] EXCEPT !.state = "USED"]
  <1>0. /\ DeliveryTypeOK /\ HandsOK /\ ClosuresOK /\ TargetsOK /\ CountsOK
        /\ DeliveredOnlyByCodeOrManager
    BY DEF DeliveryInv
  <1>1. /\ hand[h].at = "consume" /\ o \in Orders /\ i \in DOMAIN otp[o]
        /\ hand[h] \in HandContext /\ otp[o][i].state = "ACTIVE"
    BY <1>a, <1>0 DEF Consume, HandsOK, DeliveryTypeOK
  <1>2. otp[o][i] \in Code
    BY <1>0, <1>1, CodesAreTyped
  <1>3. c \in Code /\ c.state = "USED" /\ c.attempts = otp[o][i].attempts
    BY <1>2 DEF Code
  <1>4. otp' = [otp EXCEPT ![o] = [otp[o] EXCEPT ![i] = c]]
    BY <1>a, <1>2, <1>1, <1>0 DEF Consume, DeliveryTypeOK, Code
  <1>5. /\ hand' = [hand EXCEPT ![h] = [hand[h] EXCEPT !.at = "close"]]
        /\ accepted' = [accepted EXCEPT ![o] = @ + 1]
        /\ UNCHANGED <<vars, delivery, closureMode>>
    BY <1>a, MovesFits DEF Consume
  <1>6. /\ hand'[h].at = "close" /\ hand'[h].order = o /\ hand'[h] \in HandContext
        /\ \A g \in Hands : g # h => hand'[g] = hand[g]
    BY <1>a, <1>0, <1>1, <1>5 DEF DeliveryTypeOK, HandContext, HAND_POINTS
  <1> HIDE DEF c
  <1>7. /\ otp' \in [Orders -> Seq(Code)]
        /\ \A x \in Orders : DOMAIN otp'[x] = DOMAIN otp[x]
        /\ otp'[o][i] = c
        /\ \A x \in Orders : \A j \in DOMAIN otp[x] :
             (x # o \/ j # i) => otp'[x][j] = otp[x][j]
    BY <1>0, <1>1, <1>3, <1>4, OneCodeChanges
  <1>8. DeliveryTypeOK'
    <2>1. hand' \in [Hands -> HandContext]
      BY <1>0, <1>5, <1>6 DEF DeliveryTypeOK
    <2>2. accepted' \in [Orders -> Nat]
      BY <1>0, <1>1, <1>5 DEF DeliveryTypeOK
    <2>3. QED BY <1>0, <1>5, <1>7, <2>1, <2>2 DEF DeliveryTypeOK
  <1>9. i \notin UsedCodes(o) /\ UsedCodes(o)' = UsedCodes(o) \cup {i}
    <2>1. i \notin UsedCodes(o)
      BY <1>1 DEF UsedCodes
    <2>2. ASSUME NEW j \in DOMAIN otp[o]
          PROVE  otp'[o][j].state = "USED" <=> otp[o][j].state = "USED" \/ j = i
      BY <1>1, <1>3, <1>7
    <2>3. DOMAIN otp'[o] = DOMAIN otp[o]
      BY <1>1, <1>7
    <2>4. QED BY <1>1, <2>1, <2>2, <2>3 DEF UsedCodes
  <1>10. \A x \in Orders : x # o => UsedCodes(x)' = UsedCodes(x)
    BY <1>7 DEF UsedCodes
  <1>11. HandsOK'
    BY <1>0, <1>1, <1>6, <1>7 DEF HandsOK
  <1>12. ClosuresOK'
    <2>1. \A x \in Orders : UsedCodes(x) # {} => UsedCodes(x)' # {}
      BY <1>9, <1>10
    <2>2. UsedCodes(o)' # {}
      BY <1>9
    <2>3. ASSUME NEW g \in Hands, hand'[g].at \in {"close", "closeCommit"}
          PROVE  UsedCodes(hand[g].order)' # {}
      <3>1. CASE g = h
        BY <1>6, <2>2, <3>1
      <3>2. CASE g # h
        BY <1>0, <1>6, <2>1, <2>3, <3>2 DEF ClosuresOK, HandsOK
      <3>3. QED BY <3>1, <3>2
    <2>4. ASSUME NEW g \in Hands, hand'[g].at = "finalise"
          PROVE  closureMode'[hand'[g].order] # "NONE"
      BY <1>0, <1>5, <1>6, <2>4 DEF ClosuresOK
    <2>5. QED BY <2>3, <2>4 DEF ClosuresOK
  <1>13. TargetsOK' /\ DeliveredOnlyByCodeOrManager'
    BY <1>0, <1>1, <1>5, <1>9, <1>10 DEF TargetsOK, DeliveredOnlyByCodeOrManager, vars
  <1>14. \A x \in Orders : accepted'[x] = Cardinality(UsedCodes(x)')
    <2>1. Cardinality(UsedCodes(o)') = Cardinality(UsedCodes(o)) + 1
      BY <1>0, <1>1, <1>9, UsedAreFinite, FS_AddElement
    <2>2. accepted'[o] = accepted[o] + 1 /\ \A x \in Orders : x # o => accepted'[x] = accepted[x]
      BY <1>0, <1>1, <1>5 DEF DeliveryTypeOK
    <2>3. \A x \in Orders : accepted[x] = Cardinality(UsedCodes(x))
      BY <1>0 DEF CountsOK
    <2>4. ASSUME NEW x \in Orders PROVE accepted'[x] = Cardinality(UsedCodes(x)')
      <3>1. CASE x = o
        BY <1>1, <2>1, <2>2, <2>3, <3>1
      <3>2. CASE x # o
        BY <1>10, <2>2, <2>3, <3>2
      <3>3. QED BY <3>1, <3>2
    <2>5. QED BY <2>4
  <1>15. ASSUME NEW x \in Orders, NEW j \in DOMAIN otp'[x]
         PROVE  otp'[x][j].attempts + Cardinality(Failing(x, j)')
                  <= MaxAttempts + Cardinality(Hands) - 1
    <2>0. j \in DOMAIN otp[x]
      BY <1>7
    <2>1. Failing(x, j)' = Failing(x, j)
      BY <1>a, <1>1, <1>6 DEF Failing
    <2>2. otp'[x][j].attempts = otp[x][j].attempts
      BY <1>3, <1>7, <2>0
    <2>3. QED BY <1>0, <2>0, <2>1, <2>2 DEF CountsOK
  <1>16. CountsOK'
    BY <1>14, <1>15 DEF CountsOK
  <1>17. IInv'
    BY <1>5, RowUnchangedKeepsIInv
  <1>18. QED BY <1>8, <1>11, <1>12, <1>13, <1>16, <1>17 DEF DeliveryInv

-----------------------------------------------------------------------------
(* The theorems.                                                           *)

LEMMA DeliveryStepOK ==
  ASSUME DeliveryInv, IInv, [DeliveryNext]_deliveryVars PROVE DeliveryInv' /\ IInv'
  <1>1. CASE Next /\ UNCHANGED runVars
    BY <1>1, RequestStep, StepIInv
  <1>2. CASE \E h \in Hands : HandEnters(h) \/ HandStep(h) \/ HandAbandons(h)
    <2>1. PICK h \in Hands : HandEnters(h) \/ HandStep(h) \/ HandAbandons(h)
      BY <1>2
    <2>2. QED BY <2>1, EnteringKeeps, ReadingKeeps, WritingKeeps, CountingKeeps, ConsumingKeeps
              DEF HandStep
  <1>3. CASE UNCHANGED deliveryVars
    <2>1. UNCHANGED <<vars, runVars>>
      BY <1>3 DEF deliveryVars
    <2>2. IInv'
      BY <2>1, RowUnchangedKeepsIInv
    <2>3. \A o \in Orders : UsedCodes(o)' = UsedCodes(o) /\ \A i : Failing(o, i)' = Failing(o, i)
      BY <2>1 DEF UsedCodes, Failing, runVars
    <2>4. DeliveryTypeOK' /\ HandsOK' /\ TargetsOK'
      BY <2>1 DEF DeliveryInv, DeliveryTypeOK, HandsOK, TargetsOK, runVars, vars
    <2>5. ClosuresOK' /\ CountsOK' /\ DeliveredOnlyByCodeOrManager'
      BY <2>1, <2>3 DEF DeliveryInv, HandsOK, ClosuresOK, CountsOK, DeliveredOnlyByCodeOrManager,
                        runVars, vars
    <2>6. QED BY <2>2, <2>4, <2>5 DEF DeliveryInv
  <1>4. QED BY <1>1, <1>2, <1>3 DEF DeliveryNext

LEMMA DeliveryInvHolds == DeliverySpec => [](DeliveryInv /\ IInv)
  <1>1. DeliveryInit => DeliveryInv /\ IInv
    BY DeliveryInitOK
  <1>2. (DeliveryInv /\ IInv) /\ [DeliveryNext]_deliveryVars => (DeliveryInv /\ IInv)'
    BY DeliveryStepOK
  <1>3. QED BY <1>1, <1>2, PTL DEF DeliverySpec

\* The tables and the contexts of the handlers keep their types, a handler
\* that compares or counts digits included: the code it names exists.
THEOREM DeliveryTypeCorrectness == DeliverySpec => [](DeliveryTypeOK /\ HandsOK)
  BY DeliveryInvHolds, PTL DEF DeliveryInv

\* Whatever the couriers send and in whatever order the transactions commit,
\* an order becomes DELIVERED, and its reservation FINALISED, only once the
\* run was closed by a code of the order or by the office.
THEOREM DeliveryNeedsCodeOrManager == DeliverySpec => []DeliveredOnlyByCodeOrManager
  BY DeliveryInvHolds, PTL DEF DeliveryInv

LEMMA CountsBoundAttempts == ASSUME DeliveryInv PROVE CodesHoldTheirLimits
  <1>1. ASSUME NEW o \in Orders, NEW i \in DOMAIN otp[o]
        PROVE  otp[o][i].attempts <= MaxAttempts + (Cardinality(Hands) - 1)
    <2>1. otp[o][i].attempts + Cardinality(Failing(o, i)) <= MaxAttempts + Cardinality(Hands) - 1
      BY DEF DeliveryInv, CountsOK
    <2>2. otp[o][i].attempts \in Nat /\ Cardinality(Failing(o, i)) \in Nat
      BY CodesAreTyped, FailingAreCounted DEF DeliveryInv, Code
    <2>3. Cardinality(Hands) \in Nat /\ MaxAttempts \in Nat
      BY HandsAssumption, FS_CardinalityType, MaxAttemptsAssumption
    <2>4. QED BY <2>1, <2>2, <2>3
  <1>2. QED BY <1>1 DEF CodesHoldTheirLimits, DeliveryInv, CountsOK

\* Every positive verification used a code of its own, and the failures of a
\* code pass the limit by at most one for each other handler of the service.
THEOREM CodesAreBounded == DeliverySpec => []CodesHoldTheirLimits
  BY DeliveryInvHolds, CountsBoundAttempts, PTL

\* The writes of the couriers and of the office to the order row keep the
\* promise of its cancellations: the stock comes back once for each of them.
THEOREM DeliveriesKeepTheStock == DeliverySpec => []StockReturnedOncePerCancellation
  BY DeliveryInvHolds, PTL DEF IInv

-----------------------------------------------------------------------------
(* Direct payments.                                                        *)

\* A request that is being served names a reference already normalised, and,
\* when it decides a declaration, one of the order it decides for.
DesksOK ==
  \A d \in Desks :
    desk[d].at # "idle" =>
      /\ desk[d].order \in Orders
      /\ desk[d].reference \in Spellings
      /\ Transfer[desk[d].reference] = desk[d].reference
      /\ desk[d].at # "declareTxn" =>
           declaration[desk[d].reference].order = desk[d].order

\* References are stored normalised.
StoredNormalised ==
  \A k \in Spellings : declaration[k] # NoDeclaration => Transfer[k] = k

DInv ==
  /\ DirectTypeOK
  /\ DesksOK
  /\ StoredNormalised
  /\ SuccessHasItsDeclaration
  /\ WaitingPaymentIsQueued
  /\ ConfirmedOncePerOpening

LEMMA DirectInitOK == DirectInit => DInv /\ IInv
  <1> SUFFICES ASSUME DirectInit PROVE DInv /\ IInv
    OBVIOUS
  <1>1. IInv
    BY NoOrderAssumption
    DEF DirectInit, IInv, TypeOK, Context, Idle, ORDER_STATUSES, RESERVATION_STATES, ContextsOK,
        StockReturnedOncePerCancellation, Cancellations, ReleaseFollowsCancellation
  <1>2. DirectTypeOK
    BY NoReferenceAssumption
    DEF DirectInit, DirectTypeOK, PAYMENT_STATUSES, DeskContext, DeskIdle
  <1>3. DesksOK /\ StoredNormalised
    BY DEF DirectInit, DesksOK, StoredNormalised, DeskIdle
  <1>4. SuccessHasItsDeclaration /\ WaitingPaymentIsQueued /\ ConfirmedOncePerOpening
    BY DEF DirectInit, SuccessHasItsDeclaration, WaitingPaymentIsQueued, ConfirmedOncePerOpening,
           AWAITING_REVIEW
  <1>5. QED BY <1>1, <1>2, <1>3, <1>4 DEF DInv

-----------------------------------------------------------------------------
\* A request that starts or ends writes nothing but its own context.
LEMMA DeskMoveKeepsDInv ==
  ASSUME DInv, NEW d \in Desks, UNCHANGED <<payment, declaration, confirmed, reopened>>,
         \/ desk' = [desk EXCEPT ![d] = DeskIdle]
         \/ \E c \in DeskContext :
              /\ desk' = [desk EXCEPT ![d] = c]
              /\ c.order \in Orders /\ c.reference \in Spellings
              /\ Transfer[c.reference] = c.reference
              /\ c.at # "declareTxn" => declaration[c.reference].order = c.order
  PROVE  DInv'
  <1> USE DEF DInv
  <1>0. DeskIdle \in DeskContext
    BY DEF DeskIdle, DeskContext
  <1>1. DirectTypeOK'
    <2>1. desk' \in [Desks -> DeskContext]
      BY <1>0 DEF DirectTypeOK
    <2>2. QED BY <2>1 DEF DirectTypeOK
  <1>2. DesksOK'
    BY DEF DesksOK, DirectTypeOK, DeskIdle
  <1>3. (StoredNormalised /\ SuccessHasItsDeclaration /\ WaitingPaymentIsQueued
           /\ ConfirmedOncePerOpening)'
    BY DEF StoredNormalised, SuccessHasItsDeclaration, WaitingPaymentIsQueued,
           ConfirmedOncePerOpening, DeclarationsOf, listDeclarations
  <1>4. QED BY <1>1, <1>2, <1>3

(* Every decision writes one declaration and the payment of its order, and  *)
(* keeps them in agreement; the context that wrote is idle again.          *)
LEMMA DecisionKeepsDInv ==
  ASSUME DInv, NEW d \in Desks, NEW o \in Orders, NEW k \in Spellings,
         NEW p \in PAYMENT_STATUSES, NEW s \in DECLARATION_STATUSES,
         Transfer[k] = k,
         declaration[k] = NoDeclaration \/ declaration[k].order = o,
         declaration' = [declaration EXCEPT ![k] = [order |-> o, status |-> s]],
         payment' = [payment EXCEPT ![o] = p],
         p = "SUCCEEDED" => s = "ACCEPTED",
         s # "ACCEPTED" => p # "SUCCEEDED",
         p \in AWAITING_REVIEW => s \in {"DECLARED", "VERIFYING"},
         desk' = [desk EXCEPT ![d] = DeskIdle],
         confirmed' \in [Orders -> Nat], reopened' \in [Orders -> Nat],
         ConfirmedOncePerOpening'
  PROVE  DInv'
  <1> USE DEF DInv
  <1>1. DirectTypeOK'
    BY NoReferenceAssumption DEF DirectTypeOK, DeskContext, DeskIdle, Declaration
  <1>2. DesksOK'
    <2> SUFFICES ASSUME NEW e \in Desks, desk'[e].at # "idle"
                 PROVE  /\ desk'[e].order \in Orders
                        /\ desk'[e].reference \in Spellings
                        /\ Transfer[desk'[e].reference] = desk'[e].reference
                        /\ desk'[e].at # "declareTxn" =>
                             declaration'[desk'[e].reference].order = desk'[e].order
      BY DEF DesksOK
    <2>1. e # d /\ desk'[e] = desk[e]
      BY DEF DirectTypeOK, DeskIdle
    <2>2. declaration[k] = NoDeclaration => declaration[k].order = NoOrder
      BY DEF NoDeclaration
    <2>3. QED BY <2>1, <2>2, NoOrderAssumption DEF DesksOK, DirectTypeOK
  <1>3. StoredNormalised'
    BY DEF StoredNormalised, DirectTypeOK
  <1>4. SuccessHasItsDeclaration'
    <2> SUFFICES ASSUME NEW x \in Orders, payment'[x] = "SUCCEEDED"
                 PROVE  \E j \in Spellings : declaration'[j].order = x /\ declaration'[j].status = "ACCEPTED"
      BY DEF SuccessHasItsDeclaration, DeclarationsOf
    <2>1. CASE x = o
      BY <2>1 DEF DirectTypeOK
    <2>2. CASE x # o
      <3>1. PICK j \in Spellings : declaration[j].order = x /\ declaration[j].status = "ACCEPTED"
        BY <2>2 DEF SuccessHasItsDeclaration, DeclarationsOf, DirectTypeOK
      <3>2. j # k
        BY <3>1, <2>2, NoOrderAssumption DEF NoDeclaration
      <3>3. QED BY <3>1, <3>2 DEF DirectTypeOK
    <2>3. QED BY <2>1, <2>2
  <1>5. WaitingPaymentIsQueued'
    <2> SUFFICES ASSUME NEW x \in Orders, payment'[x] \in AWAITING_REVIEW
                 PROVE  \E j \in Spellings :
                          declaration'[j].order = x /\ declaration'[j].status \in {"DECLARED", "VERIFYING"}
      BY DEF WaitingPaymentIsQueued, DeclarationsOf, listDeclarations
    <2>1. CASE x = o
      BY <2>1 DEF DirectTypeOK
    <2>2. CASE x # o
      <3>1. PICK j \in Spellings :
              declaration[j].order = x /\ declaration[j].status \in {"DECLARED", "VERIFYING"}
        BY <2>2 DEF WaitingPaymentIsQueued, DeclarationsOf, listDeclarations, DirectTypeOK
      <3>2. j # k
        BY <3>1, <2>2, NoOrderAssumption DEF NoDeclaration
      <3>3. QED BY <3>1, <3>2 DEF DirectTypeOK
    <2>3. QED BY <2>1, <2>2
  <1>6. QED BY <1>1, <1>2, <1>3, <1>4, <1>5

\* An unconditional write of the payment counts as a reopening if it was one.
LEMMA SetPaymentCounts ==
  ASSUME DInv, NEW o \in Orders, NEW s \in PAYMENT_STATUSES \ {"SUCCEEDED"},
         SetPayment(o, s), UNCHANGED confirmed
  PROVE  /\ payment' = [payment EXCEPT ![o] = s]
         /\ confirmed' \in [Orders -> Nat] /\ reopened' \in [Orders -> Nat]
         /\ ConfirmedOncePerOpening'
  BY DEF DInv, SetPayment, DirectTypeOK, ConfirmedOncePerOpening

\* Writing the status of a declaration that exists writes the whole record.
LEMMA SetDeclarationWrites ==
  ASSUME DInv, NEW o \in Orders, NEW k \in Spellings, declaration[k].order = o,
         NEW s \in DECLARATION_STATUSES, SetDeclaration(k, s)
  PROVE  /\ declaration' = [declaration EXCEPT ![k] = [order |-> o, status |-> s]]
         /\ Transfer[k] = k
  <1>1. declaration[k] # NoDeclaration
    BY NoOrderAssumption DEF NoDeclaration
  <1>2. declaration[k] \in Declaration
    BY <1>1 DEF DInv, DirectTypeOK
  <1>3. [declaration[k] EXCEPT !.status = s] = [order |-> o, status |-> s]
    BY <1>2 DEF Declaration
  <1>4. QED BY <1>1, <1>3 DEF SetDeclaration, DInv, StoredNormalised

-----------------------------------------------------------------------------
LEMMA DeskStepOK ==
  ASSUME DInv, IInv, NEW d \in Desks, DeskStep(d)
  PROVE  DInv'
  <1>1. ASSUME NEW o \in Orders, NEW s \in Spellings, NEW m \in BOOLEAN, Declare(d, o, s, m)
        PROVE  DInv'
    <2> DEFINE c == [at |-> "declareTxn", order |-> o, reference |-> Transfer[s], matches |-> m,
                     seen |-> status[o]]
    <2>1. c \in DeskContext /\ Transfer[c.reference] = c.reference /\ c.reference \in Spellings
      BY TransferAssumption DEF DeskContext, IInv, TypeOK
    <2>2. desk' = [desk EXCEPT ![d] = c] /\ UNCHANGED <<payment, declaration, confirmed, reopened>>
      BY <1>1 DEF Declare, DeskStarts, normalised
    <2>3. c.order \in Orders /\ c.at = "declareTxn"
      OBVIOUS
    <2> HIDE DEF c
    <2>4. QED BY <2>1, <2>2, <2>3, DeskMoveKeepsDInv
  <1>2. ASSUME DeclareCommits(d) PROVE DInv'
    <2> DEFINE o == desk[d].order
               k == desk[d].reference
               p == IF desk[d].matches THEN "DECLARED_BY_CUSTOMER" ELSE "UNDER_REVIEW"
    <2>1. /\ o \in Orders /\ k \in Spellings /\ Transfer[k] = k
          /\ p \in PAYMENT_STATUSES \ {"SUCCEEDED"}
          /\ declaration[k] = NoDeclaration
          /\ declaration' = [declaration EXCEPT ![k] = [order |-> o, status |-> "DECLARED"]]
          /\ SetPayment(o, p) /\ UNCHANGED confirmed
          /\ desk' = [desk EXCEPT ![d] = DeskIdle]
      BY <1>2 DEF DeclareCommits, DeskEnds, DInv, DesksOK, PAYMENT_STATUSES
    <2> HIDE DEF o, k, p
    <2>2. /\ payment' = [payment EXCEPT ![o] = p]
          /\ confirmed' \in [Orders -> Nat] /\ reopened' \in [Orders -> Nat]
          /\ ConfirmedOncePerOpening'
      BY <2>1, SetPaymentCounts
    <2>3. "DECLARED" \in DECLARATION_STATUSES
      BY DEF DECLARATION_STATUSES
    <2>4. QED BY <2>1, <2>2, <2>3, DecisionKeepsDInv
  <1>3. ASSUME NEW k \in Spellings, NEW at \in {"reviewTxn", "rejectTxn", "confirmTxn"},
               Review(d, k, at)
        PROVE  DInv'
    <2> DEFINE c == [at |-> at, order |-> declaration[k].order, reference |-> k, matches |-> TRUE,
                     seen |-> status[declaration[k].order]]
    <2>1. declaration[k] \in Declaration /\ Transfer[k] = k
      BY <1>3 DEF Review, DInv, DirectTypeOK, StoredNormalised
    <2>2. c \in DeskContext /\ c.order \in Orders /\ c.reference = k /\ c.order = declaration[k].order
      BY <2>1 DEF DeskContext, IInv, TypeOK, Declaration
    <2>3. desk' = [desk EXCEPT ![d] = c] /\ UNCHANGED <<payment, declaration, confirmed, reopened>>
      BY <1>3 DEF Review, DeskStarts
    <2> HIDE DEF c
    <2>4. QED BY <2>1, <2>2, <2>3, DeskMoveKeepsDInv
  <1>4. ASSUME ReviewCommits(d) \/ RejectCommits(d) PROVE DInv'
    <2> DEFINE o == desk[d].order
               k == desk[d].reference
    <2>1. \E p \in {"UNDER_REVIEW", "REJECTED"}, s \in {"VERIFYING", "REJECTED"} :
            /\ p = "UNDER_REVIEW" => s = "VERIFYING"
            /\ SetPayment(o, p) /\ SetDeclaration(k, s)
            /\ UNCHANGED confirmed /\ desk' = [desk EXCEPT ![d] = DeskIdle]
      BY <1>4 DEF ReviewCommits, RejectCommits, DeskEnds
    <2>2. o \in Orders /\ k \in Spellings /\ declaration[k].order = o
      BY <1>4 DEF ReviewCommits, RejectCommits, DInv, DesksOK
    <2> HIDE DEF o, k
    <2>3. PICK p \in {"UNDER_REVIEW", "REJECTED"}, s \in {"VERIFYING", "REJECTED"} :
            /\ p = "UNDER_REVIEW" => s = "VERIFYING"
            /\ SetPayment(o, p) /\ SetDeclaration(k, s)
            /\ UNCHANGED confirmed /\ desk' = [desk EXCEPT ![d] = DeskIdle]
      BY <2>1
    <2>4. p \in PAYMENT_STATUSES \ {"SUCCEEDED"} /\ s \in DECLARATION_STATUSES
          /\ s # "ACCEPTED" /\ (p \in AWAITING_REVIEW => s \in {"DECLARED", "VERIFYING"})
      BY <2>3 DEF PAYMENT_STATUSES, DECLARATION_STATUSES, AWAITING_REVIEW
    <2>5. /\ payment' = [payment EXCEPT ![o] = p]
          /\ confirmed' \in [Orders -> Nat] /\ reopened' \in [Orders -> Nat]
          /\ ConfirmedOncePerOpening'
      BY <2>2, <2>3, <2>4, SetPaymentCounts
    <2>6. declaration' = [declaration EXCEPT ![k] = [order |-> o, status |-> s]] /\ Transfer[k] = k
      BY <2>2, <2>3, <2>4, SetDeclarationWrites
    <2>7. QED BY <2>2, <2>3, <2>4, <2>5, <2>6, DecisionKeepsDInv
  <1>5. ASSUME DeclareRefused(d) \/ ReviewLoses(d) \/ DeskAbandoned(d) PROVE DInv'
    BY <1>5, DeskMoveKeepsDInv DEF DeclareRefused, ReviewLoses, DeskAbandoned, DeskEnds
  <1>6. QED
    BY <1>1, <1>2, <1>3, <1>4, <1>5 DEF DeskStep, CustomerDeclares, StaffReviews

LEMMA ConfirmCommitsOK ==
  ASSUME DInv, IInv, NEW d \in Desks, ConfirmCommits(d), UNCHANGED <<reservation, req>>
  PROVE  DInv' /\ IInv'
  <1> DEFINE o == desk[d].order
             k == desk[d].reference
  <1>1. /\ o \in Orders /\ k \in Spellings /\ declaration[k].order = o
        /\ ClaimPayment(o) /\ SetDeclaration(k, "ACCEPTED")
        /\ desk' = [desk EXCEPT ![d] = DeskIdle]
        /\ updateStatusOf(o, "CONFIRMED") \/ UNCHANGED <<status, returned, revived>>
    BY DEF ConfirmCommits, DeskEnds, DInv, DesksOK
  <1> HIDE DEF o, k
  <1>2. "SUCCEEDED" \in PAYMENT_STATUSES /\ "ACCEPTED" \in DECLARATION_STATUSES
        /\ "SUCCEEDED" \notin AWAITING_REVIEW
    BY DEF PAYMENT_STATUSES, DECLARATION_STATUSES, AWAITING_REVIEW
  <1>3. /\ payment' = [payment EXCEPT ![o] = "SUCCEEDED"]
        /\ confirmed' \in [Orders -> Nat] /\ reopened' \in [Orders -> Nat]
        /\ ConfirmedOncePerOpening'
    BY <1>1 DEF ClaimPayment, DInv, DirectTypeOK, ConfirmedOncePerOpening
  <1>4. declaration' = [declaration EXCEPT ![k] = [order |-> o, status |-> "ACCEPTED"]]
        /\ Transfer[k] = k
    BY <1>1, <1>2, SetDeclarationWrites
  <1>5. DInv'
    BY <1>1, <1>2, <1>3, <1>4, DecisionKeepsDInv
  <1>6. IInv'
    <2>1. CASE updateStatusOf(o, "CONFIRMED")
      BY <1>1, <2>1, UpdateKeepsIInv DEF ORDER_STATUSES
    <2>2. CASE UNCHANGED <<status, returned, revived>>
      BY <2>2 DEF IInv, TypeOK, ContextsOK, StockReturnedOncePerCancellation, Cancellations,
                  ReleaseFollowsCancellation
    <2>3. QED BY <1>1, <2>1, <2>2
  <1>7. QED BY <1>5, <1>6

LEMMA DirectStepOK == DInv /\ IInv /\ [DirectNext]_allDirectVars => DInv' /\ IInv'
  <1> SUFFICES ASSUME DInv, IInv, [DirectNext]_allDirectVars PROVE DInv' /\ IInv'
    OBVIOUS
  <1>1. ASSUME UNCHANGED directVars PROVE DInv'
    BY <1>1 DEF directVars, DInv, DirectTypeOK, DesksOK, StoredNormalised, SuccessHasItsDeclaration,
                WaitingPaymentIsQueued, ConfirmedOncePerOpening, DeclarationsOf, listDeclarations
  <1>2. ASSUME [Next]_vars PROVE IInv'
    BY <1>2, StepIInv
  <1>3. CASE Next /\ UNCHANGED directVars
    BY <1>1, <1>2, <1>3
  <1>4. ASSUME NEW d \in Desks, DeskStep(d) /\ UNCHANGED vars PROVE DInv' /\ IInv'
    BY <1>2, <1>4, DeskStepOK
  <1>5. ASSUME NEW d \in Desks, ConfirmCommits(d) /\ UNCHANGED <<reservation, req>>
        PROVE  DInv' /\ IInv'
    BY <1>5, ConfirmCommitsOK
  <1>6. CASE UNCHANGED allDirectVars
    BY <1>1, <1>2, <1>6 DEF allDirectVars
  <1>7. QED BY <1>3, <1>4, <1>5, <1>6 DEF DirectNext

LEMMA DirectInvariance == DirectSpec => [](DInv /\ IInv)
  BY DirectInitOK, DirectStepOK, PTL DEF DirectSpec

-----------------------------------------------------------------------------
(* The limit of declarations.  The count of an order is of those written    *)
(* plus those whose transaction is still to come: a new request adds one    *)
(* when fewer than maxPerOrder are written, and the others in flight are    *)
(* at most all the other desks.                                            *)

InFlight(o) == {d \in Desks : desk[d].at = "declareTxn" /\ desk[d].order = o}

Finite ==
  \A o \in Orders : IsFiniteSet(DeclarationsOf(o))

BInv == Finite /\ DeclarationsBounded

LEMMA InFlightFinite ==
  ASSUME NEW S \in SUBSET Desks
  PROVE  /\ IsFiniteSet(S) /\ Cardinality(S) \in Nat /\ Cardinality(S) <= Cardinality(Desks)
         /\ Cardinality(Desks) \in Nat \ {0}
         /\ S # Desks => Cardinality(S) <= Cardinality(Desks) - 1
  <1>1. IsFiniteSet(S) /\ Cardinality(S) <= Cardinality(Desks)
    BY DesksAssumption, FS_Subset
  <1>2. Cardinality(S) \in Nat /\ Cardinality(Desks) \in Nat
    BY <1>1, DesksAssumption, FS_CardinalityType
  <1>3. Cardinality(Desks) # 0
    BY DesksAssumption, FS_EmptySet
  <1>4. S # Desks => Cardinality(S) <= Cardinality(Desks) - 1
    BY <1>1, <1>2, DesksAssumption, FS_Subset
  <1>5. QED BY <1>1, <1>2, <1>3, <1>4

LEMMA BInvStep == DInv /\ BInv /\ [DirectNext]_allDirectVars => BInv'
  <1> SUFFICES ASSUME DInv, BInv, [DirectNext]_allDirectVars PROVE BInv'
    OBVIOUS
  <1> USE DEF BInv
  <1>0. desk \in [Desks -> DeskContext]
    BY DEF DInv, DirectTypeOK
  <1>2. ASSUME NEW d \in Desks, NEW x \in Orders, NEW s \in Spellings, NEW m \in BOOLEAN,
               Declare(d, x, s, m)
        PROVE  BInv'
    <2>1. /\ UNCHANGED declaration
          /\ desk[d].at # "declareTxn"
          /\ Cardinality(DeclarationsOf(x)) < maxPerOrder
          /\ desk'[d].order = x
          /\ \A e \in Desks \ {d} : desk'[e] = desk[e]
      BY <1>0, <1>2 DEF Declare, DeskStarts
    <2>2. Finite'
      BY <2>1 DEF Finite, DeclarationsOf
    <2>3. ASSUME NEW o \in Orders
          PROVE  Cardinality(DeclarationsOf(o)') + Cardinality(InFlight(o)')
                   <= maxPerOrder + Cardinality(Desks) - 1
      <3>1. DeclarationsOf(o)' = DeclarationsOf(o) /\ Cardinality(DeclarationsOf(o)) \in Nat
        BY <2>1, FS_CardinalityType DEF DeclarationsOf, Finite
      <3>2. CASE o = x
        <4>1. /\ Cardinality(InFlight(o)') <= Cardinality(Desks)
              /\ Cardinality(InFlight(o)') \in Nat /\ Cardinality(Desks) \in Nat
          BY InFlightFinite DEF InFlight
        <4>2. QED BY <2>1, <3>1, <3>2, <4>1, LimitsAssumption
      <3>3. CASE o # x
        <4>1. ASSUME NEW e \in Desks
              PROVE  (desk'[e].at = "declareTxn" /\ desk'[e].order = o)
                       <=> (desk[e].at = "declareTxn" /\ desk[e].order = o)
          <5>1. CASE e = d
            BY <2>1, <3>3, <5>1
          <5>2. CASE e # d
            BY <2>1, <5>2
          <5>3. QED BY <5>1, <5>2
        <4>3. InFlight(o)' = InFlight(o)
          BY <4>1 DEF InFlight
        <4>2. QED BY <3>1, <4>3 DEF DeclarationsBounded, InFlight
      <3>4. QED BY <3>2, <3>3
    <2>4. QED BY <2>2, <2>3 DEF DeclarationsBounded, InFlight
  <1>3. ASSUME NEW d \in Desks, DeclareCommits(d) PROVE BInv'
    <2>1. PICK x \in Orders, k \in Spellings :
            /\ desk[d].at = "declareTxn" /\ desk[d].order = x
            /\ declaration[k] = NoDeclaration
            /\ declaration' = [declaration EXCEPT ![k] = [order |-> x, status |-> "DECLARED"]]
            /\ desk' = [desk EXCEPT ![d] = DeskIdle]
      BY <1>3 DEF DeclareCommits, DeskEnds, DInv, DesksOK
    <2>2. DeclarationsOf(x)' = DeclarationsOf(x) \cup {k} /\ k \notin DeclarationsOf(x)
          /\ InFlight(x)' = InFlight(x) \ {d} /\ d \in InFlight(x)
      <3>1. declaration \in [Spellings -> Declaration \cup {NoDeclaration}]
        BY DEF DInv, DirectTypeOK
      <3>2. declaration'[k].order = x /\ declaration[k].order # x
            /\ \A j \in Spellings \ {k} : declaration'[j] = declaration[j]
        BY <2>1, <3>1, NoOrderAssumption DEF NoDeclaration
      <3>3. DeclarationsOf(x)' = DeclarationsOf(x) \cup {k} /\ k \notin DeclarationsOf(x)
        BY <2>1, <3>2 DEF DeclarationsOf
      <3>4. desk'[d].at # "declareTxn" /\ desk[d].order = x
            /\ \A e \in Desks \ {d} : desk'[e] = desk[e]
        BY <1>0, <2>1 DEF DeskIdle
      <3>5. InFlight(x)' = InFlight(x) \ {d} /\ d \in InFlight(x)
        BY <2>1, <3>4 DEF InFlight
      <3>6. QED BY <3>3, <3>5
    <2>3. ASSUME NEW o \in Orders, o # x
          PROVE  DeclarationsOf(o)' = DeclarationsOf(o) /\ InFlight(o)' = InFlight(o)
      BY <1>0, <2>1, <2>3, NoOrderAssumption
      DEF DeclarationsOf, InFlight, NoDeclaration, DeskIdle, DInv, DirectTypeOK
    <2>4. Finite'
      <3>1. IsFiniteSet(DeclarationsOf(x) \cup {k})
        BY <2>1, FS_AddElement DEF Finite
      <3>2. ASSUME NEW o \in Orders PROVE IsFiniteSet(DeclarationsOf(o)')
        <4>1. CASE o = x
          BY <2>2, <3>1, <4>1
        <4>2. CASE o # x
          BY <2>3, <4>2 DEF Finite
        <4>3. QED BY <4>1, <4>2
      <3>3. QED BY <3>2 DEF Finite
    <2>5. /\ Cardinality(DeclarationsOf(x)') = Cardinality(DeclarationsOf(x)) + 1
          /\ Cardinality(InFlight(x)') = Cardinality(InFlight(x)) - 1
          /\ Cardinality(DeclarationsOf(x)) \in Nat /\ Cardinality(InFlight(x)) \in Nat
      <3>1. IsFiniteSet(InFlight(x)) /\ IsFiniteSet(DeclarationsOf(x))
        BY <2>1, InFlightFinite DEF InFlight, Finite
      <3>2. Cardinality(DeclarationsOf(x)') = Cardinality(DeclarationsOf(x)) + 1
        BY <2>2, <3>1, FS_AddElement
      <3>3. Cardinality(InFlight(x)') = Cardinality(InFlight(x)) - 1
        BY <2>2, <3>1, FS_RemoveElement
      <3>4. QED BY <3>1, <3>2, <3>3, FS_CardinalityType
    <2>6. ASSUME NEW o \in Orders
          PROVE  Cardinality(DeclarationsOf(o)') + Cardinality(InFlight(o)')
                   <= maxPerOrder + Cardinality(Desks) - 1
      <3>1. CASE o = x
        BY <2>5, <3>1 DEF DeclarationsBounded, InFlight
      <3>2. CASE o # x
        BY <2>3, <3>2 DEF DeclarationsBounded, InFlight
      <3>3. QED BY <3>1, <3>2
    <2>7. QED BY <2>4, <2>6 DEF DeclarationsBounded, InFlight
  <1>4. ASSUME NEW d \in Desks, desk' = [desk EXCEPT ![d] = DeskIdle],
               \/ UNCHANGED declaration
               \/ \E s \in DECLARATION_STATUSES : SetDeclaration(desk[d].reference, s)
                    /\ desk[d].at \in {"reviewTxn", "rejectTxn", "confirmTxn"}
        PROVE  BInv'
    <2>1. DeskIdle \in DeskContext /\ DeskIdle.at # "declareTxn"
      BY DEF DeskIdle, DeskContext
    <2>2. \A o \in Orders : DeclarationsOf(o)' = DeclarationsOf(o)
      <3>1. CASE UNCHANGED declaration
        BY <3>1 DEF DeclarationsOf
      <3>2. CASE \E s \in DECLARATION_STATUSES : SetDeclaration(desk[d].reference, s)
                    /\ desk[d].at \in {"reviewTxn", "rejectTxn", "confirmTxn"}
        <4>1. PICK s \in DECLARATION_STATUSES : SetDeclaration(desk[d].reference, s)
                    /\ desk[d].at \in {"reviewTxn", "rejectTxn", "confirmTxn"}
          BY <3>2
        <4>2. /\ desk[d].reference \in Spellings /\ desk[d].order \in Orders
              /\ declaration[desk[d].reference].order = desk[d].order
          BY <4>1 DEF DInv, DesksOK
        <4>3. declaration' = [declaration EXCEPT ![desk[d].reference] = [order |-> desk[d].order, status |-> s]]
          BY <4>1, <4>2, SetDeclarationWrites
        <4>4. QED BY <4>2, <4>3 DEF DeclarationsOf, DInv, DirectTypeOK
      <3>3. QED BY <1>4, <3>1, <3>2
    <2>3. Finite'
      BY <2>2 DEF Finite
    <2>4. \A o \in Orders : InFlight(o)' \subseteq InFlight(o)
      BY <1>0, <1>4, <2>1 DEF InFlight
    <2>5. ASSUME NEW o \in Orders
          PROVE  Cardinality(DeclarationsOf(o)') + Cardinality(InFlight(o)')
                   <= maxPerOrder + Cardinality(Desks) - 1
      <3>2. IsFiniteSet(InFlight(o))
        BY InFlightFinite DEF InFlight
      <3>3. /\ Cardinality(InFlight(o)') <= Cardinality(InFlight(o))
            /\ Cardinality(InFlight(o)) \in Nat /\ Cardinality(InFlight(o)') \in Nat
        BY <2>4, <3>2, FS_Subset, FS_CardinalityType
      <3>4. Cardinality(DeclarationsOf(o)) \in Nat /\ Cardinality(Desks) \in Nat
        BY FS_CardinalityType, DesksAssumption DEF Finite
      <3>5. QED BY <2>2, <3>3, <3>4, LimitsAssumption DEF DeclarationsBounded, InFlight
    <2>6. QED BY <2>3, <2>5 DEF DeclarationsBounded, InFlight
  <1>5. ASSUME NEW d \in Desks, NEW k \in Spellings, NEW at \in {"reviewTxn", "rejectTxn", "confirmTxn"},
               Review(d, k, at)
        PROVE  BInv'
    <2> DEFINE c == [at |-> at, order |-> declaration[k].order, reference |-> k, matches |-> TRUE,
                     seen |-> status[declaration[k].order]]
    <2>1. desk' = [desk EXCEPT ![d] = c] /\ UNCHANGED declaration
      BY <1>5 DEF Review, DeskStarts
    <2>2. \A o \in Orders : InFlight(o)' \subseteq InFlight(o) /\ DeclarationsOf(o)' = DeclarationsOf(o)
      BY <1>0, <2>1 DEF InFlight, DeclarationsOf
    <2>3. ASSUME NEW o \in Orders
          PROVE  Cardinality(DeclarationsOf(o)') + Cardinality(InFlight(o)')
                   <= maxPerOrder + Cardinality(Desks) - 1
      <3>2. IsFiniteSet(InFlight(o))
        BY InFlightFinite DEF InFlight
      <3>3. /\ Cardinality(InFlight(o)') <= Cardinality(InFlight(o))
            /\ Cardinality(InFlight(o)) \in Nat /\ Cardinality(InFlight(o)') \in Nat
        BY <2>2, <3>2, FS_Subset, FS_CardinalityType
      <3>4. Cardinality(DeclarationsOf(o)) \in Nat /\ Cardinality(Desks) \in Nat
        BY FS_CardinalityType, DesksAssumption DEF Finite
      <3>5. QED BY <2>2, <3>3, <3>4, LimitsAssumption DEF DeclarationsBounded, InFlight
    <2>4. Finite'
      BY <2>2 DEF Finite
    <2>5. QED BY <2>3, <2>4 DEF DeclarationsBounded, InFlight
  <1>6. CASE UNCHANGED <<declaration, desk>>
    BY <1>6 DEF Finite, DeclarationsBounded, DeclarationsOf
  <1>7. ASSUME NEW d \in Desks, DeskStep(d) PROVE BInv'
    <2>1. CASE DeclareRefused(d) \/ ReviewLoses(d) \/ DeskAbandoned(d)
      BY <1>4, <2>1 DEF DeclareRefused, ReviewLoses, DeskAbandoned, DeskEnds
    <2>2. CASE ReviewCommits(d) \/ RejectCommits(d)
      BY <1>4, <2>2 DEF ReviewCommits, RejectCommits, DeskEnds, DECLARATION_STATUSES
    <2>3. QED BY <1>2, <1>3, <1>5, <1>7, <2>1, <2>2 DEF DeskStep, CustomerDeclares, StaffReviews
  <1>8. ASSUME NEW d \in Desks, ConfirmCommits(d) PROVE BInv'
    BY <1>4, <1>8 DEF ConfirmCommits, DeskEnds, DECLARATION_STATUSES
  <1>9. QED BY <1>6, <1>7, <1>8 DEF DirectNext, allDirectVars, directVars

-----------------------------------------------------------------------------
(* The payments, the declarations and the desks keep their types.          *)
THEOREM DirectTypeCorrectness == DirectSpec => []DirectTypeOK
  BY DirectInvariance, PTL DEF DInv

(* However declarations and decisions cross, a confirmed payment shows the  *)
(* accepted declaration that paid for it.                                  *)
THEOREM ConfirmedPaymentsAreExplained == DirectSpec => []SuccessHasItsDeclaration
  BY DirectInvariance, PTL DEF DInv

(* No payment waits for the staff outside the list the staff works from.   *)
THEOREM NoDeclarationForgotten == DirectSpec => []WaitingPaymentIsQueued
  BY DirectInvariance, PTL DEF DInv

(* Any number of people confirm together: one of them does.                *)
THEOREM ConfirmationHasOneWinner == DirectSpec => []ConfirmedOncePerOpening
  BY DirectInvariance, PTL DEF DInv

(* The confirmations of the staff, which revive a cancelled order they read *)
(* as PENDING, keep the account of its goods: they went back once for each  *)
(* cancellation.                                                           *)
THEOREM GoodsAccountedWithTransfers == DirectSpec => []StockReturnedOncePerCancellation
  BY DirectInvariance, PTL DEF IInv

(* A transfer is accepted for one declaration only, however it is typed.   *)
THEOREM OneOrderPerTransfer == DirectSpec => []TransferPaysOneOrder
  <1>1. DInv => TransferPaysOneOrder
    BY DEF DInv, StoredNormalised, TransferPaysOneOrder, NoDeclaration
  <1>2. QED BY <1>1, DirectInvariance, PTL

(* Parallel declarations pass the limit of an order by no more than the     *)
(* other requests that were in flight.                                     *)
THEOREM DeclarationsStayBounded == DirectSpec => []DeclarationsBounded
  <1>1. DirectInit => BInv
    <2> SUFFICES ASSUME DirectInit PROVE BInv
      OBVIOUS
    <2>1. ASSUME NEW o \in Orders PROVE DeclarationsOf(o) = {} /\ InFlight(o) = {}
      BY NoOrderAssumption DEF DirectInit, DeclarationsOf, InFlight, NoDeclaration, DeskIdle
    <2>2. IsFiniteSet({}) /\ Cardinality({}) = 0
      BY FS_EmptySet
    <2>3. Cardinality(Desks) \in Nat \ {0}
      BY InFlightFinite
    <2>4. Finite
      BY <2>1, <2>2 DEF Finite
    <2>5. ASSUME NEW o \in Orders
          PROVE  Cardinality(DeclarationsOf(o)) + Cardinality(InFlight(o))
                   <= maxPerOrder + Cardinality(Desks) - 1
      BY <2>1, <2>2, <2>3, LimitsAssumption
    <2>6. QED BY <2>4, <2>5 DEF BInv, DeclarationsBounded, InFlight
  <1>2. QED BY <1>1, BInvStep, DirectInvariance, PTL DEF DirectSpec, BInv

-----------------------------------------------------------------------------
(* The refinement of the payment contract.                                  *)

\* A step of the order row shows as a move of that order, or not at all.
LEMMA OrderStepShows ==
  ASSUME IInv, Next, UNCHANGED directVars
  PROVE  [Paying!Next]_Paying!contractVars
  <1>1. UNCHANGED <<payment, declaration, confirmed>>
    BY DEF directVars
  <1>2. UNCHANGED <<standing, transfersFound>>
    BY <1>1 DEF standing, transfersFound, DeclarationsOf
  <1>3. CASE UNCHANGED status
    BY <1>1, <1>2, <1>3 DEF Paying!contractVars, holders
  <1>4. ASSUME NEW x \in Orders, NEW s \in ORDER_STATUSES, status' = [status EXCEPT ![x] = s]
        PROVE  Paying!Next
    <2>1. holders' = IF s \in STOCK_HELD_STATUSES THEN holders \cup {x} ELSE holders \ {x}
      BY <1>4 DEF holders, IInv, TypeOK
    <2>2. Paying!OrderMoves(x)
      BY <1>1, <1>2, <2>1 DEF Paying!OrderMoves
    <2>3. QED BY <2>2 DEF Paying!Next
  <1>5. \/ UNCHANGED status
        \/ \E x \in Orders, s \in ORDER_STATUSES : status' = [status EXCEPT ![x] = s]
    BY OrderStepKinds DEF cancelOrderAndReleaseStock, updateStatusOf, ORDER_STATUSES
  <1>6. QED BY <1>3, <1>4, <1>5

\* What the transfers of an order become when one of its declarations is written.
LEMMA TransfersMove ==
  ASSUME DInv, NEW o \in Orders, NEW k \in Spellings, NEW s \in DECLARATION_STATUSES,
         declaration[k] = NoDeclaration \/ declaration[k].order = o,
         declaration' = [declaration EXCEPT ![k] = [order |-> o, status |-> s]]
  PROVE  /\ s = "ACCEPTED" => transfersFound' = transfersFound \cup {o}
         /\ s # "ACCEPTED" => transfersFound' \in {transfersFound, transfersFound \ {o}}
  <1>1. /\ declaration'[k].order = o /\ declaration'[k].status = s
        /\ \A j \in Spellings \ {k} : declaration'[j] = declaration[j]
    BY DEF DInv, DirectTypeOK
  <1>2. declaration[k].order \in {o, NoOrder}
    BY DEF NoDeclaration
  <1>3. \A x \in Orders \ {o} : x \in transfersFound' <=> x \in transfersFound
    BY <1>1, <1>2, NoOrderAssumption DEF transfersFound, DeclarationsOf
  <1>4. s = "ACCEPTED" => o \in transfersFound'
    BY <1>1 DEF transfersFound, DeclarationsOf
  <1>5. s # "ACCEPTED" /\ o \in transfersFound' => o \in transfersFound
    BY <1>1 DEF transfersFound, DeclarationsOf
  <1>6. transfersFound \subseteq Orders /\ transfersFound' \subseteq Orders
    BY DEF transfersFound
  <1> HIDE DEF transfersFound
  <1>7. CASE s = "ACCEPTED"
    BY <1>3, <1>4, <1>6, <1>7
  <1>8. CASE s # "ACCEPTED"
    <2>1. CASE o \in transfersFound'
      BY <1>3, <1>5, <1>6, <1>8, <2>1
    <2>2. CASE o \notin transfersFound'
      <3>1. transfersFound' = transfersFound \ {o}
        BY <1>3, <1>6, <2>2
      <3>2. QED BY <1>8, <3>1
    <2>3. QED BY <2>1, <2>2
  <1>9. QED BY <1>7, <1>8

\* A declaration, a review or a rejection opens the payment again, lets go of a transfer
\* nothing stands on, or does not show.
LEMMA WriteShows ==
  ASSUME DInv, NEW o \in Orders, NEW k \in Spellings,
         NEW p \in PAYMENT_STATUSES \ {"SUCCEEDED"}, NEW s \in DECLARATION_STATUSES,
         s # "ACCEPTED",
         declaration[k] = NoDeclaration \/ declaration[k].order = o,
         declaration' = [declaration EXCEPT ![k] = [order |-> o, status |-> s]],
         payment' = [payment EXCEPT ![o] = p], UNCHANGED <<status, confirmed>>
  PROVE  [Paying!Next]_Paying!contractVars
  <1>1. transfersFound' \in {transfersFound, transfersFound \ {o}}
    BY TransfersMove
  <1>2. UNCHANGED holders
    BY DEF holders
  <1>3. standing' = [standing EXCEPT ![o] = "undecided"]
    BY DEF standing, DInv, DirectTypeOK
  <1>4. CASE payment[o] = "SUCCEEDED"
    <2>1. standing[o] # "undecided"
      BY <1>4 DEF standing
    <2>2. Paying!Reopen(o)
      BY <1>1, <1>2, <1>3, <2>1 DEF Paying!Reopen
    <2>3. QED BY <2>2 DEF Paying!Next
  <1>5. CASE payment[o] # "SUCCEEDED"
    <2>1. standing[o] = "undecided"
      BY <1>5 DEF standing
    <2>2. standing' = standing
      BY <1>3, <2>1 DEF standing
    <2>3. CASE transfersFound' = transfersFound
      BY <1>2, <2>2, <2>3 DEF Paying!contractVars
    <2>4. CASE transfersFound' = transfersFound \ {o}
      <3>1. Paying!MoneyGoes(o)
        BY <1>2, <2>1, <2>2, <2>4 DEF Paying!MoneyGoes
      <3>2. QED BY <3>1 DEF Paying!Next
    <2>5. QED BY <1>1, <2>3, <2>4
  <1>6. QED BY <1>4, <1>5

LEMMA DeskStepShows ==
  ASSUME DInv, NEW d \in Desks, DeskStep(d), UNCHANGED vars
  PROVE  [Paying!Next]_Paying!contractVars
  <1> DEFINE o == desk[d].order
             k == desk[d].reference
  <1>1. UNCHANGED status
    BY DEF vars
  <1>2. ASSUME DeclareCommits(d) PROVE [Paying!Next]_Paying!contractVars
    <2>1. /\ o \in Orders /\ k \in Spellings /\ declaration[k] = NoDeclaration
          /\ declaration' = [declaration EXCEPT ![k] = [order |-> o, status |-> "DECLARED"]]
          /\ UNCHANGED confirmed
      BY <1>2 DEF DeclareCommits, DInv, DesksOK
    <2>2. PICK p \in PAYMENT_STATUSES \ {"SUCCEEDED"} : payment' = [payment EXCEPT ![o] = p]
      <3>1. \E p \in {"DECLARED_BY_CUSTOMER", "UNDER_REVIEW"} : SetPayment(o, p)
        BY <1>2 DEF DeclareCommits
      <3>2. QED BY <3>1 DEF SetPayment, PAYMENT_STATUSES
    <2>3. "DECLARED" \in DECLARATION_STATUSES
      BY DEF DECLARATION_STATUSES
    <2> HIDE DEF o, k
    <2>4. QED BY <1>1, <2>1, <2>2, <2>3, WriteShows
  <1>3. ASSUME ReviewCommits(d) \/ RejectCommits(d) PROVE [Paying!Next]_Paying!contractVars
    <2>1. /\ o \in Orders /\ k \in Spellings /\ declaration[k].order = o
          /\ UNCHANGED confirmed
      BY <1>3 DEF ReviewCommits, RejectCommits, DInv, DesksOK
    <2>2. PICK p \in PAYMENT_STATUSES \ {"SUCCEEDED"} : payment' = [payment EXCEPT ![o] = p]
      <3>1. \E p \in {"UNDER_REVIEW", "REJECTED"} : SetPayment(o, p)
        BY <1>3 DEF ReviewCommits, RejectCommits
      <3>2. QED BY <3>1 DEF SetPayment, PAYMENT_STATUSES
    <2>3. PICK s \in DECLARATION_STATUSES \ {"ACCEPTED"} : SetDeclaration(k, s)
      BY <1>3 DEF ReviewCommits, RejectCommits, DECLARATION_STATUSES
    <2> HIDE DEF o, k
    <2>4. declaration' = [declaration EXCEPT ![k] = [order |-> o, status |-> s]]
      BY <2>1, <2>3, SetDeclarationWrites
    <2>5. QED BY <1>1, <2>1, <2>2, <2>3, <2>4, WriteShows
  <1>4. ASSUME UNCHANGED <<payment, declaration, confirmed>> PROVE UNCHANGED Paying!contractVars
    BY <1>1, <1>4 DEF Paying!contractVars, standing, transfersFound, DeclarationsOf, holders
  <1>5. QED
    BY <1>2, <1>3, <1>4
    DEF DeskStep, CustomerDeclares, StaffReviews, Declare, DeclareRefused, Review, ReviewLoses,
        DeskAbandoned

\* A confirmation pays: the transfer is accepted with it, and the order confirmed or left.
LEMMA ConfirmationShows ==
  ASSUME DInv, IInv, NEW d \in Desks, ConfirmCommits(d)
  PROVE  Paying!Next
  <1> DEFINE o == desk[d].order
             k == desk[d].reference
  <1>1. /\ o \in Orders /\ k \in Spellings /\ declaration[k].order = o
        /\ payment[o] # "SUCCEEDED" /\ payment' = [payment EXCEPT ![o] = "SUCCEEDED"]
        /\ confirmed' = [confirmed EXCEPT ![o] = @ + 1]
        /\ SetDeclaration(k, "ACCEPTED")
        /\ status' = [status EXCEPT ![o] = "CONFIRMED"] \/ UNCHANGED status
    BY DEF ConfirmCommits, ClaimPayment, updateStatusOf, DInv, DesksOK
  <1> HIDE DEF o, k
  <1>2. "ACCEPTED" \in DECLARATION_STATUSES
    BY DEF DECLARATION_STATUSES
  <1>3. declaration' = [declaration EXCEPT ![k] = [order |-> o, status |-> "ACCEPTED"]]
    BY <1>1, <1>2, SetDeclarationWrites
  <1>4. transfersFound' = transfersFound \cup {o}
    BY <1>1, <1>2, <1>3, TransfersMove
  <1>5. standing[o] = "undecided" /\ standing' = [standing EXCEPT ![o] = "paid"]
    BY <1>1 DEF standing, DInv, DirectTypeOK
  <1>6. holders' \in {holders, holders \cup {o}}
    <2>1. CASE status' = [status EXCEPT ![o] = "CONFIRMED"]
      <3>1. /\ status'[o] = "CONFIRMED" /\ "CONFIRMED" \in STOCK_HELD_STATUSES
            /\ \A x \in Orders \ {o} : status'[x] = status[x]
        BY <1>1, <2>1 DEF STOCK_HELD_STATUSES, ORDER_STATUSES, IInv, TypeOK
      <3>2. holders' = holders \cup {o}
        BY <1>1, <3>1 DEF holders
      <3>3. QED BY <3>2
    <2>2. CASE UNCHANGED status
      BY <2>2 DEF holders
    <2>3. QED BY <1>1, <2>1, <2>2
  <1>7. Paying!Pay(o)
    BY <1>1, <1>4, <1>5, <1>6 DEF Paying!Pay, Paying!Decide
  <1>8. QED BY <1>1, <1>7 DEF Paying!Next

(* Any number of people declaring and deciding transfers, beside the        *)
(* requests that move the orders, implement the same payment contract as    *)
(* the aggregator does (ImplementsPaymentContract).                         *)
THEOREM TransfersImplementContract == DirectSpec => ImplementsPaymentContract
  <1>1. DirectInit => Paying!Init
    BY DEF DirectInit, Paying!Init, standing, transfersFound, DeclarationsOf, NoDeclaration, holders
  <1>2. DInv /\ IInv /\ [DirectNext]_allDirectVars => [Paying!Next]_Paying!contractVars
    <2>1. ASSUME UNCHANGED allDirectVars PROVE UNCHANGED Paying!contractVars
      BY <2>1 DEF allDirectVars, vars, directVars, Paying!contractVars, standing, transfersFound,
         DeclarationsOf, holders
    <2>2. QED BY <2>1, OrderStepShows, DeskStepShows, ConfirmationShows DEF DirectNext
  <1>3. QED
    BY <1>1, <1>2, DirectInvariance, PTL
    DEF DirectSpec, ImplementsPaymentContract, Paying!Spec
=============================================================================
