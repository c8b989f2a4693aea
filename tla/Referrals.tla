------------------------------ MODULE Referrals ------------------------------
(***************************************************************************)
(* The reward of a referral.  A customer may register with the code of       *)
(* another; the first order delivered to him credits his referrer, in the    *)
(* transaction that closes the run: the code of the customer (verifyOtp) or  *)
(* the manager (closeManually).  PostgreSQL runs these transactions under    *)
(* READ COMMITTED: a read sees what was committed, a written row stays        *)
(* locked until the end.                                                    *)
(***************************************************************************)
EXTENDS Naturals, FiniteSetsExt

CONSTANTS
  Users,        \* customers
  Orders,       \* orders on the road
  buyerOf,      \* their customers
  Closers       \* transactions that close runs

NoReferrer == "nobody"

ASSUME ReferralAssumption == buyerOf \in [Orders -> Users] /\ NoReferrer \notin Users

VARIABLES
  account,     \* rows of the customers: none, or referrer, mark and credit
  orderRow,    \* rows of the orders: on the road, delivered, or moved on since
  closing,     \* the transactions under way
  rewards,     \* history: the credits each referee has brought
  overlapped   \* history: referees two of whose orders were closed at the same time

referralVars == <<account, orderRow, closing, rewards, overlapped>>

Unregistered == [exists |-> FALSE, referredBy |-> NoReferrer, rewarded |-> FALSE, credit |-> 0]
Idle == [at |-> "idle", order |-> "none"]

ReferralInit ==
  /\ account = [u \in Users |-> Unregistered]
  /\ orderRow = [o \in Orders |-> "road"]
  /\ closing = [c \in Closers |-> Idle]
  /\ rewards = [u \in Users |-> 0]
  /\ overlapped = {}

buyer(c) == buyerOf[closing[c].order]
referrer(c) == account[buyer(c)].referredBy

\* The rows a transaction has written, and holds.
HoldsOrder(c, o) == closing[c].order = o /\ closing[c].at \notin {"idle", "read"}
HoldsUser(c, u) == closing[c].at = "marked" /\ buyer(c) = u

-----------------------------------------------------------------------------

\* An unknown code is ignored; a known one belongs to an account that exists.
register(u, code) ==
  /\ ~ account[u].exists
  /\ code # NoReferrer => account[code].exists
  /\ account' = [account EXCEPT ![u] = [Unregistered EXCEPT !.exists = TRUE, !.referredBy = code]]
  /\ UNCHANGED <<orderRow, closing, rewards, overlapped>>

\* A run of the order is closed: its status is read.
ClosingReads(c, o) ==
  /\ closing[c].at = "idle"
  /\ account[buyerOf[o]].exists
  /\ orderRow[o] = "road"
  /\ closing' = [closing EXCEPT ![c] = [at |-> "read", order |-> o]]
  /\ UNCHANGED <<account, orderRow, rewards, overlapped>>

\* The order is written DELIVERED; only the transaction sees it.
ClosingWrites(c) ==
  LET o == closing[c].order IN
  /\ closing[c].at = "read"
  /\ \A other \in Closers : ~ HoldsOrder(other, o)
  /\ closing' = [closing EXCEPT ![c].at = "written"]
  /\ overlapped' =
       IF \E other \in Closers \ {c} :
            closing[other].at \notin {"idle", "read"} /\ buyer(other) = buyer(c)
       THEN overlapped \cup {buyer(c)} ELSE overlapped
  /\ UNCHANGED <<account, orderRow, rewards>>

\* Faulty variant: only what was committed is counted, and not this order.
deliveredCommitted(c) ==
  Cardinality({o \in Orders : buyerOf[o] = buyer(c) /\ orderRow[o] = "delivered"})

\* The orders delivered to the buyer, this one included.
deliveredCount(c) ==
  Cardinality({o \in Orders : buyerOf[o] = buyer(c)
                                /\ (orderRow[o] = "delivered" \/ closing[c].order = o)})

\* awardReferralIfFirstDelivery: the referee is read, then his orders counted.
AwardReads(c) ==
  /\ closing[c].at = "written"
  /\ closing' = [closing EXCEPT ![c].at =
       IF referrer(c) = NoReferrer \/ account[buyer(c)].rewarded THEN "done" ELSE "counts"]
  /\ UNCHANGED <<account, orderRow, rewards, overlapped>>

AwardCounts(c) ==
  /\ closing[c].at = "counts"
  /\ closing' = [closing EXCEPT ![c].at = IF deliveredCount(c) = 1 THEN "marks" ELSE "done"]
  /\ UNCHANGED <<account, orderRow, rewards, overlapped>>

\* referralRewardedAt is written on the referee, whatever it has become.
AwardMarks(c) ==
  /\ closing[c].at = "marks"
  /\ \A other \in Closers : ~ HoldsUser(other, buyer(c))
  /\ closing' = [closing EXCEPT ![c].at = "marked"]
  /\ UNCHANGED <<account, orderRow, rewards, overlapped>>

WritesDelivered(c) == orderRow' = [orderRow EXCEPT ![closing[c].order] = "delivered"]

\* The credit of the referrer is incremented once his row is free, and all is
\* committed.
AwardCredits(c) ==
  /\ closing[c].at = "marked"
  /\ \A other \in Closers : ~ HoldsUser(other, referrer(c))
  /\ account' = [account EXCEPT ![buyer(c)].rewarded = TRUE, ![referrer(c)].credit = @ + 1]
  /\ rewards' = [rewards EXCEPT ![buyer(c)] = @ + 1]
  /\ WritesDelivered(c)
  /\ closing' = [closing EXCEPT ![c] = Idle]
  /\ UNCHANGED overlapped

ClosingCommits(c) ==
  /\ closing[c].at = "done"
  /\ WritesDelivered(c)
  /\ closing' = [closing EXCEPT ![c] = Idle]
  /\ UNCHANGED <<account, rewards, overlapped>>

\* The process is recycled, or a statement fails: nothing was written.
ClosingRollsBack(c) ==
  /\ closing[c].at # "idle"
  /\ closing' = [closing EXCEPT ![c] = Idle]
  /\ UNCHANGED <<account, orderRow, rewards, overlapped>>

\* An advance of the manager that had read the order before its delivery; its
\* run stays delivered, and is not closed again.
StaleAdvance(o) ==
  /\ orderRow[o] = "delivered"
  /\ \A c \in Closers : ~ HoldsOrder(c, o)
  /\ orderRow' = [orderRow EXCEPT ![o] = "moved on"]
  /\ UNCHANGED <<account, closing, rewards, overlapped>>

ReferralNext ==
  \/ \E u \in Users, code \in Users \cup {NoReferrer} : register(u, code)
  \/ \E c \in Closers :
       \/ \E o \in Orders : ClosingReads(c, o)
       \/ ClosingWrites(c) \/ AwardReads(c) \/ AwardCounts(c) \/ AwardMarks(c) \/ AwardCredits(c)
       \/ ClosingCommits(c) \/ ClosingRollsBack(c)
  \/ \E o \in Orders : StaleAdvance(o)

ReferralSpec == ReferralInit /\ [][ReferralNext]_referralVars

-----------------------------------------------------------------------------
(* Properties.                                                             *)

WaitsFor(c) ==
  CASE closing[c].at = "read" -> {other \in Closers : HoldsOrder(other, closing[c].order)}
    [] closing[c].at = "marks" -> {other \in Closers : HoldsUser(other, buyer(c))}
    [] closing[c].at = "marked" -> {other \in Closers : HoldsUser(other, referrer(c))}
    [] OTHER -> {}

(* A referee whose order was delivered has brought his referrer a credit,    *)
(* and one only unless two of his orders were closed at the same time; the   *)
(* credit of a referrer is what his referees have brought; closings that     *)
(* wait for each other's rows are never all waiting, for nobody is his own   *)
(* referrer, however indirectly.                                            *)
RewardFollowsDelivery ==
  /\ \A o \in Orders : orderRow[o] # "road" /\ account[buyerOf[o]].referredBy # NoReferrer =>
       account[buyerOf[o]].rewarded
  /\ \A u \in Users : account[u].rewarded <=> rewards[u] > 0
  /\ \A u \in Users \ overlapped : rewards[u] <= 1
  /\ \A r \in Users :
       account[r].credit
         = MapThenSumSet(LAMBDA u : rewards[u], {u \in Users : account[u].referredBy = r})
  /\ (\E c \in Closers : closing[c].at # "idle") =>
       \E c \in Closers : closing[c].at # "idle" /\ WaitsFor(c) = {}
=============================================================================
