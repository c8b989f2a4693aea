----------------------------- MODULE Analytics -----------------------------
(***************************************************************************)
(* The figures of the management (AnalyticsService.executiveDashboard,       *)
(* app/direction): thirteen statements sent together, each of which reads    *)
(* the tables at its own instant while orders are placed and cancelled and   *)
(* deliveries closed; the answer is checked by the telephone against the     *)
(* schema of the contract, and refused as a whole if one figure is out of    *)
(* its bounds.  The statements on customers, stocks, harvests and late runs  *)
(* are counts that nothing is compared with, and the orders of the former    *)
(* month go as its revenue does: they are left out.                          *)
(***************************************************************************)
EXTENDS Integers, Sequences, FiniteSets, FiniteSetsExt, Functions

CONSTANTS
  Sales,                 \* orders that may be placed
  Courses,               \* deliveries that may be closed
  closureOf,             \* whether each is closed by its code or by a manager
  rangeOf,               \* the category of the goods of each
  totalOf,               \* its total
  SALES_HISTORY_MONTHS,  \* months of the history, the current one included
  LastMonth,             \* bound: months that pass
  MaxUpsets              \* bound: orders and deliveries that move during one reading

ASSUME AnalyticsAssumption ==
  /\ IsFiniteSet(Sales) /\ IsFiniteSet(Courses)
  /\ closureOf \in [Courses -> {"OTP_VERIFIED", "MANAGER_OVERRIDE"}]
  /\ totalOf \in [Sales -> Nat \ {0}] /\ DOMAIN rangeOf = Sales
  /\ SALES_HISTORY_MONTHS \in Nat \ {0, 1}
  /\ LastMonth \in Nat /\ MaxUpsets \in Nat

VARIABLES
  sold,    \* order rows: their status, the month of their creation
  course,  \* delivery rows: the month they were closed in, 0 while they are open
  month,   \* the current month
  board    \* the dashboard: the request, the figures answered so far, what moved meanwhile

analyticsVars == <<sold, course, month, board>>

NoSaleYet == [status |-> "none", month |-> 0]
NoBoard == [at |-> "idle", month |-> 0, figures |-> << >>, upsets |-> 0]

AnalyticsInit ==
  /\ sold = [o \in Sales |-> NoSaleYet]
  /\ course = [d \in Courses |-> 0]
  /\ month = SALES_HISTORY_MONTHS
  /\ board = NoBoard

-----------------------------------------------------------------------------
(* The figures (packages/contracts/src/analytics.ts).                       *)

\* Math.round of a quotient.
Rounded(n, d) == (2 * n + d) \div (2 * d)

\* No percentage is given where there is no reference; tenths of a percent.
growthRate(current, previous) ==
  IF previous <= 0 THEN {} ELSE {Rounded((current - previous) * 1000, previous)}

averageBasket(revenue, count) == IF count = 0 THEN 0 ELSE Rounded(revenue, count)

\* Each share is rounded; what they miss of 100 goes to the largest of them.
distributionShares(revenue) ==
  LET total   == MapThenSumSet(LAMBDA r : revenue[r], DOMAIN revenue)
      rounded == [r \in DOMAIN revenue |-> Rounded(100 * revenue[r], total)]
      drift   == 100 - MapThenSumSet(LAMBDA r : rounded[r], DOMAIN revenue)
      biggest == CHOOSE r \in DOMAIN revenue : \A q \in DOMAIN revenue : revenue[q] <= revenue[r]
  IN IF total = 0 THEN [r \in DOMAIN revenue |-> 0] ELSE [rounded EXCEPT ![biggest] = @ + drift]

\* A cancelled order has earned nothing.
EarnedIn(m) == {o \in Sales : sold[o].status = "placed" /\ sold[o].month = m}
RevenueOf(orders) == MapThenSumSet(LAMBDA o : totalOf[o], orders)
ClosedIn(m) == {d \in Courses : course[d] = m}

\* Faulty variant: the cancelled orders of the history are counted in.
salesHistoryGross(now) ==
  [i \in 1..SALES_HISTORY_MONTHS |->
     LET m      == now - SALES_HISTORY_MONTHS + i
         placed == {o \in Sales : sold[o].month = m} IN
     [month |-> m, revenue |-> RevenueOf(placed), orders |-> Cardinality(placed)]]

\* The last months, those without a sale included.
salesHistory(now) ==
  [i \in 1..SALES_HISTORY_MONTHS |->
     LET m == now - SALES_HISTORY_MONTHS + i IN
     [month |-> m, revenue |-> RevenueOf(EarnedIn(m)), orders |-> Cardinality(EarnedIn(m))]]

\* Categories that have sold, and what they have.
categoryBreakdown(now) ==
  distributionShares(
    [r \in {rangeOf[o] : o \in EarnedIn(now)} |->
       RevenueOf({o \in EarnedIn(now) : rangeOf[o] = r})])

Statements ==
  {"revenue", "orders", "previousRevenue", "manualClosures", "deliveredMonth",
   "history", "categories"}

Answer(statement, now) ==
  CASE statement = "revenue"         -> RevenueOf(EarnedIn(now))
    [] statement = "orders"          -> Cardinality(EarnedIn(now))
    [] statement = "previousRevenue" -> RevenueOf(EarnedIn(now - 1))
    [] statement = "manualClosures"  ->
         Cardinality({d \in ClosedIn(now) : closureOf[d] = "MANAGER_OVERRIDE"})
    [] statement = "deliveredMonth"  -> Cardinality(ClosedIn(now))
    [] statement = "history"         -> salesHistory(now)
    [] statement = "categories"      -> categoryBreakdown(now)

-----------------------------------------------------------------------------
(* The shop goes on.                                                        *)

\* A few rows move while a dashboard is read; those that move while it is merely shown
\* move after it is left.
Upsets ==
  \/ board.at = "idle" /\ UNCHANGED board
  \/ /\ board.at = "reading" /\ board.upsets < MaxUpsets
     /\ board' = [board EXCEPT !.upsets = @ + 1]

orderPlaced(o) ==
  /\ sold[o].status = "none" /\ Upsets
  /\ sold' = [sold EXCEPT ![o] = [status |-> "placed", month |-> month]]
  /\ UNCHANGED <<course, month>>

orderCancelled(o) ==
  /\ sold[o].status = "placed" /\ Upsets
  /\ sold' = [sold EXCEPT ![o].status = "CANCELLED"]
  /\ UNCHANGED <<course, month>>

deliveryCloses(d) ==
  /\ course[d] = 0 /\ Upsets
  /\ course' = [course EXCEPT ![d] = month]
  /\ UNCHANGED <<sold, month>>

\* The bounds of the request are those of the month it began in.
monthPasses ==
  /\ month < LastMonth /\ board.at \in {"idle", "reading"}
  /\ month' = month + 1
  /\ UNCHANGED <<sold, course, board>>

-----------------------------------------------------------------------------
(* The dashboard.                                                           *)

executiveDashboard ==
  /\ board.at = "idle"
  /\ board' = [NoBoard EXCEPT !.at = "reading", !.month = month]
  /\ UNCHANGED <<sold, course, month>>

\* The statements end in the order their connections please.
statementAnswers(statement) ==
  /\ board.at = "reading" /\ statement \notin DOMAIN board.figures
  /\ board' = [board EXCEPT !.figures =
       [s \in DOMAIN @ \cup {statement} |->
          IF s = statement THEN Answer(s, board.month) ELSE board.figures[s]]]
  /\ UNCHANGED <<sold, course, month>>

\* The part of the deliveries closed without their code.
manualClosureRate ==
  IF board.figures["deliveredMonth"] = 0 THEN 0
  ELSE Rounded(100 * board.figures["manualClosures"], board.figures["deliveredMonth"])

\* executiveDashboardSchema: percentages are percentages.
executiveDashboardSchema ==
  /\ manualClosureRate \in 0..100
  /\ \A r \in DOMAIN board.figures["categories"] : board.figures["categories"][r] \in 0..100

\* The client checks the answer; the screen shows the figures, or that it failed.
boardShown ==
  /\ board.at = "reading" /\ DOMAIN board.figures = Statements
  /\ board' = [board EXCEPT !.at = IF executiveDashboardSchema THEN "shown" ELSE "refused"]
  /\ UNCHANGED <<sold, course, month>>

boardLeft ==
  /\ board.at \in {"shown", "refused"}
  /\ board' = NoBoard
  /\ UNCHANGED <<sold, course, month>>

AnalyticsNext ==
  \/ \E o \in Sales : orderPlaced(o) \/ orderCancelled(o)
  \/ \E d \in Courses : deliveryCloses(d)
  \/ monthPasses \/ executiveDashboard \/ boardShown \/ boardLeft
  \/ \E statement \in Statements : statementAnswers(statement)

AnalyticsSpec == AnalyticsInit /\ [][AnalyticsNext]_analyticsVars

-----------------------------------------------------------------------------
(* Properties.                                                             *)

(* The dashboard adds up.  Whatever moved while it was read, the shares it   *)
(* shows make a hundred, or there was no sale.  If nothing moved, it is      *)
(* shown, and its statements agree: the last bar of the history is the       *)
(* revenue and the number of orders of the month, the bar before it is the   *)
(* reference of the growth, the average basket lies between the cheapest and *)
(* the dearest order.  A reading that straddles a closure may be refused     *)
(* (more deliveries closed without their code than deliveries), one that     *)
(* straddles a sale may contradict itself.  With more than fifteen           *)
(* categories the correction of distributionShares can exceed the largest    *)
(* share (fifteen of 6.5 % and one of 2.5 %: the last largest is -1), which  *)
(* executiveDashboardSchema refuses.                                        *)
DashboardAddsUp ==
  LET figures == board.figures
      bars    == figures["history"]
      n       == SALES_HISTORY_MONTHS
      shares  == figures["categories"] IN
  board.at \in {"shown", "refused"} =>
    /\ DOMAIN shares # {} => MapThenSumSet(LAMBDA r : shares[r], DOMAIN shares) = 100
    /\ board.upsets = 0 =>
         /\ Cardinality(DOMAIN shares) <= 15 => board.at = "shown"
         /\ bars[n].revenue = figures["revenue"] /\ bars[n].orders = figures["orders"]
         /\ growthRate(figures["revenue"], figures["previousRevenue"]) =
              growthRate(bars[n].revenue, bars[n - 1].revenue)
         /\ figures["orders"] > 0 =>
              averageBasket(figures["revenue"], figures["orders"]) \in Min(Range(totalOf))..Max(Range(totalOf))
         /\ (DOMAIN shares = {}) <=> (figures["orders"] = 0)
=============================================================================
