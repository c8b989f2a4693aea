------------------------ MODULE MCAggregatorPayment ------------------------
(* Small instances of AggregatorPayment: one order, two openings of its    *)
(* payment.  Transactions and the handlers other than the sweep are         *)
(* interchangeable.                                                         *)
EXTENDS AggregatorPayment, TLC

CONSTANTS o1, r1, t1, t2, c1, c2, sweep

NoRequest == {}

SymmetricHandlers == Permutations({t1, t2}) \cup Permutations({c1, c2})
=============================================================================
