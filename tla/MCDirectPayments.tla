-------------------------- MODULE MCDirectPayments --------------------------
(* Two orders; three spellings of two transfers, one typed in two ways.    *)
EXTENDS DirectPayments, TLC

CONSTANTS o1, o2, r1, d1, d2, ref1, ref1typed, ref2

TwoSpellingsOfOne == ref1 :> ref1 @@ ref1typed :> ref1 @@ ref2 :> ref2

SymmetricDesks == Permutations({d1, d2}) \cup Permutations({o1, o2})
=============================================================================
