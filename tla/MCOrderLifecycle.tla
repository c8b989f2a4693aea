-------------------------- MODULE MCOrderLifecycle --------------------------
(* Small instances of OrderLifecycle.  Requests and orders are symmetric:  *)
(* no definition picks one of them, except the set of advancing contexts.  *)
EXTENDS OrderLifecycle, TLC

CONSTANTS o1, o2, r1, r2, r3

SymmetricContexts == Permutations({r1, r2, r3}) \cup Permutations({o1, o2})
=============================================================================
