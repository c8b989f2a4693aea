------------------------------- MODULE SetSums -------------------------------
(***************************************************************************)
(* Sums over finite sets, and the least and greatest members of sets of    *)
(* naturals.  The models add with the recursion of the community modules   *)
(* (MapThenSumSet), which picks one member after another; these lemmas say *)
(* what such a sum is whatever member is picked.  The library's induction  *)
(* on finite sets takes a predicate as a parameter, which no prover here   *)
(* instantiates: each induction is a least counterexample of a             *)
(* well-founded order instead.                                             *)
(***************************************************************************)
EXTENDS Integers, FiniteSets, FiniteSetTheorems, WellFoundedInduction, TLAPS

\* Of the finite sets a property is not true of, one has only subsets it is true of.
LEMMA MinimalSet ==
  ASSUME NEW S, IsFiniteSet(S), NEW Bad \in SUBSET (SUBSET S), Bad # {}
  PROVE  \E T \in Bad : \A U \in SUBSET T : U \in Bad => U = T
  <1> DEFINE R == StrictSubsetOrdering(S)
  <1>1. IsWellFoundedOn(R, FiniteSubsetsOf(S))
    BY FS_StrictSubsetOrderingWellFounded
  <1>2. Bad \subseteq FiniteSubsetsOf(S)
    BY FS_Subset DEF FiniteSubsetsOf
  <1>3. PICK T \in Bad : \A U \in Bad : ~ (<<U, T>> \in R)
    <2> HIDE DEF R
    <2>1. QED BY <1>1, <1>2, WFMin
  <1>4. ASSUME NEW U \in SUBSET T, U \in Bad, U # T PROVE FALSE
    <2>1. <<U, T>> \in R
      BY <1>4 DEF StrictSubsetOrdering
    <2>2. QED BY <1>3, <1>4, <2>1
  <1>5. QED BY <1>4

Picked(T) == CHOOSE x \in T : TRUE

\* f adds the weights w over every subset of S, one picked member after another.
Adds(f, w, S) ==
  f = [T \in SUBSET S |-> IF T = {} THEN 0 ELSE w[Picked(T)] + f[T \ {Picked(T)}]]

SameWeights(w, z, T) == \A x \in T : w[x] = z[x]

Sum(w, S) == (CHOOSE f : Adds(f, w, S))[S]

LEMMA PickedIsMember ==
  ASSUME NEW T, T # {}
  PROVE  Picked(T) \in T
  BY DEF Picked

LEMMA AddsStep ==
  ASSUME NEW f, NEW w, NEW S, Adds(f, w, S)
  PROVE  /\ f[{}] = 0
         /\ \A T \in SUBSET S : T # {} => f[T] = w[Picked(T)] + f[T \ {Picked(T)}]
  BY DEF Adds

\* Two such functions agree where both are defined and the weights are the same.
LEMMA AddsAgree ==
  ASSUME NEW f, NEW g, NEW w, NEW z, NEW S, NEW R, NEW T, IsFiniteSet(T),
         Adds(f, w, S), Adds(g, z, R), T \subseteq S, T \subseteq R,
         SameWeights(w, z, T)
  PROVE  f[T] = g[T]
  <1> DEFINE Bad == {U \in SUBSET T : f[U] # g[U]}
  <1>1. SUFFICES ASSUME Bad # {} PROVE FALSE
    BY DEF Bad
  <1>2. PICK U \in Bad : \A V \in SUBSET U : V \in Bad => V = U
    <2>1. Bad \in SUBSET (SUBSET T)
      OBVIOUS
    <2> HIDE DEF Bad
    <2>2. QED BY <1>1, <2>1, MinimalSet
  <1>3. U \subseteq T /\ f[U] # g[U]
    OBVIOUS
  <1>4. U # {}
    BY <1>3, AddsStep
  <1> DEFINE k == Picked(U)
  <1>5. k \in U
    BY <1>4, PickedIsMember
  <1>6. f[U] = w[k] + f[U \ {k}] /\ g[U] = z[k] + g[U \ {k}]
    <2>1. U \in SUBSET S /\ U \in SUBSET R
      BY <1>3
    <2>2. \A V \in SUBSET S : V # {} => f[V] = w[Picked(V)] + f[V \ {Picked(V)}]
      BY AddsStep
    <2>3. \A V \in SUBSET R : V # {} => g[V] = z[Picked(V)] + g[V \ {Picked(V)}]
      BY AddsStep
    <2>4. QED BY <1>4, <2>1, <2>2, <2>3
  <1>7. f[U \ {k}] = g[U \ {k}]
    <2>1. U \ {k} \in SUBSET U /\ U \ {k} # U
      BY <1>5
    <2>2. U \ {k} \notin Bad
      BY <1>2, <2>1
    <2>3. QED BY <1>3, <2>2
  <1>8. w[k] = z[k]
    BY <1>3, <1>5 DEF SameWeights
  <1>9. QED BY <1>3, <1>6, <1>7, <1>8

LEMMA AddsExists ==
  ASSUME NEW w, NEW S, IsFiniteSet(S)
  PROVE  \E f : Adds(f, w, S)
  <1> DEFINE Bad == {T \in SUBSET S : ~ \E f : Adds(f, w, T)}
  <1>1. SUFFICES ASSUME Bad # {} PROVE FALSE
    BY DEF Bad
  <1>2. PICK T \in Bad : \A U \in SUBSET T : U \in Bad => U = T
    <2>1. Bad \in SUBSET (SUBSET S)
      OBVIOUS
    <2> HIDE DEF Bad
    <2>2. QED BY <1>1, <2>1, MinimalSet
  <1>3. T \subseteq S /\ ~ \E f : Adds(f, w, T)
    OBVIOUS
  <1>4. ASSUME NEW U \in SUBSET T, U # T PROVE \E f : Adds(f, w, U)
    <2>1. U \notin Bad
      BY <1>2, <1>4
    <2>2. QED BY <1>3, <2>1
  <1> DEFINE F(U) == CHOOSE f : Adds(f, w, U)
             h == [U \in SUBSET T |-> IF U = {} THEN 0
                                      ELSE w[Picked(U)] + F(U \ {Picked(U)})[U \ {Picked(U)}]]
  <1>5. ASSUME NEW U \in SUBSET T, U # T PROVE Adds(F(U), w, U)
    BY <1>4, <1>5
  <1> HIDE DEF F, Bad
  <1>6. ASSUME NEW U \in SUBSET T, U # T PROVE h[U] = F(U)[U]
    <2>1. CASE U = {}
      <3>1. Adds(F(U), w, U)
        BY <1>5, <1>6
      <3>2. F(U)[{}] = 0
        BY <3>1, AddsStep
      <3>3. QED BY <2>1, <3>2
    <2>2. CASE U # {}
      <3> DEFINE V == U \ {Picked(U)}
      <3>1. V \in SUBSET T /\ V # T /\ V \subseteq U /\ Picked(U) \in U
        BY <2>2, PickedIsMember
      <3>2. Adds(F(U), w, U) /\ Adds(F(V), w, V)
        BY <1>5, <1>6, <3>1
      <3>3. F(U)[U] = w[Picked(U)] + F(U)[V]
        BY <2>2, <3>2, AddsStep
      <3>4. IsFiniteSet(V)
        BY <1>3, <3>1, FS_Subset
      <3>5. F(U)[V] = F(V)[V]
        <4> HIDE DEF V
        <4>1. SameWeights(w, w, V)
          BY DEF SameWeights
        <4>2. QED BY <3>1, <3>2, <3>4, <4>1, AddsAgree
      <3>6. h[U] = w[Picked(U)] + F(V)[V]
        BY <2>2
      <3>7. QED BY <3>3, <3>5, <3>6
    <2>3. QED BY <2>1, <2>2
  <1>7. ASSUME NEW U \in SUBSET T
        PROVE  h[U] = IF U = {} THEN 0 ELSE w[Picked(U)] + h[U \ {Picked(U)}]
    <2>1. CASE U = {}
      BY <2>1
    <2>2. CASE U # {}
      <3> DEFINE V == U \ {Picked(U)}
      <3>1. V \in SUBSET T /\ V # T
        BY <2>2, PickedIsMember
      <3>2. h[V] = F(V)[V]
        BY <1>6, <3>1
      <3>3. h[U] = w[Picked(U)] + F(V)[V]
        BY <2>2
      <3>4. QED BY <2>2, <3>2, <3>3
    <2>3. QED BY <2>1, <2>2
  <1>8. h = [U \in SUBSET T |-> IF U = {} THEN 0 ELSE w[Picked(U)] + h[U \ {Picked(U)}]]
    <2>1. h = [U \in SUBSET T |-> h[U]]
      OBVIOUS
    <2> HIDE DEF h
    <2>2. QED BY <1>7, <2>1
  <1> HIDE DEF h
  <1>9. Adds(h, w, T)
    BY <1>8 DEF Adds
  <1>10. QED BY <1>3, <1>9

LEMMA SumAdds ==
  ASSUME NEW w, NEW S, IsFiniteSet(S)
  PROVE  Adds(CHOOSE f : Adds(f, w, S), w, S)
  BY AddsExists

\* Any function that adds gives the sum.
LEMMA SumIs ==
  ASSUME NEW f, NEW w, NEW z, NEW S, NEW T, IsFiniteSet(S), T \subseteq S, Adds(f, w, S),
         SameWeights(w, z, T)
  PROVE  f[T] = Sum(z, T)
  <1> DEFINE g == CHOOSE g : Adds(g, z, T)
  <1>1. IsFiniteSet(T)
    BY FS_Subset
  <1>2. Adds(g, z, T)
    BY <1>1, SumAdds
  <1>3. Sum(z, T) = g[T]
    BY DEF Sum
  <1> HIDE DEF g
  <1>4. f[T] = g[T]
    BY <1>1, <1>2, AddsAgree
  <1>5. QED BY <1>3, <1>4

LEMMA SumOfNone ==
  ASSUME NEW w
  PROVE  Sum(w, {}) = 0
  <1>1. Adds(CHOOSE f : Adds(f, w, {}), w, {})
    BY SumAdds, FS_EmptySet
  <1>2. QED BY <1>1, AddsStep DEF Sum

LEMMA SumPicks ==
  ASSUME NEW w, NEW S, IsFiniteSet(S), S # {}
  PROVE  Sum(w, S) = w[Picked(S)] + Sum(w, S \ {Picked(S)})
  <1> DEFINE f == CHOOSE f : Adds(f, w, S)
  <1>1. Adds(f, w, S)
    BY SumAdds
  <1>2. f[S] = w[Picked(S)] + f[S \ {Picked(S)}]
    BY <1>1, AddsStep
  <1>3. Sum(w, S) = f[S]
    BY DEF Sum
  <1> HIDE DEF f
  <1>4. f[S \ {Picked(S)}] = Sum(w, S \ {Picked(S)})
    <2>1. SameWeights(w, w, S \ {Picked(S)})
      BY DEF SameWeights
    <2>2. QED BY <1>1, <2>1, SumIs
  <1>5. QED BY <1>2, <1>3, <1>4

LEMMA SumIsInteger ==
  ASSUME NEW w, NEW S, IsFiniteSet(S), \A x \in S : w[x] \in Int
  PROVE  Sum(w, S) \in Int
  <1> DEFINE Bad == {T \in SUBSET S : Sum(w, T) \notin Int}
  <1>1. SUFFICES ASSUME Bad # {} PROVE FALSE
    BY DEF Bad
  <1>2. PICK T \in Bad : \A U \in SUBSET T : U \in Bad => U = T
    <2>1. Bad \in SUBSET (SUBSET S)
      OBVIOUS
    <2> HIDE DEF Bad
    <2>2. QED BY <1>1, <2>1, MinimalSet
  <1>3. T \subseteq S /\ Sum(w, T) \notin Int /\ T # {}
    BY SumOfNone
  <1> DEFINE k == Picked(T)
  <1>4. k \in T
    BY <1>3, PickedIsMember
  <1>5. Sum(w, T) = w[k] + Sum(w, T \ {k})
    BY <1>3, FS_Subset, SumPicks
  <1>6. Sum(w, T \ {k}) \in Int
    <2>1. T \ {k} \in SUBSET T /\ T \ {k} # T
      BY <1>4
    <2>2. T \ {k} \notin Bad
      BY <1>2, <2>1
    <2>3. QED BY <1>3, <2>2
  <1>7. w[k] \in Int
    BY <1>3, <1>4
  <1>8. QED BY <1>3, <1>5, <1>6, <1>7

\* Any member may be added last.
LEMMA SumTakesAny ==
  ASSUME NEW w, NEW S, IsFiniteSet(S), \A x \in S : w[x] \in Int
  PROVE  \A k \in S : Sum(w, S) = w[k] + Sum(w, S \ {k})
  <1> DEFINE Takes(T) == \A k \in T : Sum(w, T) = w[k] + Sum(w, T \ {k})
             Bad == {T \in SUBSET S : ~ Takes(T)}
  <1>1. SUFFICES ASSUME Bad # {} PROVE FALSE
    BY DEF Bad
  <1>2. PICK T \in Bad : \A U \in SUBSET T : U \in Bad => U = T
    <2>1. Bad \in SUBSET (SUBSET S)
      OBVIOUS
    <2> HIDE DEF Bad
    <2>2. QED BY <1>1, <2>1, MinimalSet
  <1>3. ASSUME NEW U \in SUBSET T, U # T PROVE Takes(U)
    <2>1. U \notin Bad /\ U \in SUBSET S
      BY <1>2, <1>3
    <2>2. QED BY <2>1
  <1>4. PICK k \in T : Sum(w, T) # w[k] + Sum(w, T \ {k})
    OBVIOUS
  <1>5. PICK c \in T : c = Picked(T)
    BY PickedIsMember
  <1>6. T \subseteq S /\ IsFiniteSet(T) /\ IsFiniteSet((T \ {c}) \ {k})
    BY FS_Subset
  <1> HIDE DEF Takes, Bad
  <1>7. Sum(w, T) = w[c] + Sum(w, T \ {c})
    BY <1>5, <1>6, SumPicks
  <1>8. c # k
    BY <1>4, <1>7
  <1>9. Sum(w, T \ {c}) = w[k] + Sum(w, (T \ {c}) \ {k})
    <2>1. Takes(T \ {c})
      BY <1>3
    <2>2. k \in T \ {c}
      BY <1>8
    <2>3. Sum(w, T \ {c}) = w[k] + Sum(w, (T \ {c}) \ {k})
      BY <2>1, <2>2 DEF Takes
    <2>4. QED BY <2>3
  <1>10. Sum(w, T \ {k}) = w[c] + Sum(w, (T \ {c}) \ {k})
    <2>1. Takes(T \ {k})
      BY <1>3
    <2>2. (T \ {k}) \ {c} = (T \ {c}) \ {k} /\ c \in T \ {k}
      BY <1>8
    <2>3. Sum(w, T \ {k}) = w[c] + Sum(w, (T \ {k}) \ {c})
      BY <2>1, <2>2 DEF Takes
    <2>4. QED BY <2>2, <2>3
  <1>11. Sum(w, (T \ {c}) \ {k}) \in Int /\ w[c] \in Int /\ w[k] \in Int
    <2>1. \A x \in (T \ {c}) \ {k} : w[x] \in Int
      BY <1>6
    <2>2. QED BY <1>6, <2>1, SumIsInteger
  <1>12. QED BY <1>4, <1>7, <1>9, <1>10, <1>11

(* Whatever member the recursion picks first, a sum over a finite set is the *)
(* weight of any one member and the sum of the others: what an order that is *)
(* made or cancelled adds to, or takes from, the total of the orders.        *)
THEOREM SumTakes ==
  ASSUME NEW w, NEW S, IsFiniteSet(S), \A x \in S : w[x] \in Int, NEW k \in S
  PROVE  Sum(w, S) = w[k] + Sum(w, S \ {k})
  BY SumTakesAny

\* Equal weights, equal sums.
LEMMA SumsEqual ==
  ASSUME NEW w, NEW z, NEW S, IsFiniteSet(S), \A x \in S : w[x] = z[x]
  PROVE  Sum(w, S) = Sum(z, S)
  <1> DEFINE f == CHOOSE f : Adds(f, w, S)
  <1>1. Adds(f, w, S)
    BY SumAdds
  <1>2. Sum(w, S) = f[S]
    BY DEF Sum
  <1> HIDE DEF f
  <1>3. f[S] = Sum(z, S)
    <2>1. SameWeights(w, z, S)
      BY DEF SameWeights
    <2>2. QED BY <1>1, <2>1, SumIs
  <1>4. QED BY <1>2, <1>3

-----------------------------------------------------------------------------
(* The least and the greatest member of a set of naturals.                 *)

\* Weights no greater, a sum no greater.
LEMMA SumCompares ==
  ASSUME NEW w, NEW z, NEW S, IsFiniteSet(S),
         \A x \in S : w[x] \in Int /\ z[x] \in Int /\ w[x] <= z[x]
  PROVE  Sum(w, S) <= Sum(z, S)
  <1> DEFINE Bad == {T \in SUBSET S : ~ (Sum(w, T) <= Sum(z, T))}
  <1>1. SUFFICES ASSUME Bad # {} PROVE FALSE
    BY DEF Bad
  <1>2. PICK T \in Bad : \A U \in SUBSET T : U \in Bad => U = T
    <2>1. Bad \in SUBSET (SUBSET S)
      OBVIOUS
    <2> HIDE DEF Bad
    <2>2. QED BY <1>1, <2>1, MinimalSet
  <1>3. T \subseteq S /\ IsFiniteSet(T) /\ ~ (Sum(w, T) <= Sum(z, T)) /\ T # {}
    <2>1. T \in SUBSET S /\ ~ (Sum(w, T) <= Sum(z, T))
      OBVIOUS
    <2>2. IsFiniteSet(T)
      BY <2>1, FS_Subset
    <2>3. Sum(w, {}) = 0 /\ Sum(z, {}) = 0
      BY SumOfNone
    <2>4. QED BY <2>1, <2>2, <2>3
  <1>4. PICK k \in T : k = Picked(T)
    BY <1>3, PickedIsMember
  <1> DEFINE U == T \ {k}
  <1>5. U \in SUBSET T /\ U # T /\ IsFiniteSet(U) /\ U \subseteq S
    BY <1>3, FS_Subset
  <1>6. Sum(w, U) <= Sum(z, U)
    BY <1>2, <1>5
  <1>7. Sum(w, T) = w[k] + Sum(w, U) /\ Sum(z, T) = z[k] + Sum(z, U)
    BY <1>3, <1>4, SumPicks
  <1> HIDE DEF U, Bad
  <1>8. Sum(w, U) \in Int /\ Sum(z, U) \in Int
    <2>1. \A x \in U : w[x] \in Int /\ z[x] \in Int
      BY <1>5
    <2>2. QED BY <1>5, <2>1, SumIsInteger
  <1>9. w[k] \in Int /\ z[k] \in Int /\ w[k] <= z[k]
    BY <1>3
  <1>10. QED BY <1>3, <1>6, <1>7, <1>8, <1>9

\* The sum of a multiple and a constant.
Affine(z, w, S, a, c) == \A x \in S : w[x] \in Int /\ z[x] = a * w[x] + c

LEMMA SumAffine ==
  ASSUME NEW w, NEW z, NEW S, IsFiniteSet(S), NEW a \in Int, NEW c \in Int,
         Affine(z, w, S, a, c)
  PROVE  Sum(z, S) = a * Sum(w, S) + c * Cardinality(S)
  <1> DEFINE Holds(T) == Sum(z, T) = a * Sum(w, T) + c * Cardinality(T)
             Bad == {T \in SUBSET S : ~ Holds(T)}
  <1>1. SUFFICES ASSUME Bad # {} PROVE FALSE
    BY DEF Bad
  <1>2. PICK T \in Bad : \A U \in SUBSET T : U \in Bad => U = T
    <2>1. Bad \in SUBSET (SUBSET S)
      OBVIOUS
    <2> HIDE DEF Bad
    <2>2. QED BY <1>1, <2>1, MinimalSet
  <1>3. T \subseteq S /\ IsFiniteSet(T) /\ ~ Holds(T)
    BY FS_Subset
  <1>4. T # {}
    <2>1. Holds({})
      BY SumOfNone, FS_EmptySet
    <2>2. QED BY <1>3, <2>1
  <1>5. PICK k \in T : k = Picked(T)
    BY <1>4, PickedIsMember
  <1> DEFINE U == T \ {k}
  <1>6. U \in SUBSET T /\ U # T /\ IsFiniteSet(U) /\ U \subseteq S
    BY <1>3, FS_Subset
  <1>7. Holds(U)
    BY <1>2, <1>6
  <1>8. Sum(w, T) = w[k] + Sum(w, U) /\ Sum(z, T) = z[k] + Sum(z, U)
    BY <1>3, <1>4, <1>5, SumPicks
  <1>9. Cardinality(T) = Cardinality(U) + 1 /\ Cardinality(U) \in Nat
    BY <1>3, <1>6, FS_RemoveElement, FS_CardinalityType
  <1> HIDE DEF U, Bad
  <1>10. Sum(w, U) \in Int
    <2>1. \A x \in U : w[x] \in Int
      BY <1>6 DEF Affine
    <2>2. QED BY <1>6, <2>1, SumIsInteger
  <1>11. w[k] \in Int /\ z[k] = a * w[k] + c
    BY <1>3 DEF Affine
  <1>12. Holds(T)
    BY <1>7, <1>8, <1>9, <1>10, <1>11
  <1>13. QED BY <1>3, <1>12

\* A set of naturals that has a member has a least one.
LEMMA LeastNatural ==
  ASSUME NEW S \in SUBSET Nat, S # {}
  PROVE  \E m \in S : \A n \in S : m <= n
  <1>1. IsWellFoundedOn(OpToRel(<, Nat), Nat)
    BY NatLessThanWellFounded
  <1>2. PICK m \in S : \A n \in S : ~ (<<n, m>> \in OpToRel(<, Nat))
    BY <1>1, WFMin
  <1>3. \A n \in S : ~ (n < m)
    BY <1>2 DEF OpToRel
  <1>4. QED BY <1>3

\* A bounded set of naturals that has a member has a greatest one.
LEMMA GreatestNatural ==
  ASSUME NEW S \in SUBSET Nat, S # {}, NEW b \in Nat, \A n \in S : n <= b
  PROVE  \E m \in S : \A n \in S : n <= m
  <1> DEFINE T == {b - n : n \in S}
  <1>1. T \in SUBSET Nat /\ T # {}
    <2>1. \A n \in S : b - n \in Nat
      OBVIOUS
    <2>2. QED BY <2>1
  <1>2. PICK t \in T : \A u \in T : t <= u
    BY <1>1, LeastNatural
  <1>3. PICK m \in S : t = b - m
    BY <1>2
  <1>4. \A n \in S : b - n \in T
    OBVIOUS
  <1>5. ASSUME NEW n \in S PROVE n <= m
    <2>1. t <= b - n
      BY <1>2, <1>4
    <2>2. QED BY <1>3, <2>1
  <1>6. QED BY <1>5
=============================================================================
