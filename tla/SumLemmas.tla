------------------------------ MODULE SumLemmas -------------------------------
(***************************************************************************)
(* Sums over finite sets, as the ledgers of this project take them          *)
(* (MapThenSumSet of the community modules): how a sum changes when one     *)
(* term does.                                                               *)
(*                                                                          *)
(* The sum is a recursive function on the subsets of a set.  Every          *)
(* induction is on a smallest counterexample: the strict subsets of a       *)
(* finite set are well founded (FS_StrictSubsetOrderingWellFounded), so a   *)
(* non-empty set of finite sets has a member with no proper subset in it.   *)
(***************************************************************************)
EXTENDS Integers, FiniteSetsExt, FiniteSetTheorems, TLAPS

SumOf(f, S) == MapThenSumSet(LAMBDA x : f[x], S)

\* The element a sum takes first.
First(S) == CHOOSE x \in S : TRUE

\* g gives the sums over the subsets of S.
Sums(f, S, g) ==
  g = [U \in SUBSET S |-> IF U = {} THEN 0 ELSE f[First(U)] + g[U \ {First(U)}]]

\* A sum is its recursive function at the whole set.
LEMMA SumUnfold ==
  ASSUME NEW f, NEW S
  PROVE  SumOf(f, S) = (CHOOSE g : Sums(f, S, g))[S]
  BY DEF SumOf, MapThenSumSet, MapThenFoldSet, Sums, First

\* A set of subsets of a finite set has a smallest member.
LEMMA SmallestSubset ==
  ASSUME NEW S, IsFiniteSet(S), NEW T, T \subseteq SUBSET S, T # {}
  PROVE  \E U \in T : \A V \in SUBSET U : V # U => V \notin T
<1>1. IsWellFoundedOn(StrictSubsetOrdering(S), FiniteSubsetsOf(S))
  BY FS_StrictSubsetOrderingWellFounded
<1>2. T \subseteq FiniteSubsetsOf(S)
  BY FS_FiniteSubsetsOfFinite
<1>3. PICK U \in T : \A V \in T : <<V, U>> \notin StrictSubsetOrdering(S)
  BY <1>1, <1>2, WFMin
<1>4. ASSUME NEW V \in SUBSET U, V # U, V \in T PROVE FALSE
  <2>1. <<V, U>> \in StrictSubsetOrdering(S)
    BY <1>4 DEF StrictSubsetOrdering
  <2> QED
    BY <1>3, <1>4, <2>1
<1> QED
  BY <1>3, <1>4

\* Two sums over a set agree, whatever larger sets they come from, when their
\* terms do.
LEMMA SumsAgree ==
  ASSUME NEW f, NEW g, NEW A, NEW B, NEW G, NEW H, Sums(f, A, G), Sums(g, B, H),
         NEW S \in SUBSET (A \cap B), IsFiniteSet(S), \A x \in S : f[x] = g[x]
  PROVE  G[S] = H[S]
<1> DEFINE Bad == {U \in SUBSET S : G[U] # H[U]}
<1> SUFFICES ASSUME Bad # {} PROVE FALSE
  OBVIOUS
<1>1. PICK U \in Bad : \A V \in SUBSET U : V # U => V \notin Bad
  <2>1. Bad \subseteq SUBSET S
    OBVIOUS
  <2> HIDE DEF Bad
  <2> QED
    BY <2>1, SmallestSubset
<1>2. /\ G[U] = IF U = {} THEN 0 ELSE f[First(U)] + G[U \ {First(U)}]
      /\ H[U] = IF U = {} THEN 0 ELSE g[First(U)] + H[U \ {First(U)}]
  <2>1. U \in SUBSET A /\ U \in SUBSET B
    OBVIOUS
  <2> QED
    BY <2>1 DEF Sums
<1>3. U # {}
  BY <1>2
<1>4. First(U) \in U
  BY <1>3 DEF First
<1>5. G[U \ {First(U)}] = H[U \ {First(U)}] /\ f[First(U)] = g[First(U)]
  BY <1>1, <1>4
<1> QED
  BY <1>2, <1>3, <1>5

\* The recursion has a solution over every finite set.
LEMMA SumsExist ==
  ASSUME NEW f, NEW S, IsFiniteSet(S)
  PROVE  \E g : Sums(f, S, g)
<1> DEFINE Bad == {U \in SUBSET S : ~\E g : Sums(f, U, g)}
<1> SUFFICES ASSUME Bad # {} PROVE FALSE
  OBVIOUS
<1>1. PICK U \in Bad : \A V \in SUBSET U : V # U => V \notin Bad
  <2>1. Bad \subseteq SUBSET S
    OBVIOUS
  <2> HIDE DEF Bad
  <2> QED
    BY <2>1, SmallestSubset
<1> DEFINE G(V) == CHOOSE g : Sums(f, V, g)
           Rest(V) == V \ {First(V)}
           h == [V \in SUBSET U |-> IF V = {} THEN 0 ELSE f[First(V)] + G(Rest(V))[Rest(V)]]
<1>2. ASSUME NEW V \in SUBSET U, V # U PROVE Sums(f, V, G(V))
  <2>1. \E g : Sums(f, V, g)
    BY <1>1, <1>2
  <2> QED
    BY <2>1
<1>3. ASSUME NEW V \in SUBSET U, V # {}
      PROVE  First(V) \in V /\ Rest(V) \in SUBSET U /\ Rest(V) # U
  BY <1>3 DEF First
<1>4. ASSUME NEW V \in SUBSET U, V # U PROVE h[V] = G(V)[V]
  <2> HIDE DEF h, G
  <2>1. G(V)[V] = IF V = {} THEN 0 ELSE f[First(V)] + G(V)[Rest(V)]
    BY <1>2, <1>4 DEF Sums
  <2>2. h[V] = IF V = {} THEN 0 ELSE f[First(V)] + G(Rest(V))[Rest(V)]
    BY DEF h
  <2>3. CASE V = {}
    BY <2>1, <2>2, <2>3
  <2>4. CASE V # {}
    <3>1. Rest(V) \in SUBSET (V \cap Rest(V)) /\ IsFiniteSet(Rest(V))
      BY FS_Subset
    <3>2. Sums(f, V, G(V)) /\ Sums(f, Rest(V), G(Rest(V)))
      BY <1>2, <1>3, <1>4, <2>4
    <3>3. G(V)[Rest(V)] = G(Rest(V))[Rest(V)]
      BY <3>1, <3>2, SumsAgree
    <3> QED
      BY <2>1, <2>2, <2>4, <3>3
  <2> QED
    BY <2>3, <2>4
<1>5. \A V \in SUBSET U : V # {} => h[Rest(V)] = G(Rest(V))[Rest(V)]
  <2> HIDE DEF h, G
  <2> QED
    BY <1>3, <1>4
<1>6. h = [V \in SUBSET U |-> IF V = {} THEN 0 ELSE f[First(V)] + h[V \ {First(V)}]]
  <2>1. \A V \in SUBSET U : V # {} => G(Rest(V))[Rest(V)] = h[V \ {First(V)}]
    BY <1>5
  <2> HIDE DEF G
  <2> QED
    BY <2>1
<1>7. Sums(f, U, h)
  BY <1>6 DEF Sums
<1> QED
  BY <1>1, <1>7

-----------------------------------------------------------------------------
(* What a ledger asks of a sum.                                             *)

\* The empty sum is zero.
LEMMA SumEmpty ==
  ASSUME NEW f
  PROVE  SumOf(f, {}) = 0
<1>1. PICK g : Sums(f, {}, g)
  BY SumsExist, FS_EmptySet
<1>2. Sums(f, {}, CHOOSE h : Sums(f, {}, h))
  BY <1>1
<1> QED
  BY <1>2, SumUnfold DEF Sums

\* A sum takes its first element off.
LEMMA SumRecursion ==
  ASSUME NEW f, NEW S, IsFiniteSet(S), S # {}
  PROVE  /\ First(S) \in S
         /\ SumOf(f, S) = f[First(S)] + SumOf(f, S \ {First(S)})
<1> DEFINE Rest == S \ {First(S)}
           G == CHOOSE g : Sums(f, S, g)
           H == CHOOSE g : Sums(f, Rest, g)
<1>1. First(S) \in S
  BY DEF First
<1>2. IsFiniteSet(Rest)
  BY FS_Subset
<1>3. Sums(f, S, G) /\ Sums(f, Rest, H)
  <2>1. (\E g : Sums(f, S, g)) /\ (\E g : Sums(f, Rest, g))
    BY <1>2, SumsExist
  <2> QED
    BY <2>1
<1>4. SumOf(f, S) = G[S] /\ SumOf(f, Rest) = H[Rest]
  BY SumUnfold
<1> HIDE DEF G, H
<1>5. G[S] = f[First(S)] + G[Rest]
  BY <1>3 DEF Sums
<1>6. G[Rest] = H[Rest]
  BY <1>2, <1>3, SumsAgree
<1> QED
  BY <1>1, <1>4, <1>5, <1>6

\* Only the terms of its own elements count.
LEMMA SumCongruent ==
  ASSUME NEW f, NEW g, NEW S, IsFiniteSet(S), \A x \in S : f[x] = g[x]
  PROVE  SumOf(f, S) = SumOf(g, S)
<1> DEFINE G == CHOOSE h : Sums(f, S, h)
           H == CHOOSE h : Sums(g, S, h)
<1>1. Sums(f, S, G) /\ Sums(g, S, H)
  <2>1. (\E h : Sums(f, S, h)) /\ (\E h : Sums(g, S, h))
    BY SumsExist
  <2> QED
    BY <2>1
<1>2. SumOf(f, S) = G[S] /\ SumOf(g, S) = H[S]
  BY SumUnfold
<1> HIDE DEF G, H
<1> QED
  BY <1>1, <1>2, SumsAgree

\* Integers add up to an integer.
LEMMA SumInt ==
  ASSUME NEW f, NEW S, IsFiniteSet(S), \A x \in S : f[x] \in Int
  PROVE  SumOf(f, S) \in Int
<1> DEFINE Bad == {U \in SUBSET S : SumOf(f, U) \notin Int}
<1> SUFFICES ASSUME Bad # {} PROVE FALSE
  OBVIOUS
<1>1. PICK U \in Bad : \A V \in SUBSET U : V # U => V \notin Bad
  <2>1. Bad \subseteq SUBSET S
    OBVIOUS
  <2> HIDE DEF Bad
  <2> QED
    BY <2>1, SmallestSubset
<1>2. U # {}
  BY SumEmpty
<1>3. IsFiniteSet(U)
  BY FS_Subset
<1>4. First(U) \in U /\ SumOf(f, U) = f[First(U)] + SumOf(f, U \ {First(U)})
  BY <1>2, <1>3, SumRecursion
<1>5. SumOf(f, U \ {First(U)}) \in Int
  BY <1>1, <1>4
<1> QED
  BY <1>4, <1>5

\* Any element may be taken off first.
LEMMA SumRemove ==
  ASSUME NEW f, NEW S, IsFiniteSet(S), \A y \in S : f[y] \in Int, NEW x \in S
  PROVE  SumOf(f, S) = f[x] + SumOf(f, S \ {x})
<1> DEFINE Bad == {U \in SUBSET S : \E y \in U : SumOf(f, U) # f[y] + SumOf(f, U \ {y})}
<1> SUFFICES ASSUME Bad # {} PROVE FALSE
  OBVIOUS
<1>1. PICK U \in Bad : \A V \in SUBSET U : V # U => V \notin Bad
  <2>1. Bad \subseteq SUBSET S
    OBVIOUS
  <2> HIDE DEF Bad
  <2> QED
    BY <2>1, SmallestSubset
<1>2. PICK y \in U : SumOf(f, U) # f[y] + SumOf(f, U \ {y})
  OBVIOUS
<1> DEFINE z == First(U)
           Both == (U \ {z}) \ {y}
<1>3. IsFiniteSet(U) /\ IsFiniteSet(Both) /\ IsFiniteSet(U \ {y})
  BY FS_Subset
<1>4. z \in U /\ SumOf(f, U) = f[z] + SumOf(f, U \ {z})
  BY <1>2, <1>3, SumRecursion
<1>5. y # z
  BY <1>2, <1>4
<1>6. SumOf(f, U \ {z}) = f[y] + SumOf(f, Both)
  <2>1. U \ {z} \notin Bad /\ y \in U \ {z} /\ U \ {z} \in SUBSET S
    BY <1>1, <1>4, <1>5
  <2> QED
    BY <2>1
<1>7. SumOf(f, U \ {y}) = f[z] + SumOf(f, Both)
  <2>1. U \ {y} \notin Bad /\ z \in U \ {y} /\ U \ {y} \in SUBSET S
    BY <1>1, <1>4, <1>5
  <2>2. (U \ {y}) \ {z} = Both
    OBVIOUS
  <2> QED
    BY <2>1, <2>2
<1>8. f[y] \in Int /\ f[z] \in Int /\ SumOf(f, Both) \in Int
  BY <1>3, <1>4, SumInt
<1> HIDE DEF z, Both
<1> QED
  BY <1>2, <1>4, <1>6, <1>7, <1>8

\* A new element adds its term.
LEMMA SumAdd ==
  ASSUME NEW f, NEW S, IsFiniteSet(S), \A y \in S : f[y] \in Int,
         NEW x, x \notin S, f[x] \in Int
  PROVE  SumOf(f, S \cup {x}) = f[x] + SumOf(f, S)
<1>1. IsFiniteSet(S \cup {x}) /\ (S \cup {x}) \ {x} = S
  BY FS_AddElement
<1>2. \A y \in S \cup {x} : f[y] \in Int
  OBVIOUS
<1> QED
  BY <1>1, <1>2, SumRemove

\* Where one term changes, the sum changes by as much.
LEMMA SumChange ==
  ASSUME NEW f, NEW g, NEW S, IsFiniteSet(S), \A y \in S : f[y] \in Int /\ g[y] \in Int,
         NEW x \in S, \A y \in S \ {x} : g[y] = f[y]
  PROVE  SumOf(g, S) = SumOf(f, S) - f[x] + g[x]
<1>1. IsFiniteSet(S \ {x})
  BY FS_Subset
<1>2. SumOf(f, S \ {x}) = SumOf(g, S \ {x})
  BY <1>1, SumCongruent
<1>3. SumOf(f, S) = f[x] + SumOf(f, S \ {x}) /\ SumOf(g, S) = g[x] + SumOf(g, S \ {x})
  BY SumRemove
<1>4. f[x] \in Int /\ g[x] \in Int /\ SumOf(f, S \ {x}) \in Int
  BY <1>1, SumInt
<1> QED
  BY <1>2, <1>3, <1>4

\* A set of elements may be taken off first.
LEMMA SumSplit ==
  ASSUME NEW f, NEW S, IsFiniteSet(S), \A y \in S : f[y] \in Int, NEW T \in SUBSET S
  PROVE  SumOf(f, S) = SumOf(f, T) + SumOf(f, S \ T)
<1> DEFINE Bad == {U \in SUBSET T : SumOf(f, S) # SumOf(f, U) + SumOf(f, S \ U)}
<1> SUFFICES ASSUME Bad # {} PROVE FALSE
  OBVIOUS
<1>1. PICK U \in Bad : \A V \in SUBSET U : V # U => V \notin Bad
  <2>1. Bad \subseteq SUBSET T
    OBVIOUS
  <2>2. IsFiniteSet(T)
    BY FS_Subset
  <2> HIDE DEF Bad
  <2> QED
    BY <2>1, <2>2, SmallestSubset
<1>2. U # {}
  <2>1. SumOf(f, {}) = 0 /\ S \ {} = S /\ SumOf(f, S) \in Int
    BY SumEmpty, SumInt
  <2>2. SumOf(f, S) = SumOf(f, {}) + SumOf(f, S \ {})
    BY <2>1
  <2> QED
    BY <2>2
<1>3. PICK x \in U : TRUE
  BY <1>2
<1> DEFINE V == U \ {x}
<1>4. x \in S /\ U \in SUBSET S /\ V \in SUBSET T /\ (S \ V) \ {x} = S \ U /\ x \in S \ V
  OBVIOUS
<1>5. /\ IsFiniteSet(U) /\ IsFiniteSet(V) /\ IsFiniteSet(S \ V)
      /\ IsFiniteSet(S \ U)
  BY FS_Subset
<1>6. SumOf(f, S) = SumOf(f, V) + SumOf(f, S \ V)
  BY <1>1, <1>4
<1>7. SumOf(f, U) = f[x] + SumOf(f, V)
  BY <1>4, <1>5, SumRemove
<1>8. SumOf(f, S \ V) = f[x] + SumOf(f, S \ U)
  <2>1. SumOf(f, S \ V) = f[x] + SumOf(f, (S \ V) \ {x})
    <3> \A y \in S \ V : f[y] \in Int
      OBVIOUS
    <3> HIDE DEF V
    <3> QED
      BY <1>4, <1>5, SumRemove
  <2> QED
    BY <1>4, <2>1
<1>9. /\ f[x] \in Int /\ SumOf(f, V) \in Int /\ SumOf(f, S \ U) \in Int
  BY <1>4, <1>5, SumInt
<1>10. SumOf(f, S) # SumOf(f, U) + SumOf(f, S \ U)
  OBVIOUS
<1> HIDE DEF V, Bad
<1> QED
  BY <1>6, <1>7, <1>8, <1>9, <1>10

\* Natural terms add up to a natural sum.
LEMMA SumNat ==
  ASSUME NEW f, NEW S, IsFiniteSet(S), \A x \in S : f[x] \in Nat
  PROVE  SumOf(f, S) \in Nat
<1> DEFINE Bad == {U \in SUBSET S : SumOf(f, U) \notin Nat}
<1> SUFFICES ASSUME Bad # {} PROVE FALSE
  OBVIOUS
<1>1. PICK U \in Bad : \A V \in SUBSET U : V # U => V \notin Bad
  <2>1. Bad \subseteq SUBSET S
    OBVIOUS
  <2> HIDE DEF Bad
  <2> QED
    BY <2>1, SmallestSubset
<1>2. U # {}
  BY SumEmpty
<1>3. IsFiniteSet(U)
  BY FS_Subset
<1>4. First(U) \in U /\ SumOf(f, U) = f[First(U)] + SumOf(f, U \ {First(U)})
  BY <1>2, <1>3, SumRecursion
<1>5. SumOf(f, U \ {First(U)}) \in Nat
  BY <1>1, <1>4
<1> QED
  BY <1>4, <1>5

\* A part of natural terms adds up to no more than the whole.
LEMMA SumOfPart ==
  ASSUME NEW f, NEW S, IsFiniteSet(S), \A x \in S : f[x] \in Nat, NEW T \in SUBSET S
  PROVE  SumOf(f, T) \in Nat /\ SumOf(f, S) \in Nat /\ SumOf(f, T) <= SumOf(f, S)
<1>1. IsFiniteSet(T) /\ IsFiniteSet(S \ T)
  BY FS_Subset
<1>2. SumOf(f, T) \in Nat /\ SumOf(f, S \ T) \in Nat
  BY <1>1, SumNat
<1>3. SumOf(f, S) = SumOf(f, T) + SumOf(f, S \ T)
  BY SumSplit
<1> QED
  BY <1>2, <1>3

\* A sum of ones and zeros is a count.
LEMMA SumCounts ==
  ASSUME NEW f, NEW S, IsFiniteSet(S), NEW L, \A x \in S : f[x] = IF x \in L THEN 1 ELSE 0
  PROVE  SumOf(f, S) = Cardinality(S \cap L)
<1> DEFINE Bad == {U \in SUBSET S : SumOf(f, U) # Cardinality(U \cap L)}
<1> SUFFICES ASSUME Bad # {} PROVE FALSE
  OBVIOUS
<1>1. PICK U \in Bad : \A V \in SUBSET U : V # U => V \notin Bad
  <2>1. Bad \subseteq SUBSET S
    OBVIOUS
  <2> HIDE DEF Bad
  <2> QED
    BY <2>1, SmallestSubset
<1>2. U # {}
  <2>1. {} \cap L = {}
    OBVIOUS
  <2> QED
    BY <2>1, SumEmpty, FS_EmptySet
<1> DEFINE x == First(U)
           V == U \ {x}
<1>3. IsFiniteSet(U) /\ IsFiniteSet(U \cap L)
  <2>1. IsFiniteSet(U)
    BY FS_Subset
  <2> QED
    BY <2>1, FS_Subset
<1>4. x \in U /\ SumOf(f, U) = f[x] + SumOf(f, V)
  BY <1>2, <1>3, SumRecursion
<1>5. SumOf(f, V) = Cardinality(V \cap L)
  BY <1>1, <1>4
<1>6. V \cap L = (U \cap L) \ {x}
  OBVIOUS
<1>7. /\ Cardinality(U \cap L) \in Nat
      /\ Cardinality(V \cap L) = Cardinality(U \cap L) - (IF x \in L THEN 1 ELSE 0)
  <2>1. Cardinality(U \cap L) \in Nat
    BY <1>3, FS_CardinalityType
  <2>2. x \in U
    BY <1>4
  <2>3. Cardinality((U \cap L) \ {x})
          = IF x \in U \cap L THEN Cardinality(U \cap L) - 1 ELSE Cardinality(U \cap L)
    BY <1>3, FS_RemoveElement
  <2> HIDE DEF x, V
  <2>4. Cardinality(V \cap L)
          = IF x \in L THEN Cardinality(U \cap L) - 1 ELSE Cardinality(U \cap L)
    BY <1>6, <2>2, <2>3, Zenon
  <2> QED
    BY <2>1, <2>4
<1>8. f[x] = IF x \in L THEN 1 ELSE 0
  BY <1>4
<1>9. SumOf(f, U) # Cardinality(U \cap L)
  OBVIOUS
<1> HIDE DEF x, V, Bad
<1> QED
  BY <1>4, <1>5, <1>7, <1>8, <1>9

\* Zeros add up to zero.
LEMMA SumZero ==
  ASSUME NEW f, NEW S, IsFiniteSet(S), \A x \in S : f[x] = 0
  PROVE  SumOf(f, S) = 0
<1>1. \A x \in S : f[x] = IF x \in {} THEN 1 ELSE 0
  OBVIOUS
<1>2. SumOf(f, S) = Cardinality(S \cap {})
  BY <1>1, SumCounts
<1>3. S \cap {} = {}
  OBVIOUS
<1> QED
  BY <1>2, <1>3, FS_EmptySet
===============================================================================
