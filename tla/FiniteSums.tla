------------------------------ MODULE FiniteSums ------------------------------
(***************************************************************************)
(* What SumFunctionOnSet of the community modules computes, by induction   *)
(* over finite sets: a smallest set that violated a claim would not        *)
(* violate it.  For the figures that the weekly report adds up (Metrics).  *)
(***************************************************************************)
EXTENDS Functions, FiniteSetTheorems, TLAPS

\* Induction over finite sets: among subsets of a finite set one is smallest.
LEMMA SmallestSubset ==
    ASSUME NEW S, IsFiniteSet(S), NEW B, B \subseteq SUBSET S, B # {}
    PROVE  \E T \in B : \A U \in B : U \subseteq T => U = T
<1>1. IsWellFoundedOn(StrictSubsetOrdering(S), SUBSET S)
  BY FS_FiniteSubsetsOfFinite, FS_StrictSubsetOrderingWellFounded
<1>2. PICK T \in B : \A U \in B : ~(<<U, T>> \in StrictSubsetOrdering(S))
  BY <1>1, WFMin
<1>3. QED
  BY <1>2 DEF StrictSubsetOrdering
-------------------------------------------------------------------------------
\* The element that is added first, and the recursion that the fold stands for.
First(T) == CHOOSE x \in T : TRUE

Rest(T) == T \ {First(T)}

Adds(f, S, g) ==
    g = [T \in SUBSET S |-> IF T = {} THEN 0 ELSE f[First(T)] + g[Rest(T)]]

LEMMA RestIsSmaller ==
    ASSUME NEW T, T # {}
    PROVE  First(T) \in T /\ Rest(T) \subseteq T /\ Rest(T) # T
BY DEF First, Rest

LEMMA AddsAt ==
    ASSUME NEW f, NEW S, NEW g, Adds(f, S, g), NEW T \in SUBSET S
    PROVE  g[T] = IF T = {} THEN 0 ELSE f[First(T)] + g[Rest(T)]
BY DEF Adds

LEMMA AddsOnce ==
    ASSUME NEW f, NEW S, IsFiniteSet(S), NEW R, NEW g, NEW h, Adds(f, S, g), Adds(f, R, h),
           NEW T, T \subseteq S, T \subseteq R
    PROVE  g[T] = h[T]
<1> DEFINE B == {U \in SUBSET S : U \subseteq R /\ g[U] # h[U]}
<1>1. ASSUME B # {} PROVE FALSE
  <2>1. \E U \in B : \A V \in B : V \subseteq U => V = U
    <3>1. B \subseteq SUBSET S
      OBVIOUS
    <3> HIDE DEF B
    <3>2. QED
      BY <1>1, <3>1, SmallestSubset
  <2> PICK U \in B : \A V \in B : V \subseteq U => V = U
    BY <2>1
  <2>2. CASE U = {}
    BY <2>2, AddsAt
  <2>3. CASE U # {}
    <3>1. Rest(U) \subseteq U /\ Rest(U) # U
      BY <2>3, RestIsSmaller
    <3>2. g[Rest(U)] = h[Rest(U)]
      BY <3>1
    <3>3. g[U] = f[First(U)] + g[Rest(U)] /\ h[U] = f[First(U)] + h[Rest(U)]
      BY <2>3, AddsAt
    <3>4. QED
      BY <3>2, <3>3
  <2>4. QED
    BY <2>2, <2>3
<1>2. QED
  BY <1>1

LEMMA AddsExists ==
    ASSUME NEW f, NEW S, IsFiniteSet(S)
    PROVE  \E g : Adds(f, S, g)
<1> DEFINE B == {U \in SUBSET S : ~\E g : Adds(f, U, g)}
<1>1. ASSUME NEW T \in SUBSET S, \A U \in SUBSET T : U # T => \E g : Adds(f, U, g)
      PROVE  \E g : Adds(f, T, g)
  <2> DEFINE At(V) == CHOOSE h : Adds(f, V, h)
             g == [U \in SUBSET T |-> IF U = {} THEN 0 ELSE f[First(U)] + At(Rest(U))[Rest(U)]]
  <2>1. ASSUME NEW U \in SUBSET T, U # {} PROVE g[Rest(U)] = At(Rest(U))[Rest(U)]
    <3> DEFINE V == Rest(U)
    <3>1. V \subseteq U /\ V # U /\ V \in SUBSET T /\ V # T
      BY <2>1, RestIsSmaller
    <3>2. Adds(f, V, At(V))
      BY <1>1, <3>1
    <3>3. CASE V = {}
      BY <3>1, <3>2, <3>3, AddsAt
    <3>4. CASE V # {}
      <4>1. Rest(V) \subseteq V /\ Rest(V) # V
        BY <3>4, RestIsSmaller
      <4>2. Adds(f, Rest(V), At(Rest(V)))
        BY <1>1, <3>1, <4>1
      <4>3. IsFiniteSet(V)
        BY <3>1, FS_Subset
      <4>4. At(V)[Rest(V)] = At(Rest(V))[Rest(V)]
        BY <3>2, <4>1, <4>2, <4>3, AddsOnce
      <4>5. At(V)[V] = f[First(V)] + At(V)[Rest(V)]
        BY <3>2, <3>4, AddsAt
      <4>6. g[V] = f[First(V)] + At(Rest(V))[Rest(V)]
        BY <3>1, <3>4
      <4>7. QED
        BY <4>4, <4>5, <4>6
    <3>5. QED
      BY <3>3, <3>4
  <2>2. g = [U \in SUBSET T |-> IF U = {} THEN 0 ELSE f[First(U)] + g[Rest(U)]]
    <3> HIDE DEF At
    <3>1. \A U \in SUBSET T : g[U] = IF U = {} THEN 0 ELSE f[First(U)] + g[Rest(U)]
      BY <2>1
    <3>2. g = [U \in SUBSET T |-> g[U]]
      OBVIOUS
    <3> HIDE DEF g
    <3>3. QED
      BY <3>1, <3>2
  <2> HIDE DEF g
  <2>3. Adds(f, T, g)
    BY <2>2 DEF Adds
  <2>4. QED
    BY <2>3
<1>2. ASSUME B # {} PROVE FALSE
  <2>1. \E T \in B : \A U \in B : U \subseteq T => U = T
    <3>1. B \subseteq SUBSET S
      OBVIOUS
    <3> HIDE DEF B
    <3>2. QED
      BY <1>2, <3>1, SmallestSubset
  <2>2. QED
    BY <1>1, <2>1
<1>3. QED
  BY <1>2

LEMMA SumIsAdded ==
    ASSUME NEW f, NEW S
    PROVE  SumFunctionOnSet(f, S) = (CHOOSE g : Adds(f, S, g))[S]
BY DEF SumFunctionOnSet, FoldFunctionOnSet, MapThenFoldSet, Adds, First, Rest

LEMMA SumEmpty == \A f : SumFunctionOnSet(f, {}) = 0
BY SumIsAdded, AddsExists, AddsAt, FS_EmptySet

LEMMA SumFirst ==
    ASSUME NEW f, NEW S, IsFiniteSet(S), S # {}
    PROVE  SumFunctionOnSet(f, S) = f[First(S)] + SumFunctionOnSet(f, Rest(S))
<1> DEFINE g == CHOOSE h : Adds(f, S, h)
           k == CHOOSE h : Adds(f, Rest(S), h)
<1>1. Rest(S) \subseteq S /\ IsFiniteSet(Rest(S))
  BY RestIsSmaller, FS_Subset
<1>2. Adds(f, S, g) /\ Adds(f, Rest(S), k)
  BY <1>1, AddsExists
<1>3. g[Rest(S)] = k[Rest(S)]
  BY <1>1, <1>2, AddsOnce
<1>4. g[S] = f[First(S)] + g[Rest(S)]
  BY <1>2, AddsAt
<1>5. QED
  BY <1>3, <1>4, SumIsAdded
-------------------------------------------------------------------------------
\* Sums of natural numbers.

LEMMA SumIsNat ==
    ASSUME NEW f, NEW S, IsFiniteSet(S), \A x \in S : f[x] \in Nat
    PROVE  SumFunctionOnSet(f, S) \in Nat
<1> DEFINE B == {T \in SUBSET S : SumFunctionOnSet(f, T) \notin Nat}
<1>1. ASSUME NEW T \in SUBSET S, \A U \in SUBSET T : U # T => SumFunctionOnSet(f, U) \in Nat
      PROVE  SumFunctionOnSet(f, T) \in Nat
  <2>1. CASE T = {}
    BY <2>1, SumEmpty
  <2>2. CASE T # {}
    BY <1>1, <2>2, FS_Subset, RestIsSmaller, SumFirst
  <2>3. QED
    BY <2>1, <2>2
<1>2. B = {}
  <2>1. B \subseteq SUBSET S /\ ~\E T \in B : \A U \in B : U \subseteq T => U = T
    BY <1>1
  <2> HIDE DEF B
  <2>2. QED
    BY <2>1, SmallestSubset
<1>3. QED
  BY <1>2

\* Which element is added first makes no difference.
LEMMA SumRemove ==
    ASSUME NEW f, NEW S, IsFiniteSet(S), \A y \in S : f[y] \in Nat, NEW x \in S
    PROVE  SumFunctionOnSet(f, S) = f[x] + SumFunctionOnSet(f, S \ {x})
<1> DEFINE Sum(T) == SumFunctionOnSet(f, T)
           Removes(T) == \A z \in T : Sum(T) = f[z] + Sum(T \ {z})
           B == {T \in SUBSET S : ~Removes(T)}
<1>1. ASSUME NEW T \in SUBSET S, NEW z \in T, \A U \in SUBSET T : U # T => Removes(U)
      PROVE  Sum(T) = f[z] + Sum(T \ {z})
  <2> DEFINE y == First(T)
             W == (T \ {z}) \ {y}
  <2>1. y \in T /\ Rest(T) = T \ {y} /\ Sum(T) = f[y] + Sum(T \ {y})
    <3>1. IsFiniteSet(T) /\ T # {}
      BY <1>1, FS_Subset
    <3>2. QED
      BY <3>1, RestIsSmaller, SumFirst DEF Rest
  <2> HIDE DEF y
  <2>2. CASE y = z
    BY <2>1, <2>2
  <2>3. CASE y # z
    <3>1. /\ z \in T \ {y} /\ T \ {y} # T /\ T \ {y} \in SUBSET T
          /\ y \in T \ {z} /\ T \ {z} # T /\ T \ {z} \in SUBSET T
          /\ (T \ {y}) \ {z} = W
      BY <1>1, <2>1, <2>3
    <3> HIDE DEF W, Sum
    <3>2. Sum(T \ {y}) = f[z] + Sum(W)
      BY <1>1, <3>1
    <3>3. Sum(T \ {z}) = f[y] + Sum(W)
      BY <1>1, <3>1 DEF W
    <3>4. Sum(W) \in Nat /\ f[y] \in Nat /\ f[z] \in Nat
      <4>1. W \subseteq S /\ IsFiniteSet(W)
        BY FS_Subset DEF W
      <4>2. QED
        BY <2>1, <4>1, SumIsNat DEF Sum
    <3>5. QED
      BY <2>1, <3>2, <3>3, <3>4
  <2>4. QED
    BY <2>2, <2>3
<1>2. B = {}
  <2>1. B \subseteq SUBSET S /\ ~\E T \in B : \A U \in B : U \subseteq T => U = T
    <3> HIDE DEF Sum
    <3>1. QED
      BY <1>1
  <2> HIDE DEF B
  <2>2. QED
    BY <2>1, SmallestSubset
<1>3. Removes(S)
  BY <1>2
<1>4. QED
  BY <1>3

\* A sum depends on the summands only.
LEMMA SumAgrees ==
    ASSUME NEW f, NEW g, NEW S, IsFiniteSet(S), \A x \in S : f[x] = g[x]
    PROVE  SumFunctionOnSet(f, S) = SumFunctionOnSet(g, S)
<1> DEFINE B == {T \in SUBSET S : SumFunctionOnSet(f, T) # SumFunctionOnSet(g, T)}
<1>1. ASSUME NEW T \in SUBSET S,
             \A U \in SUBSET T : U # T => SumFunctionOnSet(f, U) = SumFunctionOnSet(g, U)
      PROVE  SumFunctionOnSet(f, T) = SumFunctionOnSet(g, T)
  <2>1. CASE T = {}
    BY <2>1, SumEmpty
  <2>2. CASE T # {}
    <3>1. First(T) \in S /\ Rest(T) \in SUBSET T /\ Rest(T) # T /\ IsFiniteSet(T)
      BY <2>2, FS_Subset, RestIsSmaller
    <3>2. QED
      BY <1>1, <2>2, <3>1, SumFirst
  <2>3. QED
    BY <2>1, <2>2
<1>2. B = {}
  <2>1. B \subseteq SUBSET S /\ ~\E T \in B : \A U \in B : U \subseteq T => U = T
    BY <1>1
  <2> HIDE DEF B
  <2>2. QED
    BY <2>1, SmallestSubset
<1>3. QED
  BY <1>2

LEMMA SumOfPart ==
    ASSUME NEW f, NEW T, IsFiniteSet(T), \A x \in T : f[x] \in Nat, NEW S \in SUBSET T
    PROVE  SumFunctionOnSet(f, S) <= SumFunctionOnSet(f, T)
<1> DEFINE Sum(U) == SumFunctionOnSet(f, U)
           Bounded(U) == S \subseteq U => Sum(S) <= Sum(U)
           B == {U \in SUBSET T : ~Bounded(U)}
<1>1. ASSUME NEW U \in SUBSET T, S \subseteq U, \A V \in SUBSET U : V # U => Bounded(V)
      PROVE  Sum(S) <= Sum(U)
  <2>1. IsFiniteSet(S) /\ IsFiniteSet(U) /\ Sum(S) \in Nat /\ Sum(U) \in Nat
    BY FS_Subset, SumIsNat
  <2>2. CASE S = U
    BY <2>1, <2>2
  <2>3. CASE S # U
    <3>1. PICK x \in U : x \notin S
      BY <1>1, <2>3
    <3>2. Sum(U) = f[x] + Sum(U \ {x})
      BY <2>1, SumRemove
    <3>3. IsFiniteSet(U \ {x}) /\ Sum(U \ {x}) \in Nat /\ f[x] \in Nat
      BY <2>1, FS_Subset, SumIsNat
    <3>4. Sum(S) <= Sum(U \ {x})
      <4> HIDE DEF Sum
      <4>1. QED
        BY <1>1, <3>1
    <3> HIDE DEF Sum
    <3>5. QED
      BY <2>1, <3>2, <3>3, <3>4
  <2>4. QED
    BY <2>2, <2>3
<1>2. B = {}
  <2>1. B \subseteq SUBSET T /\ ~\E U \in B : \A V \in B : V \subseteq U => V = U
    <3> HIDE DEF Sum
    <3>1. QED
      BY <1>1
  <2> HIDE DEF B
  <2>2. QED
    BY <2>1, SmallestSubset
<1>3. Bounded(T)
  BY <1>2
<1>4. QED
  BY <1>3

\* What is counted in different places of T, and nowhere more than T has there.
LEMMA SumInjects ==
    ASSUME NEW S, NEW T, IsFiniteSet(T), NEW h \in Injection(S, T),
           NEW f, \A x \in S : f[x] \in Nat, NEW g, \A y \in T : g[y] \in Nat,
           \A x \in S : f[x] <= g[h[x]]
    PROVE  SumFunctionOnSet(f, S) <= SumFunctionOnSet(g, T)
<1> DEFINE Image(U) == {h[x] : x \in U}
           Below(U) == SumFunctionOnSet(f, U) <= SumFunctionOnSet(g, Image(U))
           B == {U \in SUBSET S : ~Below(U)}
<1>1. IsFiniteSet(S) /\ \A x \in S : h[x] \in T
  BY FS_Injection DEF Injection, IsInjective
<1>2. \A x, y \in S : h[x] = h[y] => x = y
  BY DEF Injection, IsInjective
<1>3. ASSUME NEW U \in SUBSET S, \A V \in SUBSET U : V # U => Below(V) PROVE Below(U)
  <2>1. CASE U = {}
    <3>1. Image(U) = {}
      BY <2>1
    <3>2. QED
      BY <2>1, <3>1, SumEmpty
  <2>2. CASE U # {}
    <3>1. PICK x \in U : TRUE
      BY <2>2
    <3>2. IsFiniteSet(U) /\ Image(U) \in SUBSET T /\ IsFiniteSet(Image(U))
      BY <1>1, FS_Subset
    <3>3. SumFunctionOnSet(f, U) = f[x] + SumFunctionOnSet(f, U \ {x})
      BY <3>2, SumRemove
    <3>4. Image(U) \ {h[x]} = Image(U \ {x}) /\ h[x] \in Image(U)
      BY <1>2
    <3>5. SumFunctionOnSet(g, Image(U)) = g[h[x]] + SumFunctionOnSet(g, Image(U \ {x}))
      <4>1. \A y \in Image(U) : g[y] \in Nat
        BY <3>2
      <4> HIDE DEF Image
      <4>2. QED
        BY <3>2, <3>4, <4>1, SumRemove
    <3>6. Below(U \ {x})
      BY <1>3
    <3>7. /\ SumFunctionOnSet(f, U \ {x}) \in Nat /\ f[x] \in Nat /\ g[h[x]] \in Nat
          /\ f[x] <= g[h[x]]
          /\ SumFunctionOnSet(g, Image(U \ {x})) \in Nat
      <4>1. IsFiniteSet(U \ {x}) /\ Image(U \ {x}) \in SUBSET T /\ IsFiniteSet(Image(U \ {x}))
        BY <1>1, <3>2, FS_Subset
      <4>2. \A y \in Image(U \ {x}) : g[y] \in Nat
        BY <4>1
      <4> HIDE DEF Image
      <4>3. QED
        BY <1>1, <4>1, <4>2, SumIsNat
    <3> HIDE DEF Image
    <3>8. QED
      BY <3>3, <3>5, <3>6, <3>7
  <2>3. QED
    BY <2>1, <2>2
<1>4. B = {}
  <2>1. B \subseteq SUBSET S /\ ~\E U \in B : \A V \in B : V \subseteq U => V = U
    <3> HIDE DEF Below
    <3>1. QED
      BY <1>3
  <2> HIDE DEF B
  <2>2. QED
    BY <1>1, <2>1, SmallestSubset
<1>5. Below(S)
  BY <1>4
<1>6. SumFunctionOnSet(g, Image(S)) <= SumFunctionOnSet(g, T)
  BY <1>1, SumOfPart
<1>7. SumFunctionOnSet(f, S) \in Nat /\ SumFunctionOnSet(g, Image(S)) \in Nat
      /\ SumFunctionOnSet(g, T) \in Nat
  <2>1. Image(S) \in SUBSET T /\ IsFiniteSet(Image(S)) /\ \A y \in Image(S) : g[y] \in Nat
    BY <1>1, FS_Subset
  <2> HIDE DEF Image
  <2>2. QED
    BY <1>1, <2>1, SumIsNat
<1> HIDE DEF Image
<1>8. QED
  BY <1>5, <1>6, <1>7

LEMMA SumOfZeros ==
    ASSUME NEW f, NEW S, IsFiniteSet(S), \A x \in S : f[x] = 0
    PROVE  SumFunctionOnSet(f, S) = 0
<1> DEFINE B == {T \in SUBSET S : SumFunctionOnSet(f, T) # 0}
<1>1. ASSUME NEW T \in SUBSET S, \A U \in SUBSET T : U # T => SumFunctionOnSet(f, U) = 0
      PROVE  SumFunctionOnSet(f, T) = 0
  <2>1. CASE T = {}
    BY <2>1, SumEmpty
  <2>2. CASE T # {}
    <3>1. First(T) \in S /\ Rest(T) \in SUBSET T /\ Rest(T) # T /\ IsFiniteSet(T)
      BY <2>2, FS_Subset, RestIsSmaller
    <3>2. QED
      BY <1>1, <2>2, <3>1, SumFirst
  <2>3. QED
    BY <2>1, <2>2
<1>2. B = {}
  <2>1. B \subseteq SUBSET S /\ ~\E T \in B : \A U \in B : U \subseteq T => U = T
    BY <1>1
  <2> HIDE DEF B
  <2>2. QED
    BY <2>1, SmallestSubset
<1>3. QED
  BY <1>2

\* Adding up by group, and then the groups, counts everything once.
LEMMA SumOfGroups ==
    ASSUME NEW S, IsFiniteSet(S), NEW P, IsFiniteSet(P), NEW group \in [S -> P],
           NEW f, \A x \in S : f[x] \in Nat,
           NEW total, \A p \in P : total[p] = SumFunctionOnSet(f, {x \in S : group[x] = p})
    PROVE  SumFunctionOnSet(total, P) = SumFunctionOnSet(f, S)
<1> DEFINE Members(U, p) == {x \in U : group[x] = p}
           Totals(U) == [p \in P |-> SumFunctionOnSet(f, Members(U, p))]
           AddsUp(U) == SumFunctionOnSet(Totals(U), P) = SumFunctionOnSet(f, U)
           B == {U \in SUBSET S : ~AddsUp(U)}
<1>1. ASSUME NEW U \in SUBSET S PROVE \A p \in P : Totals(U)[p] \in Nat
  <2> TAKE p \in P
  <2>1. IsFiniteSet(Members(U, p)) /\ \A x \in Members(U, p) : f[x] \in Nat
    BY FS_Subset
  <2> HIDE DEF Members
  <2>2. QED
    BY <2>1, SumIsNat
<1>2. ASSUME NEW U \in SUBSET S, \A V \in SUBSET U : V # U => AddsUp(V) PROVE AddsUp(U)
  <2>1. CASE U = {}
    <3>1. \A p \in P : Members(U, p) = {}
      BY <2>1
    <3> HIDE DEF Members
    <3>2. \A p \in P : Totals(U)[p] = 0
      BY <3>1, SumEmpty
    <3> HIDE DEF Totals
    <3>3. QED
      BY <2>1, <3>2, SumOfZeros, SumEmpty
  <2>2. CASE U # {}
    <3>1. PICK x \in U : TRUE
      BY <2>2
    <3> DEFINE V == U \ {x}
               q == group[x]
    <3>2. q \in P /\ V \in SUBSET S /\ IsFiniteSet(U)
      BY FS_Subset
    <3>3. SumFunctionOnSet(f, U) = f[x] + SumFunctionOnSet(f, V)
      BY <3>2, SumRemove
    <3>4. Totals(U)[q] = f[x] + Totals(V)[q]
      <4>1. x \in Members(U, q) /\ Members(U, q) \ {x} = Members(V, q)
        OBVIOUS
      <4>2. IsFiniteSet(Members(U, q)) /\ \A y \in Members(U, q) : f[y] \in Nat
        BY FS_Subset
      <4> HIDE DEF Members, V, q
      <4>3. QED
        BY <3>2, <4>1, <4>2, SumRemove
    <3>5. \A p \in P \ {q} : Totals(U)[p] = Totals(V)[p]
      <4>1. \A p \in P \ {q} : Members(U, p) = Members(V, p)
        OBVIOUS
      <4> HIDE DEF Members, V, q
      <4>2. QED
        BY <4>1
    <3>6. (\A p \in P : Totals(U)[p] \in Nat) /\ (\A p \in P : Totals(V)[p] \in Nat)
      BY <1>1
    <3>7. AddsUp(V)
      BY <1>2
    <3>8. f[x] \in Nat /\ V \subseteq U
      OBVIOUS
    <3> HIDE DEF Totals, V, q
    <3>9. SumFunctionOnSet(Totals(U), P) = Totals(U)[q] + SumFunctionOnSet(Totals(U), P \ {q})
      BY <3>2, <3>6, SumRemove
    <3>10. SumFunctionOnSet(Totals(V), P) = Totals(V)[q] + SumFunctionOnSet(Totals(V), P \ {q})
      BY <3>2, <3>6, SumRemove
    <3>11. SumFunctionOnSet(Totals(U), P \ {q}) = SumFunctionOnSet(Totals(V), P \ {q})
      BY <3>5, FS_Subset, SumAgrees
    <3>12. SumFunctionOnSet(Totals(V), P \ {q}) \in Nat
      BY <3>6, FS_Subset, SumIsNat
    <3>13. Totals(V)[q] \in Nat
      BY <3>2, <3>6
    <3>14. QED
      BY <3>3, <3>4, <3>7, <3>8, <3>9, <3>10, <3>11, <3>12, <3>13
  <2>3. QED
    BY <2>1, <2>2
<1>3. B = {}
  <2>1. B \subseteq SUBSET S /\ ~\E U \in B : \A V \in B : V \subseteq U => V = U
    <3> HIDE DEF AddsUp
    <3>1. QED
      BY <1>2
  <2> HIDE DEF B
  <2>2. QED
    BY <2>1, SmallestSubset
<1>4. AddsUp(S)
  BY <1>3
<1>5. \A p \in P : total[p] = Totals(S)[p]
  OBVIOUS
<1> HIDE DEF Totals
<1>6. SumFunctionOnSet(total, P) = SumFunctionOnSet(Totals(S), P)
  BY <1>5, SumAgrees
<1>7. QED
  BY <1>4, <1>6
===============================================================================
