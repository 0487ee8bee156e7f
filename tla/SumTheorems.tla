---------------------------- MODULE SumTheorems -----------------------------
(***************************************************************************)
(* Facts about the sum of a function over a finite set, for the proofs of  *)
(* what stock, losses and costs add up to, and, at the end, about the      *)
(* first members of a finite set in a linear order.                        *)
(*                                                                         *)
(* SumFunctionOnSet is recursive: it adds the values in an order that      *)
(* CHOOSE picks.  A closed form replaces the recursion.  Stack f[x] units  *)
(* on every x, or -f[x] where that is positive: the sum is the number of   *)
(* units in the first heap less those in the second.  The heaps solve the  *)
(* recursive equation, and by well-founded induction over the subsets,     *)
(* with the smallest set that fails, nothing else does.                    *)
(***************************************************************************)
EXTENDS Integers, Functions, FiniteSetTheorems, WellFoundedInduction, TLAPS

Heap(f, S) == {p \in S \X Nat : 0 < p[2] /\ p[2] <= f[p[1]]}
Debt(f, S) == {p \in S \X Nat : 0 < p[2] /\ p[2] <= -f[p[1]]}
ClosedSum(f, S) == Cardinality(Heap(f, S)) - Cardinality(Debt(f, S))

Picked(s) == CHOOSE x \in s : TRUE
Adds(f, S, g) ==
    g = [s \in SUBSET S |-> IF s = {} THEN 0
                            ELSE f[Picked(s)] + g[s \ {Picked(s)}]]

(* A family of subsets of a finite set has a smallest member.              *)
LEMMA SmallestMember ==
    ASSUME NEW S, IsFiniteSet(S), NEW F, F \subseteq SUBSET S, F # {}
    PROVE  \E X \in F : \A Y \in F : ~(Y \subseteq X /\ Y # X)
  <1>1. IsWellFoundedOn(StrictSubsetOrdering(S), SUBSET S)
    BY FS_FiniteSubsetsOfFinite, FS_StrictSubsetOrderingWellFounded
  <1>2. PICK X \in F : \A Y \in F : ~(<<Y, X>> \in StrictSubsetOrdering(S))
    BY <1>1, WFMin
  <1>3. QED
    BY <1>2 DEF StrictSubsetOrdering

-----------------------------------------------------------------------------
(* One element of a heap.                                                  *)
LEMMA Layer ==
    ASSUME NEW x, NEW n \in Int
    PROVE  LET L == {p \in {x} \X Nat : 0 < p[2] /\ p[2] <= n}
           IN  IsFiniteSet(L) /\ Cardinality(L) = IF n > 0 THEN n ELSE 0
  <1> DEFINE L == {p \in {x} \X Nat : 0 < p[2] /\ p[2] <= n}
  <1>1. L = {x} \X (1 .. n)
    <2>1. \A p \in {x} \X (1 .. n) : p \in L
      OBVIOUS
    <2>2. \A p \in L : p \in {x} \X (1 .. n)
      OBVIOUS
    <2>3. QED
      BY <2>1, <2>2
  <1>2. IsFiniteSet(1 .. n) /\ Cardinality(1 .. n) = IF 1 > n THEN 0 ELSE n - 1 + 1
    BY FS_Interval
  <1>3. IsFiniteSet({x}) /\ Cardinality({x}) = 1
    BY FS_Singleton
  <1>4. IsFiniteSet({x} \X (1 .. n))
        /\ Cardinality({x} \X (1 .. n)) = 1 * Cardinality(1 .. n)
    BY <1>2, <1>3, FS_Product
  <1>5. IsFiniteSet(L) /\ Cardinality(L) = 1 * Cardinality(1 .. n)
    BY <1>1, <1>4
  <1> HIDE DEF L
  <1>6. IsFiniteSet(L) /\ Cardinality(L) = IF n > 0 THEN n ELSE 0
    BY <1>2, <1>5
  <1>7. QED
    BY <1>6 DEF L

(* Heaps grow by one element at a time, and are finite.                    *)
LEMMA HeapGrows ==
    ASSUME NEW S, NEW f, NEW x \in S, f[x] \in Int, IsFiniteSet(Heap(f, S \ {x}))
    PROVE  /\ IsFiniteSet(Heap(f, S))
           /\ Cardinality(Heap(f, S)) =
                  Cardinality(Heap(f, S \ {x})) + IF f[x] > 0 THEN f[x] ELSE 0
  <1> DEFINE L == {p \in {x} \X Nat : 0 < p[2] /\ p[2] <= f[x]}
             H == Heap(f, S \ {x})
  <1>1. IsFiniteSet(L) /\ Cardinality(L) = IF f[x] > 0 THEN f[x] ELSE 0
    BY Layer
  <1>2. Heap(f, S) = H \cup L
    BY DEF Heap
  <1>3. H \cap L = {}
    BY DEF Heap
  <1> HIDE DEF L, H
  <1>4. /\ IsFiniteSet(H \cup L)
        /\ Cardinality(H \cup L) = Cardinality(H) + Cardinality(L) - Cardinality(H \cap L)
    BY <1>1, FS_Union DEF H
  <1>5. Cardinality(H) \in Nat /\ Cardinality(H \cap L) = 0
    BY <1>3, FS_EmptySet, FS_CardinalityType DEF H
  <1>6. QED
    BY <1>1, <1>2, <1>4, <1>5 DEF H

LEMMA DebtGrows ==
    ASSUME NEW S, NEW f, NEW x \in S, f[x] \in Int, IsFiniteSet(Debt(f, S \ {x}))
    PROVE  /\ IsFiniteSet(Debt(f, S))
           /\ Cardinality(Debt(f, S)) =
                  Cardinality(Debt(f, S \ {x})) + IF f[x] < 0 THEN -f[x] ELSE 0
  <1> DEFINE L == {p \in {x} \X Nat : 0 < p[2] /\ p[2] <= -f[x]}
             D == Debt(f, S \ {x})
  <1>1. IsFiniteSet(L) /\ Cardinality(L) = IF f[x] < 0 THEN -f[x] ELSE 0
    <2>1. -f[x] \in Int /\ (-f[x] > 0 <=> f[x] < 0)
      OBVIOUS
    <2>2. IsFiniteSet(L) /\ Cardinality(L) = IF -f[x] > 0 THEN -f[x] ELSE 0
      BY <2>1, Layer
    <2>3. QED
      BY <2>1, <2>2
  <1>2. Debt(f, S) = D \cup L
    BY DEF Debt
  <1>3. D \cap L = {}
    BY DEF Debt
  <1> HIDE DEF L, D
  <1>4. /\ IsFiniteSet(D \cup L)
        /\ Cardinality(D \cup L) = Cardinality(D) + Cardinality(L) - Cardinality(D \cap L)
    BY <1>1, FS_Union DEF D
  <1>5. Cardinality(D) \in Nat /\ Cardinality(D \cap L) = 0
    BY <1>3, FS_EmptySet, FS_CardinalityType DEF D
  <1>6. QED
    BY <1>1, <1>2, <1>4, <1>5 DEF D

LEMMA HeapsFinite ==
    ASSUME NEW S, IsFiniteSet(S), NEW f, \A x \in S : f[x] \in Int
    PROVE  \A X \in SUBSET S : IsFiniteSet(Heap(f, X)) /\ IsFiniteSet(Debt(f, X))
  <1> DEFINE F == {X \in SUBSET S : ~(IsFiniteSet(Heap(f, X)) /\ IsFiniteSet(Debt(f, X)))}
  <1> SUFFICES ASSUME F # {} PROVE FALSE
    OBVIOUS
  <1>1. PICK X \in F : \A Y \in F : ~(Y \subseteq X /\ Y # X)
    <2>1. F \subseteq SUBSET S
      OBVIOUS
    <2> HIDE DEF F
    <2>2. QED
      BY <2>1, SmallestMember
  <1>2. CASE X = {}
    <2>1. Heap(f, X) = {} /\ Debt(f, X) = {}
      BY <1>2 DEF Heap, Debt
    <2>2. QED
      BY <2>1, FS_EmptySet
  <1>3. CASE X # {}
    <2>1. PICK x \in X : TRUE
      BY <1>3
    <2>2. X \ {x} \notin F /\ X \ {x} \in SUBSET S /\ f[x] \in Int
      BY <1>1, <2>1
    <2>3. IsFiniteSet(Heap(f, X \ {x})) /\ IsFiniteSet(Debt(f, X \ {x}))
      BY <2>2
    <2>4. IsFiniteSet(Heap(f, X)) /\ IsFiniteSet(Debt(f, X))
      BY <2>2, <2>3, HeapGrows, DebtGrows
    <2>5. QED
      BY <2>4
  <1>4. QED
    BY <1>2, <1>3

LEMMA ClosedSumGrows ==
    ASSUME NEW S, IsFiniteSet(S), NEW f, \A x \in S : f[x] \in Int
    PROVE  /\ ClosedSum(f, {}) = 0
           /\ \A X \in SUBSET S :
                  /\ ClosedSum(f, X) \in Int
                  /\ \A x \in X : ClosedSum(f, X) = f[x] + ClosedSum(f, X \ {x})
  <1>1. Heap(f, {}) = {} /\ Debt(f, {}) = {}
    BY DEF Heap, Debt
  <1>2. ClosedSum(f, {}) = 0
    BY <1>1, FS_EmptySet DEF ClosedSum
  <1>3. \A X \in SUBSET S :
            /\ IsFiniteSet(Heap(f, X)) /\ Cardinality(Heap(f, X)) \in Nat
            /\ IsFiniteSet(Debt(f, X)) /\ Cardinality(Debt(f, X)) \in Nat
    BY HeapsFinite, FS_CardinalityType
  <1>4. ASSUME NEW X \in SUBSET S, NEW x \in X
        PROVE  ClosedSum(f, X) = f[x] + ClosedSum(f, X \ {x})
    <2>1. /\ X \ {x} \in SUBSET S /\ f[x] \in Int
          /\ IsFiniteSet(Heap(f, X \ {x})) /\ Cardinality(Heap(f, X \ {x})) \in Nat
          /\ IsFiniteSet(Debt(f, X \ {x})) /\ Cardinality(Debt(f, X \ {x})) \in Nat
      BY <1>3
    <2>2. /\ Cardinality(Heap(f, X)) =
                 Cardinality(Heap(f, X \ {x})) + IF f[x] > 0 THEN f[x] ELSE 0
          /\ Cardinality(Debt(f, X)) =
                 Cardinality(Debt(f, X \ {x})) + IF f[x] < 0 THEN -f[x] ELSE 0
      BY ZenonT(30), <2>1, HeapGrows, DebtGrows
    <2>3. QED
      BY <2>1, <2>2 DEF ClosedSum
  <1>5. QED
    BY <1>2, <1>3, <1>4 DEF ClosedSum

-----------------------------------------------------------------------------
(* The recursive sum is the closed one.                                    *)
LEMMA SumIsClosed ==
    ASSUME NEW S, IsFiniteSet(S), NEW f, \A x \in S : f[x] \in Int
    PROVE  SumFunctionOnSet(f, S) = ClosedSum(f, S)
  <1> DEFINE c == [s \in SUBSET S |-> ClosedSum(f, s)]
             g == CHOOSE h : Adds(f, S, h)
  <1>1. SumFunctionOnSet(f, S) = g[S]
    BY DEF SumFunctionOnSet, FoldFunctionOnSet, MapThenFoldSet, Adds, Picked
  <1>2. \A s \in SUBSET S : s # {} => Picked(s) \in s
    BY DEF Picked
  <1>3. Adds(f, S, c)
    <2>1. ASSUME NEW s \in SUBSET S
          PROVE  c[s] = IF s = {} THEN 0 ELSE f[Picked(s)] + c[s \ {Picked(s)}]
      <3>1. CASE s = {}
        BY <3>1, ClosedSumGrows
      <3>2. CASE s # {}
        BY <1>2, <3>2, ClosedSumGrows
      <3>3. QED
        BY <3>1, <3>2
    <2>2. QED
      BY <2>1 DEF Adds
  <1>4. Adds(f, S, g)
    BY <1>3
  <1> HIDE DEF g
  <1> DEFINE F == {X \in SUBSET S : g[X] # ClosedSum(f, X)}
  <1>5. F = {}
    <2> SUFFICES ASSUME F # {} PROVE FALSE
      OBVIOUS
    <2>1. PICK X \in F : \A Y \in F : ~(Y \subseteq X /\ Y # X)
      <3>1. F \subseteq SUBSET S
        OBVIOUS
      <3> HIDE DEF F
      <3>2. QED
        BY <3>1, SmallestMember
    <2>2. g[X] = IF X = {} THEN 0 ELSE f[Picked(X)] + g[X \ {Picked(X)}]
      BY <1>4 DEF Adds
    <2>3. CASE X = {}
      BY <2>2, <2>3, ClosedSumGrows
    <2>4. CASE X # {}
      <3>1. Picked(X) \in X /\ X \ {Picked(X)} \in SUBSET S
        BY <1>2, <2>4
      <3>2. g[X \ {Picked(X)}] = ClosedSum(f, X \ {Picked(X)})
        BY <2>1, <3>1
      <3>3. ClosedSum(f, X) = f[Picked(X)] + ClosedSum(f, X \ {Picked(X)})
        BY <3>1, ClosedSumGrows
      <3>4. QED
        BY <2>2, <2>4, <3>2, <3>3
    <2>5. QED
      BY <2>3, <2>4
  <1>6. QED
    BY <1>1, <1>5

-----------------------------------------------------------------------------
(* What proofs about sums cite.                                            *)
LEMMA SumOfNone == ASSUME NEW f PROVE SumFunctionOnSet(f, {}) = 0
  <1>1. IsFiniteSet({})
    BY FS_EmptySet
  <1>2. SumFunctionOnSet(f, {}) = ClosedSum(f, {}) /\ ClosedSum(f, {}) = 0
    BY <1>1, SumIsClosed, ClosedSumGrows
  <1>3. QED
    BY <1>2

LEMMA SumRemove ==
    ASSUME NEW S, IsFiniteSet(S), NEW f, \A x \in S : f[x] \in Int, NEW x \in S
    PROVE  SumFunctionOnSet(f, S) = f[x] + SumFunctionOnSet(f, S \ {x})
  <1>1. IsFiniteSet(S \ {x})
    BY FS_RemoveElement
  <1>2. /\ SumFunctionOnSet(f, S) = ClosedSum(f, S)
        /\ SumFunctionOnSet(f, S \ {x}) = ClosedSum(f, S \ {x})
    BY <1>1, SumIsClosed
  <1>3. QED
    BY <1>2, ClosedSumGrows

LEMMA SumType ==
    ASSUME NEW S, IsFiniteSet(S), NEW f, \A x \in S : f[x] \in Int
    PROVE  SumFunctionOnSet(f, S) \in Int
  BY SumIsClosed, ClosedSumGrows

(* Only the values on the set matter.                                      *)
LEMMA SumSame ==
    ASSUME NEW S, IsFiniteSet(S), NEW f, NEW g,
           \A x \in S : f[x] \in Int /\ g[x] = f[x]
    PROVE  SumFunctionOnSet(g, S) = SumFunctionOnSet(f, S)
  <1>1. \A x \in S : g[x] \in Int
    OBVIOUS
  <1>2. Heap(g, S) = Heap(f, S) /\ Debt(g, S) = Debt(f, S)
    BY DEF Heap, Debt
  <1>3. QED
    BY <1>1, <1>2, SumIsClosed DEF ClosedSum

(* One value changes.                                                      *)
LEMMA SumUpdate ==
    ASSUME NEW S, IsFiniteSet(S), NEW f, NEW g, NEW x \in S,
           \A y \in S : f[y] \in Int, g[x] \in Int,
           \A y \in S \ {x} : g[y] = f[y]
    PROVE  SumFunctionOnSet(g, S) = SumFunctionOnSet(f, S) - f[x] + g[x]
  <1>1. IsFiniteSet(S \ {x})
    BY FS_RemoveElement
  <1>2. \A y \in S : g[y] \in Int
    OBVIOUS
  <1>3. SumFunctionOnSet(g, S \ {x}) = SumFunctionOnSet(f, S \ {x})
    BY <1>1, SumSame
  <1>4. /\ SumFunctionOnSet(f, S) = f[x] + SumFunctionOnSet(f, S \ {x})
        /\ SumFunctionOnSet(g, S) = g[x] + SumFunctionOnSet(g, S \ {x})
    BY <1>2, SumRemove
  <1>5. SumFunctionOnSet(f, S \ {x}) \in Int /\ f[x] \in Int
    BY <1>1, SumType
  <1>6. QED
    BY <1>3, <1>4, <1>5

LEMMA SumOfZeros ==
    ASSUME NEW S, IsFiniteSet(S), NEW f, \A x \in S : f[x] = 0
    PROVE  SumFunctionOnSet(f, S) = 0
  <1>1. Heap(f, S) = {} /\ Debt(f, S) = {}
    BY DEF Heap, Debt
  <1>2. SumFunctionOnSet(f, S) = ClosedSum(f, S)
    BY SumIsClosed
  <1>3. QED
    BY <1>1, <1>2, FS_EmptySet DEF ClosedSum

LEMMA SumNotNegative ==
    ASSUME NEW S, IsFiniteSet(S), NEW f, \A x \in S : f[x] \in Nat
    PROVE  SumFunctionOnSet(f, S) \in Nat
  <1>1. Debt(f, S) = {}
    BY DEF Debt
  <1>2. SumFunctionOnSet(f, S) = Cardinality(Heap(f, S)) - Cardinality(Debt(f, S))
    BY SumIsClosed DEF ClosedSum
  <1>3. Cardinality(Heap(f, S)) \in Nat
    BY HeapsFinite, FS_CardinalityType
  <1>4. QED
    BY <1>1, <1>2, <1>3, FS_EmptySet

(* A sum of values that are at most b.                                     *)
LEMMA SumAtMost ==
    ASSUME NEW S, IsFiniteSet(S), NEW f, NEW b \in Int,
           \A x \in S : f[x] \in Int /\ f[x] <= b
    PROVE  SumFunctionOnSet(f, S) <= b * Cardinality(S)
  <1> DEFINE F == {T \in SUBSET S : ~(SumFunctionOnSet(f, T) <= b * Cardinality(T))}
  <1>1. SUFFICES ASSUME F # {} PROVE FALSE
    OBVIOUS
  <1>2. F \subseteq SUBSET S
    OBVIOUS
  <1> HIDE DEF F
  <1>3. PICK T \in F : \A Y \in F : ~(Y \subseteq T /\ Y # T)
    BY <1>1, <1>2, SmallestMember
  <1>4. T \in SUBSET S /\ ~(SumFunctionOnSet(f, T) <= b * Cardinality(T))
    BY <1>3 DEF F
  <1>5. T # {}
    <2>1. SumFunctionOnSet(f, {}) = 0 /\ Cardinality({}) = 0
      BY SumOfNone, FS_EmptySet
    <2>2. b * 0 = 0
      OBVIOUS
    <2>3. T = {} => SumFunctionOnSet(f, T) = 0 /\ b * Cardinality(T) = 0
      BY <2>1, <2>2
    <2>4. QED
      BY <1>4, <2>3
  <1>6. PICK x \in T : TRUE
    BY <1>5
  <1>7. IsFiniteSet(T) /\ IsFiniteSet(T \ {x})
    BY <1>4, FS_Subset, FS_RemoveElement
  <1>8. SumFunctionOnSet(f, T \ {x}) <= b * Cardinality(T \ {x})
    BY <1>3, <1>4, <1>6 DEF F
  <1>9. \A y \in T : f[y] \in Int
    BY <1>4
  <1>10. SumFunctionOnSet(f, T) = f[x] + SumFunctionOnSet(f, T \ {x})
    BY <1>6, <1>7, <1>9, SumRemove
  <1>11. SumFunctionOnSet(f, T \ {x}) \in Int
    BY <1>7, <1>9, SumType
  <1>12. Cardinality(T \ {x}) = Cardinality(T) - 1 /\ Cardinality(T) \in Nat
    BY <1>6, <1>7, FS_RemoveElement, FS_CardinalityType
  <1>13. b * (Cardinality(T) - 1) = b * Cardinality(T) - b
         /\ b * Cardinality(T) \in Int
    BY <1>12
  <1>14. f[x] \in Int /\ f[x] <= b
    BY <1>4, <1>6
  <1>15. QED
    BY <1>4, <1>8, <1>10, <1>11, <1>12, <1>13, <1>14

(* Sums are linear.                                                        *)
LEMMA SumLinear ==
    ASSUME NEW S, IsFiniteSet(S), NEW f, NEW g, NEW h, NEW c \in Int,
           \A x \in S : g[x] \in Int /\ h[x] \in Int /\ f[x] = c * g[x] + h[x]
    PROVE  SumFunctionOnSet(f, S) = c * SumFunctionOnSet(g, S) + SumFunctionOnSet(h, S)
  <1> DEFINE Off(T) == SumFunctionOnSet(f, T)
                          # c * SumFunctionOnSet(g, T) + SumFunctionOnSet(h, T)
             F == {T \in SUBSET S : Off(T)}
  <1>1. SUFFICES ASSUME F # {} PROVE FALSE
    OBVIOUS
  <1>2. F \subseteq SUBSET S
    OBVIOUS
  <1> HIDE DEF F
  <1>3. PICK T \in F : \A Y \in F : ~(Y \subseteq T /\ Y # T)
    BY <1>1, <1>2, SmallestMember
  <1>4. T \in SUBSET S /\ Off(T)
    BY <1>3 DEF F
  <1>5. T # {}
    <2>1. c * 0 + 0 = 0
      OBVIOUS
    <2>2. QED
      BY <1>4, <2>1, SumOfNone
  <1>6. PICK x \in T : TRUE
    BY <1>5
  <1>7. IsFiniteSet(T) /\ IsFiniteSet(T \ {x})
    BY <1>4, FS_Subset, FS_RemoveElement
  <1>8. ~Off(T \ {x})
    BY <1>3, <1>4, <1>6 DEF F
  <1>9. \A y \in T : f[y] \in Int /\ g[y] \in Int /\ h[y] \in Int
    BY <1>4
  <1>10. /\ SumFunctionOnSet(f, T) = f[x] + SumFunctionOnSet(f, T \ {x})
         /\ SumFunctionOnSet(g, T) = g[x] + SumFunctionOnSet(g, T \ {x})
         /\ SumFunctionOnSet(h, T) = h[x] + SumFunctionOnSet(h, T \ {x})
    BY <1>6, <1>7, <1>9, SumRemove
  <1> DEFINE u == SumFunctionOnSet(g, T \ {x})
             v == SumFunctionOnSet(h, T \ {x})
  <1>11. u \in Int /\ v \in Int /\ g[x] \in Int /\ h[x] \in Int
    BY <1>6, <1>7, <1>9, SumType
  <1>12. SumFunctionOnSet(f, T) = (c * g[x] + h[x]) + (c * u + v)
    BY <1>4, <1>6, <1>8, <1>10
  <1>13. /\ SumFunctionOnSet(g, T) = g[x] + u
         /\ SumFunctionOnSet(h, T) = h[x] + v
    BY <1>10
  <1> HIDE DEF u, v
  <1>14. (c * g[x] + h[x]) + (c * u + v) = c * (g[x] + u) + (h[x] + v)
    BY <1>11
  <1>15. QED
    BY <1>4, <1>12, <1>13, <1>14

(* Only the values other than 0 matter.                                    *)
LEMMA SumRestricted ==
    ASSUME NEW S, IsFiniteSet(S), NEW f, NEW T, T \subseteq S,
           \A x \in S : f[x] \in Int, \A x \in S \ T : f[x] = 0
    PROVE  SumFunctionOnSet(f, S) = SumFunctionOnSet(f, T)
  <1>1. \A X \in SUBSET S : T \subseteq X =>
            Heap(f, X) = Heap(f, T) /\ Debt(f, X) = Debt(f, T)
    BY DEF Heap, Debt
  <1>2. Heap(f, S) = Heap(f, T) /\ Debt(f, S) = Debt(f, T)
    BY <1>1
  <1>3. IsFiniteSet(T) /\ \A x \in T : f[x] \in Int
    BY FS_Subset
  <1>4. QED
    BY <1>2, <1>3, SumIsClosed DEF ClosedSum

(* Counting is adding ones.                                                *)
LEMMA SumOfOnes ==
    ASSUME NEW S, IsFiniteSet(S), NEW f, \A x \in S : f[x] = 1
    PROVE  SumFunctionOnSet(f, S) = Cardinality(S)
  <1> DEFINE F == {T \in SUBSET S : SumFunctionOnSet(f, T) # Cardinality(T)}
  <1>1. SUFFICES ASSUME F # {} PROVE FALSE
    OBVIOUS
  <1>2. F \subseteq SUBSET S
    OBVIOUS
  <1> HIDE DEF F
  <1>3. PICK T \in F : \A Y \in F : ~(Y \subseteq T /\ Y # T)
    BY <1>1, <1>2, SmallestMember
  <1>4. T \in SUBSET S /\ SumFunctionOnSet(f, T) # Cardinality(T)
    BY <1>3 DEF F
  <1>5. T # {}
    BY <1>4, SumOfNone, FS_EmptySet
  <1>6. PICK x \in T : TRUE
    BY <1>5
  <1>7. IsFiniteSet(T) /\ IsFiniteSet(T \ {x})
    BY <1>4, FS_Subset, FS_RemoveElement
  <1>8. SumFunctionOnSet(f, T \ {x}) = Cardinality(T \ {x})
    BY <1>3, <1>4, <1>6 DEF F
  <1>9. \A y \in T : f[y] \in Int /\ f[y] = 1
    BY <1>4
  <1>10. SumFunctionOnSet(f, T) = f[x] + SumFunctionOnSet(f, T \ {x})
    BY <1>6, <1>7, <1>9, SumRemove
  <1>11. Cardinality(T \ {x}) = Cardinality(T) - 1 /\ Cardinality(T) \in Nat
    BY <1>6, <1>7, FS_RemoveElement, FS_CardinalityType
  <1>12. QED
    BY <1>4, <1>6, <1>8, <1>9, <1>10, <1>11

(***************************************************************************)
(* Ranking.  R is a strict total order on S, as a set of pairs.            *)
(***************************************************************************)
TotalOrder(R, S) ==
    /\ \A x \in S : <<x, x>> \notin R
    /\ \A x \in S : \A y \in S : x # y => <<x, y>> \in R \/ <<y, x>> \in R
    /\ \A x \in S : \A y \in S : \A z \in S :
           <<x, y>> \in R /\ <<y, z>> \in R => <<x, z>> \in R

Preceding(R, S, x) == {y \in S : <<y, x>> \in R}

(* A finite set that is not empty has a last member.                       *)
LEMMA LastMember ==
    ASSUME NEW S, IsFiniteSet(S), NEW R, TotalOrder(R, S), S # {}
    PROVE  \E m \in S : \A y \in S \ {m} : <<y, m>> \in R
  <1> DEFINE Last(m, X) == \A y \in X \ {m} : <<y, m>> \in R
             F == {X \in SUBSET S : X # {} /\ ~ \E m \in X : Last(m, X)}
  <1>1. SUFFICES ASSUME F # {} PROVE FALSE
    OBVIOUS
  <1>2. F \subseteq SUBSET S
    OBVIOUS
  <1> HIDE DEF F
  <1>3. PICK X \in F : \A Y \in F : ~(Y \subseteq X /\ Y # X)
    BY <1>1, <1>2, SmallestMember
  <1>4. X \in SUBSET S /\ X # {} /\ ~ \E m \in X : Last(m, X)
    BY <1>3 DEF F
  <1>5. PICK x \in X : TRUE
    BY <1>4
  <1>6. X \ {x} # {}
    BY <1>4, <1>5
  <1>7. PICK m \in X \ {x} : Last(m, X \ {x})
    <2>1. X \ {x} \notin F
      BY <1>3, <1>5
    <2>2. X \ {x} \in SUBSET S
      BY <1>4
    <2>3. \E m \in X \ {x} : Last(m, X \ {x})
      <3> HIDE DEF Last
      <3>1. QED
        BY <1>6, <2>1, <2>2 DEF F
    <2>4. QED
      BY <2>3
  <1>8. m \in S /\ x \in S /\ m # x /\ m \in X
    BY <1>4, <1>5, <1>7
  <1>9. CASE <<m, x>> \in R
    <2>1. ASSUME NEW y \in X \ {x} PROVE <<y, x>> \in R
      <3>1. y = m \/ <<y, m>> \in R
        BY <1>7
      <3>2. y \in S
        BY <1>4
      <3>3. QED
        BY <1>8, <1>9, <3>1, <3>2 DEF TotalOrder
    <2>2. QED
      BY <1>4, <1>5, <2>1
  <1>10. CASE <<x, m>> \in R
    BY <1>4, <1>7, <1>8, <1>10
  <1>11. QED
    BY <1>8, <1>9, <1>10 DEF TotalOrder

(* As many members have fewer than n ahead of them as n says.              *)
LEMMA FirstOnes ==
    ASSUME NEW S, IsFiniteSet(S), NEW R, TotalOrder(R, S),
           NEW n \in Nat, n <= Cardinality(S)
    PROVE  Cardinality({x \in S : Cardinality(Preceding(R, S, x)) < n}) = n
  <1> DEFINE First(X, k) == {x \in X : Cardinality(Preceding(R, X, x)) < k}
             F == {X \in SUBSET S : \E k \in Nat : /\ k <= Cardinality(X)
                                                   /\ Cardinality(First(X, k)) # k}
  <1>1. SUFFICES ASSUME F # {} PROVE FALSE
    OBVIOUS
  <1>2. F \subseteq SUBSET S
    OBVIOUS
  <1> HIDE DEF F
  <1>3. PICK X \in F : \A Y \in F : ~(Y \subseteq X /\ Y # X)
    BY <1>1, <1>2, SmallestMember
  <1>4. X \in SUBSET S /\ \E k \in Nat : /\ k <= Cardinality(X)
                                         /\ Cardinality(First(X, k)) # k
    BY <1>3 DEF F
  <1>5. PICK k \in Nat : k <= Cardinality(X) /\ Cardinality(First(X, k)) # k
    BY <1>4
  <1>6. IsFiniteSet(X) /\ Cardinality(X) \in Nat /\ TotalOrder(R, X)
    BY <1>4, FS_Subset, FS_CardinalityType DEF TotalOrder
  <1>7. X # {}
    <2>1. First({}, k) = {}
      OBVIOUS
    <2>2. X = {} => Cardinality(First(X, k)) = 0 /\ Cardinality(X) = 0
      BY <2>1, FS_EmptySet
    <2>3. QED
      BY <1>5, <2>2
  <1>8. PICK m \in X : \A y \in X \ {m} : <<y, m>> \in R
    BY <1>6, <1>7, LastMember
  <1> DEFINE Y == X \ {m}
  <1>9. IsFiniteSet(Y) /\ Cardinality(Y) = Cardinality(X) - 1 /\ Y \subseteq X
        /\ Cardinality(Y) \in Nat
    BY <1>6, FS_RemoveElement, FS_CardinalityType
  <1>10. \A j \in Nat : j <= Cardinality(Y) => Cardinality(First(Y, j)) = j
    BY <1>3, <1>4, <1>8, <1>9 DEF F
  <1>11. Preceding(R, X, m) = Y
    BY <1>6, <1>8 DEF Preceding, TotalOrder
  <1>12. ASSUME NEW x \in Y PROVE Preceding(R, X, x) = Preceding(R, Y, x)
    <2>1. <<m, x>> \notin R
      BY <1>6, <1>8, <1>12 DEF TotalOrder
    <2>2. QED
      BY <2>1 DEF Preceding
  <1> HIDE DEF Y
  <1>13. CASE k <= Cardinality(Y)
    <2>1. m \notin First(X, k)
      BY <1>11, <1>13, <1>9
    <2>2. First(X, k) = First(Y, k)
      <3>1. \A x \in X : x = m \/ x \in Y
        BY DEF Y
      <3>2. QED
        BY <1>9, <1>12, <2>1, <3>1
    <2>3. QED
      BY <1>5, <1>10, <1>13, <2>2
  <1>14. CASE k = Cardinality(X)
    <2>1. ASSUME NEW x \in X PROVE Cardinality(Preceding(R, X, x)) < k
      <3>1. Preceding(R, X, x) \subseteq X \ {x}
        BY <1>6 DEF Preceding, TotalOrder
      <3>2. IsFiniteSet(X \ {x}) /\ Cardinality(X \ {x}) = Cardinality(X) - 1
        BY <1>6, FS_RemoveElement
      <3>3. /\ Cardinality(Preceding(R, X, x)) <= Cardinality(X \ {x})
            /\ Cardinality(Preceding(R, X, x)) \in Nat
        BY <3>1, <3>2, FS_Subset, FS_CardinalityType
      <3>4. QED
        BY <1>6, <1>14, <3>2, <3>3
    <2>2. First(X, k) = X
      BY <2>1
    <2>3. QED
      BY <1>5, <1>14, <2>2
  <1>15. QED
    BY <1>5, <1>6, <1>9, <1>13, <1>14
=============================================================================
