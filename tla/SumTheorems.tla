---------------------------- MODULE SumTheorems -----------------------------
(***************************************************************************)
(* Sums over finite sets: what SumFunctionOnSet of module Functions adds   *)
(* up to, for any function and any finite set of its arguments.  The       *)
(* models' balances, totals and exposures are such sums.                   *)
(*                                                                         *)
(* The operator is a fold, that is a recursive function on the subsets of  *)
(* the set, which picks its next element with CHOOSE.  That the recursion  *)
(* has a solution, and that the choice does not matter, is proved by       *)
(* induction on cardinalities.  Induction is stated with sets instead of   *)
(* predicates, so that it can be cited with a set built for the purpose.   *)
(***************************************************************************)
EXTENDS Integers, FiniteSets, Functions, FiniteSetTheorems, WellFoundedInduction, TLAPS

-----------------------------------------------------------------------------
(* Induction                                                               *)

(* A set with 0 and every successor holds all naturals.                    *)
LEMMA NaturalsByInduction ==
    ASSUME NEW T, T \subseteq Nat, 0 \in T, \A n \in T : n + 1 \in T
    PROVE  T = Nat
<1> DEFINE less == OpToRel(<,Nat)
           rest == Nat \ T
<1> HIDE DEF less
<1>1. ASSUME rest # {} PROVE FALSE
  <2>1. PICK x \in rest : \A y \in rest : <<y, x>> \notin less
    BY <1>1, NatLessThanWellFounded, WFMin DEF less
  <2>2. \A y \in rest : ~(y < x)
    BY <2>1 DEF less, OpToRel
  <2>3. x # 0 /\ x - 1 \in Nat /\ x - 1 \notin T
    BY <2>1
  <2> QED BY <2>2, <2>3
<1> QED BY <1>1

LEMMA OneFewer ==
    ASSUME NEW S, IsFiniteSet(S), NEW x \in S,
           NEW n \in Nat, Cardinality(S) = n + 1
    PROVE  IsFiniteSet(S \ {x}) /\ Cardinality(S \ {x}) = n
BY FS_RemoveElement

LEMMA SubsetsFinite ==
    ASSUME NEW S, IsFiniteSet(S)
    PROVE  \A T \in SUBSET S : IsFiniteSet(T) /\ Cardinality(T) \in Nat
BY FS_Subset, FS_CardinalityType

(* A set C that holds a subset of S as soon as it holds what is left of it *)
(* without any one element, holds every subset of S.                       *)
LEMMA SubsetsByInduction ==
    ASSUME NEW S, IsFiniteSet(S), NEW C,
           \A T \in SUBSET S : (\A x \in T : T \ {x} \in C) => T \in C
    PROVE  SUBSET S \subseteq C
<1> DEFINE reached == {n \in Nat : \A T \in SUBSET S : Cardinality(T) = n => T \in C}
<1>1. \A T \in SUBSET S : IsFiniteSet(T) /\ Cardinality(T) \in Nat
  BY SubsetsFinite
<1>2. 0 \in reached
  <2>1. {} \in C
    OBVIOUS
  <2> QED BY <1>1, <2>1, FS_EmptySet
<1>3. ASSUME NEW n \in reached PROVE n + 1 \in reached
  <2> SUFFICES ASSUME NEW T \in SUBSET S, Cardinality(T) = n + 1 PROVE T \in C
    OBVIOUS
  <2>1. ASSUME NEW x \in T PROVE T \ {x} \in C
    <3>1. Cardinality(T \ {x}) = n
      BY <1>1, OneFewer
    <3> QED BY <3>1
  <2> QED BY <2>1
<1>4. reached = Nat
  <2> HIDE DEF reached
  <2>1. reached \subseteq Nat
    BY DEF reached
  <2> QED BY <1>2, <1>3, <2>1, NaturalsByInduction
<1> QED BY <1>1, <1>4

-----------------------------------------------------------------------------
(* The recursion behind the sum                                            *)

Pick(s) == CHOOSE x \in s : TRUE

Unfolds(f, D, g) ==
    g = [s \in D |-> IF s = {} THEN 0 ELSE f[Pick(s)] + g[s \ {Pick(s)}]]

Iter(f, S) == CHOOSE g : Unfolds(f, SUBSET S, g)

LEMMA PickIn == \A s : s # {} => Pick(s) \in s
  BY DEF Pick

LEMMA SumIsIter ==
    ASSUME NEW f, NEW S
    PROVE  SumFunctionOnSet(f, S) = Iter(f, S)[S]
BY Zenon DEF SumFunctionOnSet, FoldFunctionOnSet, MapThenFoldSet, Iter, Unfolds, Pick

(* The function that the fold chooses exists: it is built up, one          *)
(* cardinality after the other.                                            *)
LEMMA IterUnfolds ==
    ASSUME NEW f, NEW S, IsFiniteSet(S)
    PROVE  Unfolds(f, SUBSET S, Iter(f, S))
<1> DEFINE level(n) == {s \in SUBSET S : Cardinality(s) <= n}
           reached  == {n \in Nat : \E g : Unfolds(f, level(n), g)}
<1>1. \A s \in SUBSET S : IsFiniteSet(s) /\ Cardinality(s) \in Nat
  BY FS_Subset, FS_CardinalityType
<1>2. 0 \in reached
  <2> DEFINE g == [s \in level(0) |-> 0]
  <2>1. \A s \in level(0) : s = {}
    BY <1>1, FS_EmptySet
  <2>2. Unfolds(f, level(0), g)
    BY <2>1 DEF Unfolds
  <2> HIDE DEF g
  <2> QED BY <2>2
<1>3. ASSUME NEW n \in reached PROVE n + 1 \in reached
  <2>1. PICK g : Unfolds(f, level(n), g)
    OBVIOUS
  <2> DEFINE val(h, s) == IF s = {} THEN 0 ELSE f[Pick(s)] + h[s \ {Pick(s)}]
             h == [s \in level(n + 1) |-> val(g, s)]
  <2>2. ASSUME NEW s \in level(n + 1), s # {}
        PROVE  s \ {Pick(s)} \in level(n)
    BY <1>1, <2>2, PickIn, FS_RemoveElement
  <2>3. level(n) \subseteq level(n + 1)
    BY <1>1
  <2>4. \A s \in level(n) : h[s] = g[s]
    <3> HIDE DEF level
    <3> QED BY <2>1, <2>3 DEF Unfolds
  <2>5. \A s \in level(n + 1) : val(g, s) = val(h, s)
    <3> HIDE DEF level, h
    <3> QED BY <2>2, <2>4
  <2>6. Unfolds(f, level(n + 1), h)
    <3> HIDE DEF level
    <3> SUFFICES h = [s \in level(n + 1) |-> val(h, s)]
      BY DEF Unfolds
    <3> DEFINE hh == h
    <3>1. hh = [s \in level(n + 1) |-> val(g, s)]
      OBVIOUS
    <3> HIDE DEF hh
    <3>2. \A s \in level(n + 1) : val(g, s) = val(hh, s)
      BY <2>5 DEF hh
    <3>3. hh = [s \in level(n + 1) |-> val(hh, s)]
      BY <3>1, <3>2
    <3> QED BY <3>3 DEF hh
  <2> HIDE DEF h
  <2> QED BY <2>6
<1>4. reached = Nat
  <2> HIDE DEF reached
  <2>1. reached \subseteq Nat
    BY DEF reached
  <2> QED BY <1>2, <1>3, <2>1, NaturalsByInduction
<1>5. level(Cardinality(S)) = SUBSET S
  BY <1>1, FS_Subset
<1>6. \E g : Unfolds(f, SUBSET S, g)
  <2>1. Cardinality(S) \in reached
    BY <1>1, <1>4
  <2> QED BY <2>1, <1>5
<1> QED BY <1>6 DEF Iter

LEMMA IterStep ==
    ASSUME NEW f, NEW S, IsFiniteSet(S), NEW T \in SUBSET S
    PROVE  Iter(f, S)[T] =
             IF T = {} THEN 0 ELSE f[Pick(T)] + Iter(f, S)[T \ {Pick(T)}]
<1> DEFINE it == Iter(f, S)
<1>1. Unfolds(f, SUBSET S, it)
  BY IterUnfolds
<1> HIDE DEF it
<1>2. it[T] = IF T = {} THEN 0 ELSE f[Pick(T)] + it[T \ {Pick(T)}]
  BY <1>1 DEF Unfolds
<1> QED BY <1>2 DEF it

(* The recursions over a set and over a larger one agree.                  *)
LEMMA IterAgrees ==
    ASSUME NEW f, NEW S, IsFiniteSet(S), NEW T \in SUBSET S
    PROVE  Iter(f, S)[T] = SumFunctionOnSet(f, T)
<1> DEFINE agree == {U \in SUBSET T : Iter(f, S)[U] = Iter(f, T)[U]}
<1>1. IsFiniteSet(T)
  BY FS_Subset
<1>2. ASSUME NEW U \in SUBSET T, \A x \in U : U \ {x} \in agree
      PROVE  U \in agree
  <2>1. U \in SUBSET S
    OBVIOUS
  <2>2. CASE U = {}
    BY <1>1, <2>1, <2>2, IterStep
  <2>3. CASE U # {}
    <3>1. Iter(f, S)[U \ {Pick(U)}] = Iter(f, T)[U \ {Pick(U)}]
      BY <1>2, <2>3, PickIn
    <3>2. /\ Iter(f, S)[U] = f[Pick(U)] + Iter(f, S)[U \ {Pick(U)}]
          /\ Iter(f, T)[U] = f[Pick(U)] + Iter(f, T)[U \ {Pick(U)}]
      BY <1>1, <2>1, <2>3, IterStep
    <3> QED BY <3>1, <3>2
  <2> QED BY <2>2, <2>3
<1>3. SUBSET T \subseteq agree
  <2> HIDE DEF agree
  <2> QED BY <1>1, <1>2, SubsetsByInduction
<1> QED BY <1>3, SumIsIter

LEMMA SumPick ==
    ASSUME NEW f, NEW S, IsFiniteSet(S), S # {}
    PROVE  SumFunctionOnSet(f, S) = f[Pick(S)] + SumFunctionOnSet(f, S \ {Pick(S)})
<1>1. SumFunctionOnSet(f, S) = f[Pick(S)] + Iter(f, S)[S \ {Pick(S)}]
  BY SumIsIter, IterStep
<1> QED BY <1>1, IterAgrees

-----------------------------------------------------------------------------
(* What a sum is                                                           *)

(* Nothing adds up to 0.                                                   *)
THEOREM SumEmpty == \A f : SumFunctionOnSet(f, {}) = 0
BY SumIsIter, IterStep, FS_EmptySet

(* Integers add up to an integer.                                          *)
THEOREM SumInt ==
    ASSUME NEW f, NEW S, IsFiniteSet(S), \A x \in S : f[x] \in Int
    PROVE  SumFunctionOnSet(f, S) \in Int
<1> DEFINE typed == {T \in SUBSET S : SumFunctionOnSet(f, T) \in Int}
<1>1. ASSUME NEW T \in SUBSET S, \A x \in T : T \ {x} \in typed
      PROVE  T \in typed
  <2>1. IsFiniteSet(T)
    BY FS_Subset
  <2>2. CASE T = {}
    BY <2>2, SumEmpty
  <2>3. CASE T # {}
    <3>1. f[Pick(T)] \in Int /\ SumFunctionOnSet(f, T \ {Pick(T)}) \in Int
      BY <1>1, <2>3, PickIn
    <3> QED BY <2>1, <2>3, <3>1, SumPick
  <2> QED BY <2>2, <2>3
<1>2. SUBSET S \subseteq typed
  <2> HIDE DEF typed
  <2> QED BY <1>1, SubsetsByInduction
<1> QED BY <1>2

(* Any element may be taken out first.                                     *)
THEOREM SumRemove ==
    ASSUME NEW f, NEW S, IsFiniteSet(S), \A x \in S : f[x] \in Int, NEW x \in S
    PROVE  SumFunctionOnSet(f, S) = f[x] + SumFunctionOnSet(f, S \ {x})
<1> DEFINE splits(T) == \A y \in T : SumFunctionOnSet(f, T) = f[y] + SumFunctionOnSet(f, T \ {y})
           split     == {T \in SUBSET S : splits(T)}
<1>1. \A T \in SUBSET S : IsFiniteSet(T) /\ SumFunctionOnSet(f, T) \in Int
  BY FS_Subset, SumInt
<1>2. ASSUME NEW T \in SUBSET S, \A y \in T : T \ {y} \in split
      PROVE  T \in split
  <2>1. ASSUME NEW y \in T, y # Pick(T)
        PROVE  SumFunctionOnSet(f, T) = f[y] + SumFunctionOnSet(f, T \ {y})
    <3> DEFINE p == Pick(T)
               A == T \ {p}
               B == T \ {y}
               both == A \ {y}
    <3>1. p \in T
      BY PickIn
    <3>2. /\ A \in SUBSET S /\ B \in SUBSET S /\ both \in SUBSET S /\ both = B \ {p}
          /\ y \in A /\ p \in B
      BY <2>1, <3>1
    <3>3. splits(A) /\ splits(B)
      BY <1>2, <3>1
    <3>4. SumFunctionOnSet(f, T) = f[p] + SumFunctionOnSet(f, A)
      BY <1>1, <3>1, SumPick
    <3>5. SumFunctionOnSet(f, A) = f[y] + SumFunctionOnSet(f, both)
      BY <3>2, <3>3
    <3>6. SumFunctionOnSet(f, B) = f[p] + SumFunctionOnSet(f, both)
      BY <3>2, <3>3
    <3>7. f[p] \in Int /\ f[y] \in Int /\ SumFunctionOnSet(f, both) \in Int
      BY <1>1, <3>1, <3>2
    <3> HIDE DEF p, A, B, both
    <3> QED BY <3>4, <3>5, <3>6, <3>7 DEF B
  <2>2. ASSUME NEW y \in T, y = Pick(T)
        PROVE  SumFunctionOnSet(f, T) = f[y] + SumFunctionOnSet(f, T \ {y})
    <3>1. IsFiniteSet(T) /\ T # {}
      BY <1>1
    <3> QED BY <2>2, <3>1, SumPick
  <2> QED BY <2>1, <2>2
<1>3. SUBSET S \subseteq split
  <2> HIDE DEF split
  <2> QED BY <1>2, SubsetsByInduction
<1> QED BY <1>3

(* Adding an element.                                                      *)
THEOREM SumAdd ==
    ASSUME NEW f, NEW S, IsFiniteSet(S), NEW x, x \notin S, \A y \in S \cup {x} : f[y] \in Int
    PROVE  SumFunctionOnSet(f, S \cup {x}) = f[x] + SumFunctionOnSet(f, S)
<1>1. IsFiniteSet(S \cup {x}) /\ (S \cup {x}) \ {x} = S
  BY FS_AddElement
<1>2. SumFunctionOnSet(f, S \cup {x}) = f[x] + SumFunctionOnSet(f, (S \cup {x}) \ {x})
  BY <1>1, SumRemove
<1> QED BY <1>1, <1>2

(* Functions with the same values on a set have the same sum.              *)
THEOREM SumSame ==
    ASSUME NEW f, NEW g, NEW S, IsFiniteSet(S), \A x \in S : f[x] = g[x]
    PROVE  SumFunctionOnSet(f, S) = SumFunctionOnSet(g, S)
<1> DEFINE same == {T \in SUBSET S : SumFunctionOnSet(f, T) = SumFunctionOnSet(g, T)}
<1>1. ASSUME NEW T \in SUBSET S, \A x \in T : T \ {x} \in same
      PROVE  T \in same
  <2>1. IsFiniteSet(T)
    BY FS_Subset
  <2>2. CASE T = {}
    BY <2>2, SumEmpty
  <2>3. CASE T # {}
    <3>1. Pick(T) \in T
      BY <2>3, PickIn
    <3>2. SumFunctionOnSet(f, T \ {Pick(T)}) = SumFunctionOnSet(g, T \ {Pick(T)})
      BY <1>1, <3>1
    <3> QED BY <2>1, <2>3, <3>1, <3>2, SumPick
  <2> QED BY <2>2, <2>3
<1>2. SUBSET S \subseteq same
  <2> HIDE DEF same
  <2> QED BY <1>1, SubsetsByInduction
<1> QED BY <1>2

(* One value changes: the sum changes by as much.                          *)
THEOREM SumChange ==
    ASSUME NEW f, NEW g, NEW S, IsFiniteSet(S), NEW x \in S,
           \A y \in S : f[y] \in Int /\ g[y] \in Int,
           \A y \in S \ {x} : g[y] = f[y]
    PROVE  SumFunctionOnSet(g, S) = SumFunctionOnSet(f, S) - f[x] + g[x]
<1>1. IsFiniteSet(S \ {x})
  BY FS_RemoveElement
<1>2. SumFunctionOnSet(g, S \ {x}) = SumFunctionOnSet(f, S \ {x})
  BY <1>1, SumSame
<1>3. SumFunctionOnSet(f, S) = f[x] + SumFunctionOnSet(f, S \ {x})
  BY SumRemove
<1>4. SumFunctionOnSet(g, S) = g[x] + SumFunctionOnSet(g, S \ {x})
  BY SumRemove
<1>5. SumFunctionOnSet(f, S \ {x}) \in Int
  BY <1>1, SumInt
<1> QED BY <1>2, <1>3, <1>4, <1>5

(* The set gains an element and the values of the others stay.             *)
THEOREM SumGrow ==
    ASSUME NEW f, NEW g, NEW S, IsFiniteSet(S), NEW x, x \notin S, g[x] \in Int,
           \A y \in S : f[y] \in Int /\ g[y] = f[y]
    PROVE  SumFunctionOnSet(g, S \cup {x}) = SumFunctionOnSet(f, S) + g[x]
<1>1. SumFunctionOnSet(g, S \cup {x}) = g[x] + SumFunctionOnSet(g, S)
  BY SumAdd
<1>2. SumFunctionOnSet(g, S) = SumFunctionOnSet(f, S)
  BY SumSame
<1>3. SumFunctionOnSet(f, S) \in Int
  BY SumInt
<1> QED BY <1>1, <1>2, <1>3

(* Values that are all 0 add up to 0.                                      *)
THEOREM SumZero ==
    ASSUME NEW f, NEW S, IsFiniteSet(S), \A x \in S : f[x] = 0
    PROVE  SumFunctionOnSet(f, S) = 0
<1> DEFINE zero == {T \in SUBSET S : SumFunctionOnSet(f, T) = 0}
<1>1. ASSUME NEW T \in SUBSET S, \A x \in T : T \ {x} \in zero
      PROVE  T \in zero
  <2>1. IsFiniteSet(T)
    BY FS_Subset
  <2>2. CASE T = {}
    BY <2>2, SumEmpty
  <2>3. CASE T # {}
    <3>1. f[Pick(T)] = 0 /\ SumFunctionOnSet(f, T \ {Pick(T)}) = 0
      BY <1>1, <2>3, PickIn
    <3> QED BY <2>1, <2>3, <3>1, SumPick
  <2> QED BY <2>2, <2>3
<1>2. SUBSET S \subseteq zero
  <2> HIDE DEF zero
  <2> QED BY <1>1, SubsetsByInduction
<1> QED BY <1>2

(* Elements whose value is 0 may be left out of the set.                   *)
THEOREM SumOnPart ==
    ASSUME NEW f, NEW S, IsFiniteSet(S), \A x \in S : f[x] \in Int,
           NEW T, T \subseteq S, \A x \in S \ T : f[x] = 0
    PROVE  SumFunctionOnSet(f, S) = SumFunctionOnSet(f, T)
<1> DEFINE same == {U \in SUBSET S : SumFunctionOnSet(f, U) = SumFunctionOnSet(f, U \cap T)}
<1>1. ASSUME NEW U \in SUBSET S, \A x \in U : U \ {x} \in same
      PROVE  U \in same
  <2>1. IsFiniteSet(U) /\ IsFiniteSet(U \cap T) /\ SumFunctionOnSet(f, U \cap T) \in Int
    BY FS_Subset, SumInt
  <2>2. CASE U = {}
    BY <2>2
  <2>3. CASE U # {}
    <3> DEFINE p == Pick(U)
    <3>1. p \in U
      BY <2>3, PickIn
    <3>2. SumFunctionOnSet(f, U) = f[p] + SumFunctionOnSet(f, (U \ {p}) \cap T)
      <4>1. SumFunctionOnSet(f, U \ {p}) = SumFunctionOnSet(f, (U \ {p}) \cap T)
        BY <1>1, <3>1
      <4> QED BY <2>1, <2>3, <4>1, SumPick
    <3>3. CASE p \in T
      <4>1. p \in U \cap T /\ (U \cap T) \ {p} = (U \ {p}) \cap T
        BY <3>1, <3>3
      <4>2. SumFunctionOnSet(f, U \cap T) = f[p] + SumFunctionOnSet(f, (U \cap T) \ {p})
        BY <2>1, <4>1, SumRemove
      <4> QED BY <3>2, <4>1, <4>2
    <3>4. CASE p \notin T
      <4>1. (U \ {p}) \cap T = U \cap T /\ f[p] = 0
        BY <3>1, <3>4
      <4>2. SumFunctionOnSet(f, U) = 0 + SumFunctionOnSet(f, U \cap T)
        BY <3>2, <4>1
      <4> QED BY <2>1, <4>2
    <3> QED BY <3>3, <3>4
  <2> QED BY <2>2, <2>3
<1>2. SUBSET S \subseteq same
  <2> HIDE DEF same
  <2> QED BY <1>1, SubsetsByInduction
<1>3. S \cap T = T
  OBVIOUS
<1> QED BY <1>2, <1>3

(* Naturals add up to a natural.                                           *)
THEOREM SumNat ==
    ASSUME NEW f, NEW S, IsFiniteSet(S), \A x \in S : f[x] \in Nat
    PROVE  SumFunctionOnSet(f, S) \in Nat
<1> DEFINE typed == {T \in SUBSET S : SumFunctionOnSet(f, T) \in Nat}
<1>1. ASSUME NEW T \in SUBSET S, \A x \in T : T \ {x} \in typed
      PROVE  T \in typed
  <2>1. IsFiniteSet(T)
    BY FS_Subset
  <2>2. CASE T = {}
    BY <2>2, SumEmpty
  <2>3. CASE T # {}
    <3>1. f[Pick(T)] \in Nat /\ SumFunctionOnSet(f, T \ {Pick(T)}) \in Nat
      BY <1>1, <2>3, PickIn
    <3> QED BY <2>1, <2>3, <3>1, SumPick
  <2> QED BY <2>2, <2>3
<1>2. SUBSET S \subseteq typed
  <2> HIDE DEF typed
  <2> QED BY <1>1, SubsetsByInduction
<1> QED BY <1>2

(* At one element at most the values change, or does it come or go: the    *)
(* sum changes by what that element counts for.                            *)
THEOREM SumMoves ==
    ASSUME NEW f, NEW g, NEW S, IsFiniteSet(S), NEW T, T \subseteq S, NEW U, U \subseteq S,
           NEW x, \A y \in T : f[y] \in Int, \A y \in U : g[y] \in Int,
           \A y \in S \ {x} : (y \in T <=> y \in U) /\ (y \in T => g[y] = f[y])
    PROVE  SumFunctionOnSet(g, U) = SumFunctionOnSet(f, T) - (IF x \in T THEN f[x] ELSE 0)
                                                           + (IF x \in U THEN g[x] ELSE 0)
<1> DEFINE rest == T \ {x}
<1>1. IsFiniteSet(T) /\ IsFiniteSet(U) /\ IsFiniteSet(rest) /\ U \ {x} = rest
  BY FS_Subset
<1>2. SumFunctionOnSet(g, rest) = SumFunctionOnSet(f, rest)
  BY <1>1, SumSame
<1>3. SumFunctionOnSet(f, rest) \in Int
  BY <1>1, SumInt
<1>4. SumFunctionOnSet(f, T) = (IF x \in T THEN f[x] ELSE 0) + SumFunctionOnSet(f, rest)
  <2>1. CASE x \in T
    BY <1>1, <2>1, SumRemove
  <2>2. CASE x \notin T
    <3>1. rest = T
      BY <2>2
    <3> HIDE DEF rest
    <3> QED BY <1>3, <2>2, <3>1
  <2> QED BY <2>1, <2>2
<1>5. SumFunctionOnSet(g, U) = (IF x \in U THEN g[x] ELSE 0) + SumFunctionOnSet(g, rest)
  <2>1. CASE x \in U
    BY <1>1, <2>1, SumRemove
  <2>2. CASE x \notin U
    <3>1. rest = U
      BY <1>1, <2>2
    <3> HIDE DEF rest
    <3> QED BY <1>2, <1>3, <2>2, <3>1
  <2> QED BY <2>1, <2>2
<1> QED BY <1>2, <1>3, <1>4, <1>5
=============================================================================
