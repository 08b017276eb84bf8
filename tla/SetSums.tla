------------------------------- MODULE SetSums -------------------------------
(***************************************************************************)
(* The sum of a function over a finite set, which the library defines as a *)
(* fold: its value does not depend on the order of the elements, and one   *)
(* more element adds its value.                                            *)
(*                                                                         *)
(* The induction is over sets of sets: a family of subsets of a finite set *)
(* has a member that no member is smaller than by one element.             *)
(***************************************************************************)
EXTENDS Naturals, FiniteSetsExt, FiniteSetTheorems, WellFoundedInduction, TLAPS

\* A set of numbers has a least one.
LEMMA LeastNumber ==
    ASSUME NEW T \in SUBSET Nat, T # {}
    PROVE  \E n \in T : \A m \in T : n <= m
<1> DEFINE R == OpToRel(<, Nat)
<1>1. IsWellFoundedOn(R, Nat)
    BY NatLessThanWellFounded
<1>2. PICK n \in T : \A m \in T : <<m, n>> \notin R
    <2> HIDE DEF R
    <2> QED BY <1>1, WFMin
<1>3. \A m \in T : <<m, n>> \in R <=> m < n
    BY DEF OpToRel
<1>4. \A m \in T : ~(m < n)
    BY <1>2, <1>3
<1>5. \A m \in T : n <= m
    BY <1>4
<1> QED BY <1>5

\* The induction principle.
LEMMA SmallestMember ==
    ASSUME NEW S, IsFiniteSet(S), NEW Family \in SUBSET SUBSET S, Family # {}
    PROVE  \E V \in Family : \A x \in V : V \ {x} \notin Family
<1> DEFINE Sizes == {Cardinality(V) : V \in Family}
<1>1. \A V \in Family : IsFiniteSet(V) /\ Cardinality(V) \in Nat
    BY FS_Subset, FS_CardinalityType
<1>2. Sizes \in SUBSET Nat /\ Sizes # {}
    BY <1>1
<1>3. PICK n \in Sizes : \A m \in Sizes : n <= m
    <2> HIDE DEF Sizes
    <2> QED BY <1>2, LeastNumber
<1>4. PICK V \in Family : Cardinality(V) = n
    OBVIOUS
<1>5. ASSUME NEW x \in V, V \ {x} \in Family PROVE FALSE
    <2>1. Cardinality(V \ {x}) = Cardinality(V) - 1
        BY <1>1, FS_RemoveElement
    <2>2. Cardinality(V) <= Cardinality(V \ {x})
        BY <1>3, <1>4, <1>5
    <2> QED BY <1>1, <2>1, <2>2
<1> QED BY <1>5

-----------------------------------------------------------------------------
Pick(T) == CHOOSE x \in T : TRUE

Total(f, S) == MapThenSumSet(LAMBDA x : f[x], S)

\* g is the function that the fold over S computes with.
Folds(g, f, S) ==
    g = [T \in SUBSET S |-> IF T = {} THEN 0 ELSE f[Pick(T)] + g[T \ {Pick(T)}]]

LEMMA TotalIsAFold ==
    ASSUME NEW f, NEW S
    PROVE  Total(f, S) = (CHOOSE g : Folds(g, f, S))[S]
BY DEF Total, MapThenSumSet, MapThenFoldSet, Folds, Pick

LEMMA Picks == \A T : T # {} => Pick(T) \in T
BY DEF Pick

LEMMA FoldsAt ==
    ASSUME NEW f, NEW S, NEW g, Folds(g, f, S), NEW T \in SUBSET S
    PROVE  g[T] = IF T = {} THEN 0 ELSE f[Pick(T)] + g[T \ {Pick(T)}]
BY DEF Folds

\* Two of them agree where both are defined.
LEMMA FoldsAgree ==
    ASSUME NEW f, NEW A, NEW B, NEW g, NEW h, IsFiniteSet(A),
           Folds(g, f, A), Folds(h, f, B), NEW T \in SUBSET A, T \in SUBSET B
    PROVE  g[T] = h[T]
<1> DEFINE Family == {V \in SUBSET A : V \in SUBSET B /\ g[V] # h[V]}
<1> SUFFICES ASSUME Family # {} PROVE FALSE
    OBVIOUS
<1>1. PICK V \in Family : \A x \in V : V \ {x} \notin Family
    <2>1. Family \in SUBSET SUBSET A
        OBVIOUS
    <2> HIDE DEF Family
    <2> QED BY <2>1, SmallestMember
<1>2. g[V] = IF V = {} THEN 0 ELSE f[Pick(V)] + g[V \ {Pick(V)}]
    BY FoldsAt
<1>3. h[V] = IF V = {} THEN 0 ELSE f[Pick(V)] + h[V \ {Pick(V)}]
    BY FoldsAt
<1>4. V # {}
    BY <1>2, <1>3
<1>5. g[V \ {Pick(V)}] = h[V \ {Pick(V)}]
    BY <1>1, <1>4, Picks
<1> QED BY <1>2, <1>3, <1>4, <1>5

LEMMA FoldsRestrict ==
    ASSUME NEW f, NEW A, NEW g, Folds(g, f, A), NEW B \in SUBSET A
    PROVE  Folds([T \in SUBSET B |-> g[T]], f, B)
<1> DEFINE h == [T \in SUBSET B |-> g[T]]
<1>1. ASSUME NEW T \in SUBSET B
      PROVE  h[T] = IF T = {} THEN 0 ELSE f[Pick(T)] + h[T \ {Pick(T)}]
    <2>1. T \in SUBSET A /\ T \ {Pick(T)} \in SUBSET B
        OBVIOUS
    <2>2. g[T] = IF T = {} THEN 0 ELSE f[Pick(T)] + g[T \ {Pick(T)}]
        BY <2>1, FoldsAt
    <2> QED BY <2>1, <2>2
<1>2. h = [T \in SUBSET B |-> h[T]]
    OBVIOUS
<1> HIDE DEF h
<1>3. h = [T \in SUBSET B |-> IF T = {} THEN 0 ELSE f[Pick(T)] + h[T \ {Pick(T)}]]
    BY <1>1, <1>2
<1>4. Folds(h, f, B)
    BY <1>3 DEF Folds
<1> QED BY <1>4 DEF h

\* What the sum over T is, if there is a fold on some set around T.
LEMMA TotalFrom ==
    ASSUME NEW f, NEW S, IsFiniteSet(S), NEW g, Folds(g, f, S), NEW T \in SUBSET S
    PROVE  Total(f, T) = g[T]
<1> DEFINE h == CHOOSE k : Folds(k, f, T)
<1>1. Folds([U \in SUBSET T |-> g[U]], f, T)
    BY FoldsRestrict
<1>2. Folds(h, f, T)
    BY <1>1
<1>3. Total(f, T) = h[T]
    BY TotalIsAFold
<1> HIDE DEF h
<1>4. IsFiniteSet(T)
    BY FS_Subset
<1>5. h[T] = g[T]
    BY <1>2, <1>4, FoldsAgree
<1> QED BY <1>3, <1>5

\* There is a fold on every finite set.
LEMMA FoldsExist ==
    ASSUME NEW f, NEW S, IsFiniteSet(S)
    PROVE  \E g : Folds(g, f, S)
<1> DEFINE Family == {V \in SUBSET S : ~ \E g : Folds(g, f, V)}
<1> SUFFICES ASSUME Family # {} PROVE FALSE
    OBVIOUS
<1>1. PICK V \in Family : \A x \in V : V \ {x} \notin Family
    <2>1. Family \in SUBSET SUBSET S
        OBVIOUS
    <2> HIDE DEF Family
    <2> QED BY <2>1, SmallestMember
<1> DEFINE Step(T) == IF T = {} THEN 0 ELSE f[Pick(T)] + Total(f, T \ {Pick(T)})
           h == [T \in SUBSET V |-> Step(T)]
\* Below V the sum satisfies the equation.
<1>2. ASSUME NEW T \in SUBSET V, NEW x \in V, x \notin T
      PROVE  Total(f, T) = Step(T)
    <2>1. PICK g : Folds(g, f, V \ {x})
        BY <1>1
    <2>2. T \in SUBSET (V \ {x}) /\ T \ {Pick(T)} \in SUBSET (V \ {x}) /\ IsFiniteSet(V \ {x})
        BY <1>2, FS_Subset
    <2>3. Total(f, T) = g[T] /\ Total(f, T \ {Pick(T)}) = g[T \ {Pick(T)}]
        BY <2>1, <2>2, TotalFrom
    <2>4. g[T] = IF T = {} THEN 0 ELSE f[Pick(T)] + g[T \ {Pick(T)}]
        BY <2>1, <2>2, FoldsAt
    <2> QED BY <2>3, <2>4
<1>3. ASSUME NEW T \in SUBSET V
      PROVE  Step(T) = IF T = {} THEN 0 ELSE f[Pick(T)] + h[T \ {Pick(T)}]
    <2>1. CASE T # {}
        <3>1. Pick(T) \in V /\ T \ {Pick(T)} \in SUBSET V
            BY <2>1, Picks
        <3>2. Total(f, T \ {Pick(T)}) = Step(T \ {Pick(T)})
            <4> HIDE DEF Step, h
            <4> QED BY <3>1, <1>2
        <3>3. h[T \ {Pick(T)}] = Step(T \ {Pick(T)})
            <4> HIDE DEF Step
            <4> QED BY <3>1
        <3>4. Step(T) = f[Pick(T)] + Total(f, T \ {Pick(T)})
            BY <2>1
        <3> HIDE DEF Step, h
        <3> QED BY <2>1, <3>2, <3>3, <3>4
    <2> QED BY <2>1
<1>4. Folds(h, f, V)
    <2>1. h = [T \in SUBSET V |-> Step(T)]
        OBVIOUS
    <2> HIDE DEF h, Step
    <2>2. h = [T \in SUBSET V |-> IF T = {} THEN 0 ELSE f[Pick(T)] + h[T \ {Pick(T)}]]
        BY <2>1, <1>3
    <2> QED BY <2>2 DEF Folds
<1> QED BY <1>4

(***************************************************************************)
(* The equation of the library's definition, which rests on a choice.      *)
(***************************************************************************)
LEMMA TotalEquation ==
    ASSUME NEW f, NEW S, IsFiniteSet(S)
    PROVE  Total(f, S) = IF S = {} THEN 0 ELSE f[Pick(S)] + Total(f, S \ {Pick(S)})
<1>1. PICK g : Folds(g, f, S)
    BY FoldsExist
<1>2. g[S] = IF S = {} THEN 0 ELSE f[Pick(S)] + g[S \ {Pick(S)}]
    BY <1>1, FoldsAt
<1>3. Total(f, S) = g[S] /\ Total(f, S \ {Pick(S)}) = g[S \ {Pick(S)}]
    BY <1>1, TotalFrom
<1> QED BY <1>2, <1>3

LEMMA TotalType ==
    ASSUME NEW f, NEW S, IsFiniteSet(S), \A x \in S : f[x] \in Nat
    PROVE  Total(f, S) \in Nat
<1> DEFINE Family == {V \in SUBSET S : Total(f, V) \notin Nat}
<1> SUFFICES ASSUME Family # {} PROVE FALSE
    OBVIOUS
<1>1. PICK V \in Family : \A x \in V : V \ {x} \notin Family
    <2>1. Family \in SUBSET SUBSET S
        OBVIOUS
    <2> HIDE DEF Family
    <2> QED BY <2>1, SmallestMember
<1>2. Total(f, V) = IF V = {} THEN 0 ELSE f[Pick(V)] + Total(f, V \ {Pick(V)})
    BY FS_Subset, TotalEquation
<1>3. V # {}
    BY <1>2
<1>4. Total(f, V \ {Pick(V)}) \in Nat /\ f[Pick(V)] \in Nat
    BY <1>1, <1>3, Picks
<1> QED BY <1>2, <1>3, <1>4

\* Any element may come first.
LEMMA TotalRemove ==
    ASSUME NEW f, NEW S, IsFiniteSet(S), \A x \in S : f[x] \in Nat, NEW y \in S
    PROVE  Total(f, S) = f[y] + Total(f, S \ {y})
<1> DEFINE Family == {V \in SUBSET S : \E x \in V : Total(f, V) # f[x] + Total(f, V \ {x})}
<1> SUFFICES ASSUME Family # {} PROVE FALSE
    OBVIOUS
<1>1. PICK V \in Family : \A x \in V : V \ {x} \notin Family
    <2>1. Family \in SUBSET SUBSET S
        OBVIOUS
    <2> HIDE DEF Family
    <2> QED BY <2>1, SmallestMember
<1>2. PICK x \in V : Total(f, V) # f[x] + Total(f, V \ {x})
    OBVIOUS
<1> DEFINE p == Pick(V)
<1>3. p \in V
    BY Picks
<1>4. Total(f, V) = f[p] + Total(f, V \ {p})
    BY FS_Subset, TotalEquation
<1> HIDE DEF p
<1>5. p # x
    BY <1>2, <1>4
<1>6. /\ Total(f, V \ {p}) = f[x] + Total(f, (V \ {p}) \ {x})
      /\ Total(f, V \ {x}) = f[p] + Total(f, (V \ {x}) \ {p})
    BY <1>1, <1>3, <1>5
<1>7. (V \ {p}) \ {x} = (V \ {x}) \ {p}
    OBVIOUS
<1>8. f[p] \in Nat /\ f[x] \in Nat
    BY <1>3
<1>9. Total(f, (V \ {x}) \ {p}) \in Nat
    <2>1. (V \ {x}) \ {p} \in SUBSET S
        OBVIOUS
    <2> QED BY <2>1, FS_Subset, TotalType
<1> QED BY <1>2, <1>4, <1>6, <1>7, <1>8, <1>9

(***************************************************************************)
(* The two facts a user of the sum needs.                                  *)
(***************************************************************************)
LEMMA TotalEmpty == \A f : Total(f, {}) = 0
BY FS_EmptySet, TotalEquation

LEMMA TotalAdd ==
    ASSUME NEW f, NEW S, IsFiniteSet(S), NEW y, \A x \in S \cup {y} : f[x] \in Nat
    PROVE  Total(f, S \cup {y}) = IF y \in S THEN Total(f, S) ELSE Total(f, S) + f[y]
<1>1. CASE y \in S
    <2>1. S \cup {y} = S
        BY <1>1
    <2> QED BY <1>1, <2>1
<1>2. CASE y \notin S
    <2>1. IsFiniteSet(S \cup {y}) /\ (S \cup {y}) \ {y} = S
        BY <1>2, FS_AddElement
    <2>2. Total(f, S \cup {y}) = f[y] + Total(f, S)
        BY <2>1, TotalRemove
    <2>3. Total(f, S) \in Nat /\ f[y] \in Nat
        BY TotalType
    <2> QED BY <1>2, <2>2, <2>3
<1> QED BY <1>1, <1>2
=============================================================================
