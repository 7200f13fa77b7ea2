------------------------------ MODULE FiniteSums ------------------------------
(***************************************************************************)
(* What is known of the sum of a function over a finite set, for whoever    *)
(* proves that shares stay within a total.  The community modules define   *)
(* the sum as a fold, a recursive function over the subsets; nothing of it *)
(* is assumed here.  Induction over finite sets is used in the form of a   *)
(* smallest counterexample: strict inclusion is well founded on them.      *)
(***************************************************************************)
EXTENDS Integers, FiniteSetsExt, FiniteSetTheorems, WellFoundedInduction, TLAPS

-----------------------------------------------------------------------------
(* Induction over the subsets of a finite set, with the good ones as a set *)

LEMMA SetInduction ==
    ASSUME NEW S, IsFiniteSet(S), NEW Good,
           \A T \in SUBSET S : (\A U \in SUBSET T : U # T => U \in Good) => T \in Good
    PROVE  \A T \in SUBSET S : T \in Good
<1> DEFINE Bad == {T \in SUBSET S : T \notin Good}
<1> SUFFICES ASSUME Bad # {} PROVE FALSE
    OBVIOUS
<1>1. Bad \subseteq FiniteSubsetsOf(S)
    BY FS_Subset DEF FiniteSubsetsOf
<1>2. IsWellFoundedOn(StrictSubsetOrdering(S), FiniteSubsetsOf(S))
    BY FS_StrictSubsetOrderingWellFounded
<1>3. PICK T \in Bad : \A U \in Bad : ~(<<U, T>> \in StrictSubsetOrdering(S))
    <2> HIDE DEF Bad
    <2> QED BY <1>1, <1>2, WFMin
<1>4. ASSUME NEW U \in SUBSET T, U # T PROVE U \in Good
    BY <1>3, <1>4 DEF StrictSubsetOrdering
<1> QED BY <1>3, <1>4

-----------------------------------------------------------------------------
(* The sum of c over T, and the recursive function the fold takes it from *)

Pick(s) == CHOOSE x \in s : TRUE
Added(c, s, g) == IF s = {} THEN 0 ELSE c[Pick(s)] + g[s \ {Pick(s)}]
Sums(c, T, g) == g = [s \in SUBSET T |-> Added(c, s, g)]
Sum(c, T) == MapThenSumSet(LAMBDA e : c[e], T)

LEMMA Picked == ASSUME NEW s, s # {} PROVE Pick(s) \in s
BY DEF Pick

\* The fold of the community modules, unfolded once and for all.
LEMMA SumIs == ASSUME NEW T, NEW c PROVE Sum(c, T) = (CHOOSE g : Sums(c, T, g))[T]
BY DEF Sum, MapThenSumSet, MapThenFoldSet, Sums, Added, Pick

\* The sums over the subsets of a set are those over the subsets of a larger one.
LEMMA SumsAgree ==
    ASSUME NEW T, NEW U \in SUBSET T, NEW c, NEW g, NEW h, IsFiniteSet(T),
           Sums(c, T, g), Sums(c, U, h)
    PROVE  \A s \in SUBSET U : g[s] = h[s]
<1> DEFINE Good == {s \in SUBSET U : g[s] = h[s]}
<1>1. IsFiniteSet(U)
    BY FS_Subset
<1>2. ASSUME NEW s \in SUBSET U, \A r \in SUBSET s : r # s => r \in Good
      PROVE  s \in Good
    <2>1. g[s] = Added(c, s, g) /\ h[s] = Added(c, s, h)
        BY DEF Sums
    <2>2. CASE s = {}
        BY <2>1, <2>2 DEF Added
    <2>3. CASE s # {}
        <3>1. s \ {Pick(s)} \in Good
            BY <1>2, <2>3, Picked
        <3> QED BY <2>1, <2>3, <3>1 DEF Added
    <2> QED BY <2>2, <2>3
<1>3. \A s \in SUBSET U : s \in Good
    <2> HIDE DEF Good
    <2> QED BY <1>1, <1>2, SetInduction
<1> QED BY <1>3

\* The recursive function exists: it is put together from those of the subsets.
LEMMA SumsExist ==
    ASSUME NEW S, IsFiniteSet(S), NEW c
    PROVE  \E g : Sums(c, S, g)
<1> DEFINE Good == {T \in SUBSET S : \E g : Sums(c, T, g)}
           G(T)  == CHOOSE g : Sums(c, T, g)
<1>1. ASSUME NEW T \in SUBSET S, \A U \in SUBSET T : U # T => U \in Good
      PROVE  T \in Good
    <2> DEFINE g(s) == IF s = T THEN Added(c, T, [r \in SUBSET T |-> G(r)[r]]) ELSE G(s)[s]
               f    == [s \in SUBSET T |-> g(s)]
    <2>0. \A U \in SUBSET T : U # T => Sums(c, U, G(U))
        BY <1>1
    <2> HIDE DEF Good, G
    <2>1. ASSUME NEW s \in SUBSET T PROVE f[s] = Added(c, s, f)
        <3>1. CASE s = {}
            <4>1. s # T => G(s)[s] = Added(c, s, G(s))
                BY <2>0 DEF Sums
            <4> QED BY <3>1, <4>1 DEF Added
        <3>2. CASE s # {}
            <4> DEFINE r == s \ {Pick(s)}
            <4>1. r \in SUBSET s /\ r # s /\ r \in SUBSET T /\ r # T
                BY <3>2, Picked
            <4>2. f[r] = G(r)[r]
                BY <4>1
            <4>3. CASE s = T
                BY <3>2, <4>1, <4>2, <4>3 DEF Added
            <4>4. CASE s # T
                <5>1. Sums(c, s, G(s)) /\ Sums(c, r, G(r)) /\ IsFiniteSet(s)
                    BY <2>0, <4>1, <4>4, FS_Subset
                <5>2. G(s)[r] = G(r)[r]
                    BY <4>1, <5>1, SumsAgree
                <5>3. G(s)[s] = Added(c, s, G(s))
                    BY <5>1 DEF Sums
                <5> QED BY <3>2, <4>2, <4>4, <5>2, <5>3 DEF Added
            <4> QED BY <4>3, <4>4
        <3> QED BY <3>1, <3>2
    <2>2. f = [s \in SUBSET T |-> Added(c, s, f)]
        BY <2>1
    <2> HIDE DEF f
    <2>3. Sums(c, T, f)
        BY <2>2 DEF Sums
    <2> QED BY <2>3 DEF Good
<1>2. S \in Good
    <2> HIDE DEF Good
    <2> QED BY <1>1, SetInduction
<1> QED BY <1>2

-----------------------------------------------------------------------------
(* What the sum is, and what bounds it *)

LEMMA SumUnfolds ==
    ASSUME NEW T, NEW c, NEW g, Sums(c, T, g)
    PROVE  g[T] = Added(c, T, g)
<1>1. T \in SUBSET T
    OBVIOUS
<1>2. [s \in SUBSET T |-> Added(c, s, g)][T] = Added(c, T, g)
    <2> DEFINE F(s) == Added(c, s, g)
    <2> HIDE DEF F
    <2>1. [s \in SUBSET T |-> F(s)][T] = F(T)
        BY <1>1
    <2> QED BY <2>1 DEF F
<1> QED BY <1>2 DEF Sums

\* The sum takes one element after another.
LEMMA SumStep ==
    ASSUME NEW T, IsFiniteSet(T), NEW c
    PROVE  Sum(c, T) = IF T = {} THEN 0 ELSE c[Pick(T)] + Sum(c, T \ {Pick(T)})
<1> DEFINE G(U) == CHOOSE g : Sums(c, U, g)
           U    == T \ {Pick(T)}
<1>1. Sums(c, T, G(T)) /\ Sums(c, U, G(U))
    BY SumsExist, FS_Subset
<1>2. Sum(c, T) = G(T)[T] /\ Sum(c, U) = G(U)[U]
    BY SumIs
<1> HIDE DEF G
<1>3. G(T)[T] = Added(c, T, G(T))
    BY <1>1, SumUnfolds
<1>4. U \in SUBSET T
    OBVIOUS
<1> HIDE DEF U
<1>5. ASSUME NEW g, NEW h, Sums(c, T, g), Sums(c, U, h) PROVE g[U] = h[U]
    <2>1. /\ U \in SUBSET T /\ IsFiniteSet(T) /\ Sums(c, T, g) /\ Sums(c, U, h)
        BY <1>4, <1>5
    <2>2. \A s \in SUBSET U : g[s] = h[s]
        BY <2>1, SumsAgree, Z3
    <2> QED BY <2>2
<1>6. G(T)[U] = G(U)[U]
    BY <1>1, <1>5
<1> QED BY <1>2, <1>3, <1>6 DEF Added, U

\* Nothing summed is more than q: the sum is no more than q for each element.
LEMMA SumBound ==
    ASSUME NEW S, IsFiniteSet(S), NEW c, NEW q \in Nat,
           \A e \in S : c[e] \in Nat /\ c[e] <= q
    PROVE  Sum(c, S) \in Nat /\ Sum(c, S) <= q * Cardinality(S)
<1> DEFINE Good == {T \in SUBSET S : Sum(c, T) \in Nat /\ Sum(c, T) <= q * Cardinality(T)}
<1>1. ASSUME NEW T \in SUBSET S, \A U \in SUBSET T : U # T => U \in Good
      PROVE  T \in Good
    <2>1. IsFiniteSet(T) /\ Cardinality(T) \in Nat
        BY FS_Subset, FS_CardinalityType
    <2>2. CASE T = {}
        BY <2>1, <2>2, SumStep, FS_EmptySet
    <2>3. CASE T # {}
        <3> DEFINE x == Pick(T)
                   U == T \ {x}
        <3>1. x \in T /\ U \in Good
            BY <1>1, <2>3, Picked
        <3>2. Cardinality(U) = Cardinality(T) - 1
            BY <2>1, <3>1, FS_RemoveElement
        <3>3. Sum(c, T) = c[x] + Sum(c, U)
            BY <2>1, <2>3, SumStep
        <3>4. c[x] \in Nat /\ c[x] <= q /\ Sum(c, U) \in Nat /\ Sum(c, U) <= q * (Cardinality(T) - 1)
            BY <3>1, <3>2
        <3>5. q * (Cardinality(T) - 1) + q = q * Cardinality(T)
            BY <2>1
        <3> HIDE DEF x, U
        <3>6. Sum(c, T) \in Nat /\ Sum(c, T) <= q * (Cardinality(T) - 1) + q
            BY <2>1, <3>3, <3>4
        <3> QED BY <3>5, <3>6
    <2> QED BY <2>2, <2>3
<1>2. S \in Good
    <2> HIDE DEF Good
    <2> QED BY <1>1, SetInduction
<1> QED BY <1>2
=============================================================================
