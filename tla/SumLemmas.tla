----------------------------- MODULE SumLemmas -----------------------------
(***************************************************************************)
(* Lemmas about SumFunctionOnSet and SumFunction of the community modules, *)
(* with which the models add up quantities.  Both are folds; a fold picks  *)
(* one element after another and is a recursive function on the subsets.   *)
(* The induction is a minimal counterexample: the induction theorems of    *)
(* the library have an operator as a parameter and cannot be used.  Also   *)
(* here: least elements, sizes of unions and of sets of list elements, and *)
(* sequences with an element more.                                         *)
(***************************************************************************)
EXTENDS Integers, Sequences, Functions, FiniteSets, FiniteSetTheorems,
        SequenceTheorems, WellFoundedInduction, TLAPS

-----------------------------------------------------------------------------
(* Least elements.                                                         *)

\* A nonempty set of natural numbers has a least element.
LEMMA LeastElement ==
    ASSUME NEW T, T \subseteq Nat, T # {}
    PROVE  \E x \in T : \A y \in T : x <= y
<1> DEFINE R == {ss \in Nat \X Nat : ss[1] < ss[2]}
<1>1. IsWellFoundedOn(R, Nat)
  <2>1. OpToRel(<, Nat) = R
    BY DEF OpToRel
  <2> QED
    BY <2>1, NatLessThanWellFounded
<1>2. PICK x \in T : \A y \in T : ~(<<y, x>> \in R)
  <2> HIDE DEF R
  <2> QED
    BY <1>1, WFMin
<1>3. ASSUME NEW y \in T
      PROVE  x <= y
  <2>1. ~(<<y, x>> \in R)
    BY <1>2, <1>3
  <2>2. <<y, x>> \in R <=> y < x
    BY <1>3
  <2> QED
    BY <1>3, <2>1, <2>2
<1> QED
  BY <1>3

-----------------------------------------------------------------------------
(* The recursive function behind the fold.                                 *)

Pick(s) == CHOOSE x \in s : TRUE

\* g adds up f over each subset of S.
AddsUp(g, f, S) ==
    g = [s \in SUBSET S |-> IF s = {} THEN 0 ELSE f[Pick(s)] + g[s \ {Pick(s)}]]

Adder(f, S) == CHOOSE g : AddsUp(g, f, S)

\* A nonempty set of subsets of a finite set has a minimal element.
LEMMA MinimalSubset ==
    ASSUME NEW S, IsFiniteSet(S), NEW W \in SUBSET SUBSET S, W # {}
    PROVE  \E T \in W : \A U \in W : U \subseteq T => U = T
<1> DEFINE R == StrictSubsetOrdering(S)
<1>1. IsWellFoundedOn(R, SUBSET S)
  BY FS_StrictSubsetOrderingWellFounded, FS_FiniteSubsetsOfFinite
<1>2. PICK T \in W : \A U \in W : ~(<<U, T>> \in R)
  <2> HIDE DEF R
  <2> QED
    BY <1>1, WFMin
<1>3. ASSUME NEW U \in W, U \subseteq T
      PROVE  U = T
  <2>1. U \in SUBSET S /\ T \in SUBSET S
    OBVIOUS
  <2>2. ~(<<U, T>> \in R)
    BY <1>2
  <2>3. <<U, T>> \in R <=> U \subseteq T /\ U # T
    BY <2>1 DEF StrictSubsetOrdering
  <2> QED
    BY <1>3, <2>2, <2>3
<1> QED
  BY <1>3

LEMMA PickInSet == ASSUME NEW s, s # {} PROVE Pick(s) \in s
BY DEF Pick

\* Two functions that add up f agree where both are defined.
LEMMA AddsUpUnique ==
    ASSUME NEW f, NEW S, IsFiniteSet(S), NEW T \in SUBSET S,
           NEW g, AddsUp(g, f, S), NEW h, AddsUp(h, f, T)
    PROVE  \A U \in SUBSET T : g[U] = h[U]
<1> DEFINE W == {U \in SUBSET T : g[U] # h[U]}
<1> SUFFICES ASSUME W # {}
             PROVE  FALSE
  OBVIOUS
<1>1. W \in SUBSET SUBSET T /\ IsFiniteSet(T)
  BY FS_Subset
<1>2. PICK U \in W : \A V \in W : V \subseteq U => V = U
  <2> HIDE DEF W
  <2> QED
    BY <1>1, MinimalSubset
<1>3. /\ g[U] = IF U = {} THEN 0 ELSE f[Pick(U)] + g[U \ {Pick(U)}]
      /\ h[U] = IF U = {} THEN 0 ELSE f[Pick(U)] + h[U \ {Pick(U)}]
  BY DEF AddsUp
<1>4. U # {}
  BY <1>3
<1>5. Pick(U) \in U
  BY <1>4, PickInSet
<1>6. U \ {Pick(U)} \notin W
  BY <1>2, <1>5
<1>7. g[U \ {Pick(U)}] = h[U \ {Pick(U)}]
  BY <1>6
<1> QED
  BY <1>3, <1>7

\* There is one that adds up f.
LEMMA AddsUpExists ==
    ASSUME NEW f, NEW S, IsFiniteSet(S)
    PROVE  AddsUp(Adder(f, S), f, S)
<1> DEFINE W == {T \in SUBSET S : ~AddsUp(Adder(f, T), f, T)}
<1>1. ASSUME W # {}
      PROVE  FALSE
  <2>1. PICK T \in W : \A U \in W : U \subseteq T => U = T
    <3>1. W \in SUBSET SUBSET S
      OBVIOUS
    <3> HIDE DEF W
    <3> QED
      BY <1>1, <3>1, MinimalSubset
  <2>2. \A U \in SUBSET T : U # T => AddsUp(Adder(f, U), f, U)
    BY <2>1
  <2> DEFINE Value(U) == Adder(f, U)[U]
             g == [s \in SUBSET T |->
                     IF s = {} THEN 0 ELSE f[Pick(s)] + Value(s \ {Pick(s)})]
  <2>3. ASSUME NEW U \in SUBSET T, U # T
        PROVE  g[U] = Value(U)
    <3>1. AddsUp(Adder(f, U), f, U)
      BY <2>2, <2>3
    <3>2. Value(U) = IF U = {} THEN 0
                     ELSE f[Pick(U)] + Adder(f, U)[U \ {Pick(U)}]
      BY <3>1 DEF AddsUp
    <3>3. CASE U = {}
      BY <3>2, <3>3
    <3>4. CASE U # {}
      <4> DEFINE V == U \ {Pick(U)}
      <4>1. Pick(U) \in U
        BY <3>4, PickInSet
      <4>2. V \in SUBSET U /\ V \in SUBSET T /\ V # T
        BY <4>1
      <4>3. AddsUp(Adder(f, V), f, V)
        BY <2>2, <4>2
      <4>4. IsFiniteSet(U)
        BY FS_Subset
      <4>5. Adder(f, U)[V] = Value(V)
        BY <3>1, <4>2, <4>3, <4>4, AddsUpUnique
      <4> QED
        BY <3>2, <3>4, <4>5
    <3> QED
      BY <3>3, <3>4
  <2>4. AddsUp(g, f, T)
    <3>1. ASSUME NEW s \in SUBSET T, s # {}
          PROVE  Value(s \ {Pick(s)}) = g[s \ {Pick(s)}]
      <4>1. Pick(s) \in s
        BY <3>1, PickInSet
      <4>2. s \ {Pick(s)} \in SUBSET T /\ s \ {Pick(s)} # T
        BY <4>1
      <4> HIDE DEF g, Value
      <4> QED
        BY <2>3, <4>2
    <3>2. \A s \in SUBSET T :
            (IF s = {} THEN 0 ELSE f[Pick(s)] + Value(s \ {Pick(s)}))
              = IF s = {} THEN 0 ELSE f[Pick(s)] + g[s \ {Pick(s)}]
      BY <3>1
    <3> DEFINE h == [s \in SUBSET T |-> IF s = {} THEN 0 ELSE f[Pick(s)] + g[s \ {Pick(s)}]]
    <3>3. g = h
      <4> HIDE DEF Value
      <4> QED
        BY <3>2
    <3> QED
      BY <3>3, Zenon DEF AddsUp
  <2>5. AddsUp(Adder(f, T), f, T)
    <3> HIDE DEF g
    <3> QED
      BY <2>4, Zenon DEF Adder
  <2> QED
    BY <2>5
<1> QED
  BY <1>1

-----------------------------------------------------------------------------
(* Sums over a finite set.                                                 *)

SumOver(f, S) == SumFunctionOnSet(f, S)

LEMMA SumIsAdder == ASSUME NEW f, NEW S PROVE SumOver(f, S) = Adder(f, S)[S]
BY DEF SumOver, SumFunctionOnSet, FoldFunctionOnSet, MapThenFoldSet, Adder, AddsUp, Pick

\* Nothing adds up to zero, and an element can be taken out: the one that is
\* picked ...
LEMMA SumPicked ==
    ASSUME NEW f, NEW S, IsFiniteSet(S)
    PROVE  SumOver(f, S) = IF S = {} THEN 0 ELSE f[Pick(S)] + SumOver(f, S \ {Pick(S)})
<1>1. AddsUp(Adder(f, S), f, S)
  BY AddsUpExists
<1>2. Adder(f, S)[S] = IF S = {} THEN 0
                       ELSE f[Pick(S)] + Adder(f, S)[S \ {Pick(S)}]
  BY <1>1 DEF AddsUp
<1> DEFINE T == S \ {Pick(S)}
<1>3. IsFiniteSet(T) /\ T \in SUBSET S
  BY FS_Subset
<1>4. AddsUp(Adder(f, T), f, T)
  BY <1>3, AddsUpExists
<1>5. Adder(f, S)[T] = Adder(f, T)[T]
  <2> DEFINE g == Adder(f, S)
             h == Adder(f, T)
  <2>1. AddsUp(g, f, S) /\ AddsUp(h, f, T) /\ T \in SUBSET S
    BY <1>1, <1>3, <1>4
  <2> HIDE DEF T, g, h
  <2>2. \A U \in SUBSET T : g[U] = h[U]
    BY <2>1, AddsUpUnique
  <2> QED
    BY <2>2 DEF g, h
<1> QED
  BY <1>2, <1>5, SumIsAdder

\* Integers add up to an integer, natural numbers to a natural number.
LEMMA SumType ==
    ASSUME NEW f, NEW S, IsFiniteSet(S), \A x \in S : f[x] \in Int
    PROVE  /\ SumOver(f, S) \in Int
           /\ (\A x \in S : f[x] \in Nat) => SumOver(f, S) \in Nat
<1> DEFINE Typed(T) == /\ SumOver(f, T) \in Int
                       /\ (\A x \in S : f[x] \in Nat) => SumOver(f, T) \in Nat
           W == {T \in SUBSET S : ~Typed(T)}
<1> SUFFICES ASSUME W # {}
             PROVE  FALSE
  OBVIOUS
<1>1. PICK T \in W : \A U \in W : U \subseteq T => U = T
  <2>1. W \in SUBSET SUBSET S
    OBVIOUS
  <2> HIDE DEF W
  <2> QED
    BY <2>1, MinimalSubset
<1>2. IsFiniteSet(T)
  BY FS_Subset
<1>3. SumOver(f, T) = IF T = {} THEN 0 ELSE f[Pick(T)] + SumOver(f, T \ {Pick(T)})
  BY <1>2, SumPicked
<1>4. T # {}
  BY <1>3
<1>5. Pick(T) \in T /\ Pick(T) \in S
  BY <1>4, PickInSet
<1>6. Typed(T \ {Pick(T)})
  BY <1>1, <1>5
<1>7. Typed(T)
  BY <1>3, <1>4, <1>5, <1>6
<1> QED
  BY <1>7

\* ... and any other.
LEMMA SumTakeOut ==
    ASSUME NEW f, NEW S, IsFiniteSet(S), \A x \in S : f[x] \in Int, NEW x \in S
    PROVE  SumOver(f, S) = f[x] + SumOver(f, S \ {x})
<1> DEFINE W == {T \in SUBSET S : \E y \in T : SumOver(f, T) # f[y] + SumOver(f, T \ {y})}
<1> SUFFICES ASSUME W # {}
             PROVE  FALSE
  OBVIOUS
<1>1. PICK T \in W : \A U \in W : U \subseteq T => U = T
  <2>1. W \in SUBSET SUBSET S
    OBVIOUS
  <2> HIDE DEF W
  <2> QED
    BY <2>1, MinimalSubset
<1>2. PICK y \in T : SumOver(f, T) # f[y] + SumOver(f, T \ {y})
  OBVIOUS
<1> DEFINE p == Pick(T)
<1>3. p \in T /\ T # {}
  BY PickInSet
<1>4. \A U \in SUBSET S : IsFiniteSet(U) /\ SumOver(f, U) \in Int
  BY FS_Subset, SumType
<1>5. SumOver(f, T) = f[p] + SumOver(f, T \ {p})
  BY <1>3, <1>4, SumPicked
<1>6. y # p
  BY <1>2, <1>5
<1>7. T \ {p} \notin W /\ T \ {y} \notin W
  BY <1>1, <1>3
<1>8. /\ SumOver(f, T \ {p}) = f[y] + SumOver(f, (T \ {p}) \ {y})
      /\ SumOver(f, T \ {y}) = f[p] + SumOver(f, (T \ {y}) \ {p})
  BY <1>3, <1>6, <1>7
<1>9. (T \ {p}) \ {y} = (T \ {y}) \ {p}
  OBVIOUS
<1>10. /\ f[p] \in Int /\ f[y] \in Int /\ SumOver(f, (T \ {p}) \ {y}) \in Int
       /\ SumOver(f, T \ {y}) \in Int /\ SumOver(f, T \ {p}) \in Int
  BY <1>3, <1>4
<1>11. ASSUME NEW a \in Int, NEW b \in Int, NEW c \in Int
       PROVE  a + (b + c) = b + (a + c)
  OBVIOUS
<1>12. f[p] + (f[y] + SumOver(f, (T \ {p}) \ {y})) = f[y] + (f[p] + SumOver(f, (T \ {p}) \ {y}))
  BY <1>10, <1>11
<1> HIDE DEF W, p
<1> QED
  BY <1>2, <1>5, <1>8, <1>9, <1>12, Zenon

\* An element more.
LEMMA SumPutIn ==
    ASSUME NEW f, NEW S, IsFiniteSet(S), NEW x, x \notin S,
           \A y \in S \cup {x} : f[y] \in Int
    PROVE  SumOver(f, S \cup {x}) = f[x] + SumOver(f, S)
<1>1. IsFiniteSet(S \cup {x}) /\ (S \cup {x}) \ {x} = S
  BY FS_AddElement
<1> QED
  BY <1>1, SumTakeOut

LEMMA SumEmpty == ASSUME NEW f PROVE SumOver(f, {}) = 0
BY FS_EmptySet, SumPicked

\* A sum depends on the values over its set alone, and grows with them.
LEMMA SumMonotone ==
    ASSUME NEW f, NEW g, NEW S, IsFiniteSet(S),
           \A x \in S : f[x] \in Int /\ g[x] \in Int /\ f[x] <= g[x]
    PROVE  SumOver(f, S) <= SumOver(g, S)
<1> DEFINE W == {T \in SUBSET S : ~(SumOver(f, T) <= SumOver(g, T))}
<1> SUFFICES ASSUME W # {}
             PROVE  FALSE
  OBVIOUS
<1>1. PICK T \in W : \A U \in W : U \subseteq T => U = T
  <2>1. W \in SUBSET SUBSET S
    OBVIOUS
  <2> HIDE DEF W
  <2> QED
    BY <2>1, MinimalSubset
<1>2. \A U \in SUBSET S : IsFiniteSet(U) /\ SumOver(f, U) \in Int /\ SumOver(g, U) \in Int
  BY FS_Subset, SumType
<1>3. T # {}
  BY SumEmpty
<1>4. Pick(T) \in T /\ T \ {Pick(T)} \notin W
  BY <1>1, <1>3, PickInSet
<1>5. SumOver(f, T \ {Pick(T)}) <= SumOver(g, T \ {Pick(T)})
  BY <1>4
<1>6. /\ SumOver(f, T) = f[Pick(T)] + SumOver(f, T \ {Pick(T)})
      /\ SumOver(g, T) = g[Pick(T)] + SumOver(g, T \ {Pick(T)})
  BY <1>2, <1>3, SumPicked
<1>7. ~(SumOver(f, T) <= SumOver(g, T))
  OBVIOUS
<1>8. /\ f[Pick(T)] \in Int /\ g[Pick(T)] \in Int /\ f[Pick(T)] <= g[Pick(T)]
      /\ SumOver(f, T \ {Pick(T)}) \in Int /\ SumOver(g, T \ {Pick(T)}) \in Int
  BY <1>2, <1>4
<1> HIDE DEF W
<1> QED
  BY <1>5, <1>6, <1>7, <1>8

LEMMA SumSame ==
    ASSUME NEW f, NEW g, NEW S, IsFiniteSet(S),
           \A x \in S : f[x] \in Int /\ g[x] = f[x]
    PROVE  SumOver(g, S) = SumOver(f, S)
<1>1. SumOver(f, S) <= SumOver(g, S) /\ SumOver(g, S) <= SumOver(f, S)
  BY SumMonotone
<1>2. SumOver(f, S) \in Int /\ SumOver(g, S) \in Int
  BY SumType
<1> QED
  BY <1>1, <1>2

\* One value changes.
LEMMA SumChange ==
    ASSUME NEW f, NEW g, NEW S, IsFiniteSet(S), NEW x \in S,
           \A y \in S : f[y] \in Int /\ g[y] \in Int,
           \A y \in S : y # x => g[y] = f[y]
    PROVE  SumOver(g, S) = SumOver(f, S) - f[x] + g[x]
<1> DEFINE T == S \ {x}
<1>1. IsFiniteSet(T)
  BY FS_RemoveElement
<1>2. SumOver(g, T) = SumOver(f, T)
  BY <1>1, SumSame
<1>3. SumOver(f, S) = f[x] + SumOver(f, T) /\ SumOver(g, S) = g[x] + SumOver(g, T)
  BY SumTakeOut
<1>4. SumOver(f, T) \in Int
  BY <1>1, SumType
<1> HIDE DEF T
<1> QED
  BY <1>2, <1>3, <1>4

\* Nothing but zeros, or a value that some element contributes.
LEMMA SumZero ==
    ASSUME NEW f, NEW S, IsFiniteSet(S), \A x \in S : f[x] = 0
    PROVE  SumOver(f, S) = 0
<1> DEFINE W == {T \in SUBSET S : SumOver(f, T) # 0}
<1> SUFFICES ASSUME W # {}
             PROVE  FALSE
  OBVIOUS
<1>1. PICK T \in W : \A U \in W : U \subseteq T => U = T
  <2>1. W \in SUBSET SUBSET S
    OBVIOUS
  <2> HIDE DEF W
  <2> QED
    BY <2>1, MinimalSubset
<1>2. T # {}
  BY SumEmpty
<1>3. Pick(T) \in T /\ T \ {Pick(T)} \notin W
  BY <1>1, <1>2, PickInSet
<1>4. SumOver(f, T) = f[Pick(T)] + SumOver(f, T \ {Pick(T)})
  BY <1>2, FS_Subset, SumPicked
<1> QED
  BY <1>3, <1>4

\* Zeros may be left out of a sum, and without negative values a part of it is
\* no larger than the whole.
LEMMA SumSupport ==
    ASSUME NEW f, NEW S, IsFiniteSet(S), NEW T, T \subseteq S,
           \A x \in S : f[x] \in Int, \A x \in S \ T : f[x] = 0
    PROVE  SumOver(f, S) = SumOver(f, T)
<1> DEFINE W == {U \in SUBSET S : SumOver(f, U) # SumOver(f, U \cap T)}
<1>0. S \in SUBSET S /\ S \cap T = T
  OBVIOUS
<1> SUFFICES ASSUME W # {}
             PROVE  FALSE
  BY <1>0
<1>1. PICK U \in W : \A V \in W : V \subseteq U => V = U
  <2>1. W \in SUBSET SUBSET S
    OBVIOUS
  <2> HIDE DEF W
  <2> QED
    BY <2>1, MinimalSubset
<1>2. U # {}
  BY SumEmpty
<1> DEFINE p == Pick(U)
<1>3. p \in U /\ U \ {p} \notin W
  BY <1>1, <1>2, PickInSet
<1>4. U \in SUBSET S /\ SumOver(f, U) # SumOver(f, U \cap T)
  OBVIOUS
<1>5. SumOver(f, U \ {p}) = SumOver(f, (U \ {p}) \cap T)
  BY <1>3
<1>6. SumOver(f, U) = f[p] + SumOver(f, U \ {p})
  BY <1>2, FS_Subset, SumPicked
<1>7. SumOver(f, U \ {p}) \in Int /\ SumOver(f, (U \ {p}) \cap T) \in Int
  <2>1. IsFiniteSet(U \ {p}) /\ \A x \in U \ {p} : f[x] \in Int
    BY <1>4, FS_Subset
  <2>2. SumOver(f, U \ {p}) \in Int
    BY <2>1, SumType
  <2> QED
    BY <1>5, <2>2
<1> HIDE DEF W, p
<1>8. CASE p \in T
  <2>1. (U \cap T) \ {p} = (U \ {p}) \cap T /\ p \in U \cap T
    BY <1>3, <1>8
  <2>2. IsFiniteSet(U \cap T) /\ \A x \in U \cap T : f[x] \in Int
    BY <1>4, FS_Subset
  <2>3. SumOver(f, U \cap T) = f[p] + SumOver(f, (U \cap T) \ {p})
    BY <2>1, <2>2, SumTakeOut
  <2> QED
    BY <1>4, <1>5, <1>6, <2>1, <2>3
<1>9. CASE p \notin T
  <2>1. U \cap T = (U \ {p}) \cap T /\ f[p] = 0
    BY <1>3, <1>4, <1>9
  <2>2. SumOver(f, U \cap T) = SumOver(f, (U \ {p}) \cap T)
    BY <2>1
  <2>3. SumOver(f, U) = SumOver(f, U \ {p})
    BY <1>6, <1>7, <2>1
  <2> QED
    BY <1>4, <1>5, <2>2, <2>3
<1> QED
  BY <1>8, <1>9

LEMMA SumOfPart ==
    ASSUME NEW f, NEW S, IsFiniteSet(S), NEW T, T \subseteq S,
           \A x \in S : f[x] \in Nat
    PROVE  /\ SumOver(f, T) \in Nat /\ SumOver(f, S) \in Nat
           /\ SumOver(f, T) <= SumOver(f, S)
<1> DEFINE g == [x \in S |-> IF x \in T THEN f[x] ELSE 0]
<1>1. /\ \A x \in S : g[x] \in Int /\ f[x] \in Int /\ g[x] <= f[x]
      /\ \A x \in S \ T : g[x] = 0
      /\ \A x \in T : f[x] \in Int /\ g[x] = f[x]
  OBVIOUS
<1> HIDE DEF g
<1>2. IsFiniteSet(T)
  BY FS_Subset
<1>3. SumOver(g, S) = SumOver(g, T)
  BY <1>1, SumSupport
<1>4. SumOver(g, T) = SumOver(f, T)
  BY <1>1, <1>2, SumSame
<1>5. SumOver(g, S) <= SumOver(f, S)
  BY <1>1, SumMonotone
<1>6. SumOver(f, T) \in Nat /\ SumOver(f, S) \in Nat
  BY <1>1, <1>2, SumType
<1> QED
  BY <1>3, <1>4, <1>5, <1>6

\* Values up to b, one for each element.
LEMMA SumUpTo ==
    ASSUME NEW f, NEW S, IsFiniteSet(S), NEW b \in Nat,
           \A x \in S : f[x] \in Nat /\ f[x] <= b
    PROVE  SumOver(f, S) <= Cardinality(S) * b
<1> DEFINE W == {T \in SUBSET S : ~(SumOver(f, T) <= Cardinality(T) * b)}
<1> SUFFICES ASSUME W # {}
             PROVE  FALSE
  OBVIOUS
<1>1. PICK T \in W : \A U \in W : U \subseteq T => U = T
  <2>1. W \in SUBSET SUBSET S
    OBVIOUS
  <2> HIDE DEF W
  <2> QED
    BY <2>1, MinimalSubset
<1>2. T \in SUBSET S /\ IsFiniteSet(T) /\ ~(SumOver(f, T) <= Cardinality(T) * b)
  BY FS_Subset
<1>3. T # {}
  <2>1. Cardinality({}) = 0 /\ 0 * b = 0
    BY FS_EmptySet
  <2>2. SumOver(f, {}) <= Cardinality({}) * b
    BY <2>1, SumEmpty
  <2> QED
    BY <1>2, <2>2
<1>4. PICK x \in T : TRUE
  BY <1>3
<1>5. PICK U : U = T \ {x}
  OBVIOUS
<1>6. IsFiniteSet(U) /\ Cardinality(U) \in Nat /\ Cardinality(T) = Cardinality(U) + 1
  <2>1. IsFiniteSet(U) /\ Cardinality(U) = Cardinality(T) - 1
    BY <1>2, <1>4, <1>5, FS_RemoveElement
  <2>2. Cardinality(U) \in Nat /\ Cardinality(T) \in Nat
    BY <1>2, <2>1, FS_CardinalityType
  <2> QED
    BY <2>1, <2>2
<1>7. SumOver(f, U) <= Cardinality(U) * b
  BY <1>1, <1>2, <1>4, <1>5
<1>8. SumOver(f, T) = f[x] + SumOver(f, U)
  BY <1>2, <1>4, <1>5, SumTakeOut
<1>9. SumOver(f, U) \in Int
  BY <1>2, <1>5, <1>6, SumType
<1>10. PICK k \in Nat, v \in Int, w \in Nat :
         k = Cardinality(U) /\ v = SumOver(f, U) /\ w = f[x]
  BY <1>2, <1>4, <1>6, <1>9
<1>11. v <= k * b /\ w <= b
  BY <1>2, <1>4, <1>7, <1>10
<1>12. w + v <= (k + 1) * b
  BY <1>10, <1>11
<1> QED
  BY <1>2, <1>6, <1>8, <1>10, <1>12

\* V is the union of sets of the sizes g with nothing in common.
Parted(F, g, S, V) ==
    /\ IsFiniteSet(S)
    /\ \A x \in S : IsFiniteSet(F[x]) /\ g[x] = Cardinality(F[x])
    /\ \A x, y \in S : x # y => F[x] \cap F[y] = {}
    /\ V = UNION {F[x] : x \in S}

\* The elements they have together.
LEMMA SumOfSizes ==
    ASSUME NEW F, NEW g, NEW S, NEW V, Parted(F, g, S, V)
    PROVE  IsFiniteSet(V) /\ Cardinality(V) = SumOver(g, S)
<1>0. /\ IsFiniteSet(S)
      /\ \A x \in S : IsFiniteSet(F[x]) /\ g[x] = Cardinality(F[x])
      /\ \A x, y \in S : x # y => F[x] \cap F[y] = {}
      /\ V = UNION {F[x] : x \in S}
  BY DEF Parted
<1> DEFINE All(T) == UNION {F[x] : x \in T}
           W == {T \in SUBSET S : ~(/\ IsFiniteSet(All(T))
                                    /\ Cardinality(All(T)) = SumOver(g, T))}
<1> SUFFICES ASSUME W # {}
             PROVE  FALSE
  BY <1>0
<1>1. PICK T \in W : \A U \in W : U \subseteq T => U = T
  <2>1. W \in SUBSET SUBSET S
    OBVIOUS
  <2> HIDE DEF W
  <2> QED
    BY <1>0, <2>1, MinimalSubset
<1>2. T \in SUBSET S /\ IsFiniteSet(T)
  BY <1>0, FS_Subset
<1>3. ~(IsFiniteSet(All(T)) /\ Cardinality(All(T)) = SumOver(g, T))
  OBVIOUS
<1>4. CASE T = {}
  <2>1. All(T) = {}
    BY <1>4
  <2> QED
    BY <1>3, <1>4, <2>1, FS_EmptySet, SumEmpty
<1>5. CASE T # {}
  <2>1. PICK x \in T : TRUE
    BY <1>5
  <2>2. PICK U : U = T \ {x}
    OBVIOUS
  <2>3. U \in SUBSET S /\ U \subseteq T /\ U # T /\ IsFiniteSet(U)
    BY <1>2, <2>1, <2>2, FS_Subset
  <2>4. IsFiniteSet(All(U)) /\ Cardinality(All(U)) = SumOver(g, U)
    BY <1>1, <2>3
  <2>5. All(T) = All(U) \cup F[x]
    BY <2>1, <2>2
  <2>6. All(U) \cap F[x] = {}
    BY <1>0, <1>2, <2>1, <2>2
  <2>7. IsFiniteSet(F[x]) /\ g[x] = Cardinality(F[x])
    BY <1>0, <1>2, <2>1
  <2>8. \A y \in T : g[y] \in Int
    BY <1>0, <1>2, FS_CardinalityType
  <2>9. SumOver(g, T) = g[x] + SumOver(g, U)
    BY <1>2, <2>1, <2>2, <2>8, SumTakeOut
  <2> HIDE DEF All
  <2>10. /\ IsFiniteSet(All(T))
         /\ Cardinality(All(T)) = Cardinality(All(U)) + Cardinality(F[x]) - 0
    BY <2>4, <2>5, <2>6, <2>7, FS_Union, FS_EmptySet
  <2>11. Cardinality(All(U)) \in Int /\ Cardinality(F[x]) \in Int
    BY <2>4, <2>7, FS_CardinalityType
  <2> QED
    BY <1>3, <2>4, <2>7, <2>9, <2>10, <2>11
<1> QED
  BY <1>4, <1>5

\* The elements of a sequence without repetitions.
Distinct(s, n, T) ==
    /\ n \in Nat
    /\ \A i, j \in 1..n : s[i] = s[j] => i = j
    /\ T = {s[i] : i \in 1..n}

LEMMA SizeOfDistinct ==
    ASSUME NEW s, NEW n, NEW T, Distinct(s, n, T)
    PROVE  IsFiniteSet(T) /\ Cardinality(T) = n
<1> DEFINE f == [i \in 1..n |-> s[i]]
<1>1. IsFiniteSet(1..n) /\ Cardinality(1..n) = n
  BY FS_Interval DEF Distinct
<1>2. f \in Bijection(1..n, T)
  BY DEF Distinct, Bijection, Injection, Surjection, IsInjective
<1>3. ExistsBijection(1..n, T)
  BY <1>2, Zenon DEF ExistsBijection
<1> QED
  BY <1>1, <1>3, FS_Bijection

-----------------------------------------------------------------------------
(* Sums along a sequence.                                                  *)

\* f is what is added up along a sequence, g along the same with one more.
LEMMA SumAppend ==
    ASSUME NEW n \in Nat, NEW f \in [1..n -> Int], NEW g \in [1..(n + 1) -> Int],
           \A i \in 1..n : g[i] = f[i]
    PROVE  /\ SumFunction(f) \in Int
           /\ SumFunction(g) = SumFunction(f) + g[n + 1]
<1>1. DOMAIN f = 1..n /\ DOMAIN g = 1..(n + 1) /\ IsFiniteSet(1..n)
  BY FS_Interval
<1>2. SumFunction(f) = SumOver(f, 1..n) /\ SumFunction(g) = SumOver(g, 1..(n + 1))
  BY <1>1, Zenon DEF SumFunction, SumOver
<1>3. 1..(n + 1) = 1..n \cup {n + 1} /\ n + 1 \notin 1..n
  OBVIOUS
<1>4. SumOver(g, 1..n \cup {n + 1}) = g[n + 1] + SumOver(g, 1..n)
  <2>1. \A y \in 1..n \cup {n + 1} : g[y] \in Int
    BY <1>3
  <2> QED
    BY <1>1, <1>3, <2>1, SumPutIn
<1>5. SumOver(g, 1..n) = SumOver(f, 1..n) /\ SumOver(f, 1..n) \in Int
  BY <1>1, SumSame, SumType
<1>6. g[n + 1] \in Int
  OBVIOUS
<1>7. SumFunction(g) = g[n + 1] + SumFunction(f)
  BY <1>2, <1>3, <1>4, <1>5, Zenon
<1>8. SumFunction(f) \in Int
  BY <1>2, <1>5, Zenon
<1> QED
  BY <1>6, <1>7, <1>8

LEMMA SumOfNone == ASSUME NEW f, DOMAIN f = {} PROVE SumFunction(f) = 0
BY SumEmpty DEF SumFunction, SumOver

\* The first value taken out.
LEMMA SumShift ==
    ASSUME NEW n \in Nat, NEW f \in [1..(n + 1) -> Int], NEW g \in [1..n -> Int],
           \A i \in 1..n : g[i] = f[i + 1]
    PROVE  SumFunction(f) = f[1] + SumFunction(g)
<1> DEFINE Bad(m) == \E a \in [1..(m + 1) -> Int], b \in [1..m -> Int] :
                        /\ \A i \in 1..m : b[i] = a[i + 1]
                        /\ SumFunction(a) # a[1] + SumFunction(b)
           T == {m \in Nat : Bad(m)}
<1> SUFFICES ASSUME T # {}
             PROVE  FALSE
  OBVIOUS
<1>1. PICK m \in T : \A k \in T : m <= k
  <2>1. T \subseteq Nat
    OBVIOUS
  <2> HIDE DEF T
  <2> QED
    BY <2>1, LeastElement
<1>2. PICK a \in [1..(m + 1) -> Int], b \in [1..m -> Int] :
        /\ \A i \in 1..m : b[i] = a[i + 1]
        /\ SumFunction(a) # a[1] + SumFunction(b)
  OBVIOUS
<1>3. m \in Nat
  OBVIOUS
<1> HIDE DEF T
<1>4. CASE m = 0
  <2> DEFINE z == [i \in 1..0 |-> 0]
  <2>1. z \in [1..0 -> Int] /\ b \in [1..0 -> Int] /\ a \in [1..(0 + 1) -> Int]
        /\ DOMAIN z = {} /\ DOMAIN b = {}
    BY <1>4
  <2> HIDE DEF z
  <2>2. SumFunction(z) = 0 /\ SumFunction(b) = 0
    BY <2>1, SumOfNone
  <2>3. SumFunction(a) = SumFunction(z) + a[0 + 1]
    <3>1. \A i \in 1..0 : a[i] = z[i]
      OBVIOUS
    <3> QED
      BY <2>1, <3>1, SumAppend
  <2>4. a[1] \in Int
    BY <1>4
  <2> QED
    BY <1>2, <2>2, <2>3, <2>4
<1>5. CASE m # 0
  <2>1. PICK k \in Nat : m = k + 1
    BY <1>3, <1>5
  <2> DEFINE c == [i \in 1..(k + 1) |-> a[i]]
             d == [i \in 1..k |-> b[i]]
  <2>2. /\ c \in [1..(k + 1) -> Int] /\ d \in [1..k -> Int]
        /\ \A i \in 1..(k + 1) : a[i] = c[i]
        /\ \A i \in 1..k : b[i] = d[i] /\ d[i] = c[i + 1]
        /\ a \in [1..(k + 1 + 1) -> Int] /\ b \in [1..(k + 1) -> Int]
        /\ b[k + 1] = a[k + 1 + 1] /\ b[k + 1] \in Int /\ c[1] = a[1] /\ a[1] \in Int
    BY <1>2, <2>1
  <2> HIDE DEF c, d
  <2>3. /\ SumFunction(c) \in Int /\ SumFunction(d) \in Int
        /\ SumFunction(a) = SumFunction(c) + a[k + 1 + 1]
        /\ SumFunction(b) = SumFunction(d) + b[k + 1]
    <3>1. PICK j \in Nat : j = k + 1
      BY <2>1
    <3>2. c \in [1..j -> Int] /\ a \in [1..(j + 1) -> Int] /\ \A i \in 1..j : a[i] = c[i]
      BY <2>2, <3>1
    <3>3. SumFunction(c) \in Int /\ SumFunction(a) = SumFunction(c) + a[j + 1]
      BY <3>2, SumAppend
    <3>4. SumFunction(d) \in Int /\ SumFunction(b) = SumFunction(d) + b[k + 1]
      BY <2>1, <2>2, SumAppend
    <3> QED
      BY <3>1, <3>3, <3>4
  <2>4. SumFunction(c) = c[1] + SumFunction(d)
    <3>1. k \notin T
      BY <1>1, <2>1
    <3> QED
      BY <2>2, <3>1 DEF T
  <2> QED
    BY <1>2, <2>2, <2>3, <2>4
<1> QED
  BY <1>4, <1>5

-----------------------------------------------------------------------------
(* Sequences with an element more.                                         *)

\* InsertAt of the community modules: e put at place p, and the elements from
\* p on moved by one.
Inserted(s, p, e) == SubSeq(s, 1, p - 1) \o <<e>> \o SubSeq(s, p, Len(s))

LEMMA InsertedElements ==
    ASSUME NEW S, NEW s \in Seq(S), NEW p \in 1..(Len(s) + 1), NEW e \in S
    PROVE  /\ Inserted(s, p, e) \in Seq(S)
           /\ Len(Inserted(s, p, e)) = Len(s) + 1
           /\ \A i \in 1..(Len(s) + 1) :
                Inserted(s, p, e)[i] = IF i < p THEN s[i]
                                       ELSE IF i = p THEN e ELSE s[i - 1]
<1> DEFINE l == SubSeq(s, 1, p - 1)
           r == SubSeq(s, p, Len(s))
<1>1. Len(s) \in Nat /\ \A i \in 1..Len(s) : s[i] \in S
  BY LenProperties, ElementOfSeq
<1>2. /\ l \in Seq(S) /\ Len(l) = p - 1
      /\ \A i \in 1..(p - 1) : l[i] = s[i]
  <2>1. \A i \in 1..(p - 1) : s[i] \in S
    BY <1>1
  <2> QED
    BY <1>1, <2>1, SubSeqProperties, Z3
<1>3. /\ r \in Seq(S) /\ Len(r) = Len(s) - p + 1
      /\ \A i \in 1..(Len(s) - p + 1) : r[i] = s[p + i - 1]
  <2>1. \A i \in p..Len(s) : s[i] \in S
    BY <1>1
  <2> QED
    BY <1>1, <2>1, SubSeqProperties, Z3
<1>4. /\ <<e>> \in Seq(S) /\ Len(<<e>>) = 1 /\ <<e>>[1] = e
  OBVIOUS
<1> HIDE DEF l, r
<1>5. /\ l \o <<e>> \in Seq(S) /\ Len(l \o <<e>>) = p
      /\ \A i \in 1..p : (l \o <<e>>)[i] = IF i < p THEN s[i] ELSE e
  BY <1>1, <1>2, <1>4, ConcatProperties, Z3
<1> DEFINE m == l \o <<e>>
<1> HIDE DEF m
<1>6. /\ m \in Seq(S) /\ Len(m) = p
      /\ \A i \in 1..p : m[i] = IF i < p THEN s[i] ELSE e
  BY <1>5 DEF m
<1>7. /\ m \o r \in Seq(S)
      /\ Len(m \o r) = Len(s) + 1
      /\ \A i \in 1..(Len(s) + 1) : (m \o r)[i] = IF i <= p THEN m[i] ELSE r[i - p]
  <2>1. Len(m) + Len(r) = Len(s) + 1
    BY <1>1, <1>3, <1>6
  <2>2. /\ m \o r \in Seq(S)
        /\ Len(m \o r) = Len(m) + Len(r)
        /\ \A i \in 1..(Len(m) + Len(r)) :
              (m \o r)[i] = IF i <= Len(m) THEN m[i] ELSE r[i - Len(m)]
    BY <1>3, <1>6, ConcatProperties
  <2> QED
    BY <1>6, <2>1, <2>2
<1>8. ASSUME NEW i \in 1..(Len(s) + 1)
      PROVE  (m \o r)[i] = IF i < p THEN s[i] ELSE IF i = p THEN e ELSE s[i - 1]
  <2>1. CASE i <= p
    BY <1>1, <1>6, <1>7, <2>1
  <2>2. CASE i > p
    BY <1>1, <1>3, <1>7, <2>2
  <2>3. i <= p \/ i > p
    BY <1>1
  <2> QED
    BY <2>1, <2>2, <2>3, Zenon
<1>9. Inserted(s, p, e) = m \o r
  BY DEF Inserted, m, l, r
<1> QED
  BY <1>7, <1>8, <1>9

\* A sequence with one element more.
LEMMA LongerByOne ==
    ASSUME NEW k \in Nat, NEW S, NEW s \in [1..k -> S], NEW u \in [1..(k + 1) -> S],
           \A i \in 1..k : u[i] = s[i]
    PROVE  u = Append(s, u[k + 1])
<1>1. s \in Seq(S) /\ Len(s) = k /\ u[k + 1] \in S
  OBVIOUS
<1> DEFINE v == Append(s, u[k + 1])
<1>2. /\ v \in Seq(S) /\ Len(v) = k + 1 /\ v[k + 1] = u[k + 1]
      /\ \A i \in 1..k : v[i] = s[i]
  BY <1>1, AppendProperties
<1> HIDE DEF v
<1>3. v \in [1..(k + 1) -> S]
  BY <1>2, LenProperties
<1>4. \A i \in 1..(k + 1) : v[i] = u[i]
  BY <1>2
<1>5. v = u
  BY <1>3, <1>4
<1> QED
  BY <1>5 DEF v

\* Those of the first n that R puts before i.
Ahead(R, n, i) == {j \in 1..n : <<j, i>> \in R}

\* R keeps the first L as they stand and puts the last right before place p.
LastGoesTo(R, L, p) ==
    /\ \A i, j \in 1..L : <<j, i>> \in R <=> j < i
    /\ \A i \in 1..L : <<L + 1, i>> \in R <=> p <= i
    /\ \A i \in 1..L : <<i, L + 1>> \in R <=> i < p
    /\ <<L + 1, L + 1>> \notin R

\* Which one has k - 1 before it.
LEMMA RankOfLast ==
    ASSUME NEW L \in Nat, NEW p \in 1..(L + 1), NEW R, LastGoesTo(R, L, p),
           NEW k \in 1..(L + 1), NEW r \in 1..(L + 1),
           r = IF k < p THEN k ELSE IF k = p THEN L + 1 ELSE k - 1
    PROVE  \A i \in 1..(L + 1) : Cardinality(Ahead(R, L + 1, i)) = k - 1 <=> i = r
<1>0. /\ \A i, j \in 1..L : <<j, i>> \in R <=> j < i
      /\ \A i \in 1..L : <<L + 1, i>> \in R <=> p <= i
      /\ \A i \in 1..L : <<i, L + 1>> \in R <=> i < p
      /\ <<L + 1, L + 1>> \notin R
  BY DEF LastGoesTo
<1>1. ASSUME NEW m \in Nat
      PROVE  IsFiniteSet(1..m) /\ Cardinality(1..m) = m
  <2>1. 1 \in Int /\ m \in Int /\ (IF 1 > m THEN 0 ELSE m - 1 + 1) = m
    OBVIOUS
  <2> QED
    BY <2>1, FS_Interval
<1>2. \A j \in 1..(L + 1) : j \in 1..L \/ j = L + 1
  OBVIOUS
<1>3. ASSUME NEW i \in 1..(L + 1)
      PROVE  Cardinality(Ahead(R, L + 1, i)) = IF i = L + 1 THEN p - 1 ELSE IF i < p THEN i - 1 ELSE i
  <2>1. CASE i = L + 1
    <3>1. \A j \in 1..(L + 1) : <<j, i>> \in R <=> j \in 1..(p - 1)
      BY <1>0, <1>2, <2>1
    <3>2. \A j \in 1..(p - 1) : j \in 1..(L + 1)
      OBVIOUS
    <3>3. Ahead(R, L + 1, i) = 1..(p - 1) /\ p - 1 \in Nat
      BY <3>1, <3>2 DEF Ahead
    <3> QED
      BY <1>1, <2>1, <3>3
  <2>2. CASE i # L + 1 /\ i < p
    <3>1. i \in 1..L /\ ~(p <= i)
      BY <2>2
    <3>2. \A j \in 1..(L + 1) : <<j, i>> \in R <=> j \in 1..(i - 1)
      BY <1>0, <1>2, <3>1
    <3>3. \A j \in 1..(i - 1) : j \in 1..(L + 1)
      BY <3>1
    <3>4. Ahead(R, L + 1, i) = 1..(i - 1) /\ i - 1 \in Nat
      BY <3>1, <3>2, <3>3 DEF Ahead
    <3> QED
      BY <1>1, <2>2, <3>4
  <2>3. CASE i # L + 1 /\ ~(i < p)
    <3>1. i \in 1..L /\ p <= i
      BY <2>3
    <3>2. \A j \in 1..(i - 1) : j \in 1..L
      BY <3>1
    <3>3. \A j \in 1..(L + 1) : <<j, i>> \in R <=> j \in 1..(i - 1) \cup {L + 1}
      BY <1>0, <1>2, <3>1, <3>2, SMTT(30)
    <3>4. Ahead(R, L + 1, i) = 1..(i - 1) \cup {L + 1}
      BY <3>2, <3>3 DEF Ahead
    <3>5. /\ IsFiniteSet(1..(i - 1)) /\ Cardinality(1..(i - 1)) = i - 1
          /\ L + 1 \notin 1..(i - 1)
      <4>1. i - 1 \in Nat
        BY <3>1
      <4> QED
        BY <1>1, <3>1, <4>1
    <3>6. Cardinality(1..(i - 1) \cup {L + 1}) = (i - 1) + 1
      BY <3>5, FS_AddElement
    <3>7. (i - 1) + 1 = i
      BY <3>1
    <3> QED
      BY <2>3, <3>4, <3>6, <3>7, Zenon
  <2> QED
    BY <2>1, <2>2, <2>3
<1> QED
  BY <1>3
=============================================================================
