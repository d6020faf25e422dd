----------------------------- MODULE SumLemmas -----------------------------
(***************************************************************************)
(* What MapThenSumSet computes.  It adds the elements one by one in an     *)
(* order it chooses; the lemmas say that the order does not matter, by     *)
(* equating the sum with the size of a set.                                *)
(*                                                                         *)
(* The induction on finite sets is in terms of a set of sets, so that it   *)
(* can be cited for any property that defines one.                         *)
(***************************************************************************)
EXTENDS Integers, FiniteSetsExt, FiniteSetTheorems, TLAPS

\* A collection that has a set whenever it has it without any of its elements has
\* every subset of a finite set.
LEMMA SubsetInduction ==
  ASSUME NEW S, IsFiniteSet(S), NEW G,
         \A T \in SUBSET S : (\A x \in T : T \ {x} \in G) => T \in G
  PROVE  \A T \in SUBSET S : T \in G
<1> SUFFICES ASSUME ~(SUBSET S \subseteq G) PROVE FALSE
  OBVIOUS
<1> DEFINE Bad == (SUBSET S) \ G
<1>1. Bad # {} /\ Bad \subseteq FiniteSubsetsOf(S)
  BY FS_FiniteSubsetsOfFinite
<1>2. IsWellFoundedOn(StrictSubsetOrdering(S), FiniteSubsetsOf(S))
  BY FS_StrictSubsetOrderingWellFounded
<1>3. PICK T \in Bad : \A U \in Bad : ~(<<U, T>> \in StrictSubsetOrdering(S))
  <2> HIDE DEF Bad
  <2> QED
    BY <1>1, <1>2, WFMin
<1>4. ASSUME NEW x \in T PROVE T \ {x} \in G
  <2>1. <<T \ {x}, T>> \in StrictSubsetOrdering(S)
    BY DEF StrictSubsetOrdering
  <2> QED
    BY <1>3, <2>1
<1> QED
  BY <1>4

-----------------------------------------------------------------------------
\* For each x a column of f[x] pairs.
Columns(f, S) == UNION {{x} \X (1 .. f[x]) : x \in S}

LEMMA OneColumn ==
  ASSUME NEW x, NEW n \in Nat
  PROVE  IsFiniteSet({x} \X (1 .. n)) /\ Cardinality({x} \X (1 .. n)) = n
<1>1. IsFiniteSet({x}) /\ Cardinality({x}) = 1
  BY FS_Singleton
<1>2. IsFiniteSet(1 .. n) /\ Cardinality(1 .. n) = n
  BY FS_Interval
<1> DEFINE A == {x}
           B == 1 .. n
<1> HIDE DEF A, B
<1>3. IsFiniteSet(A \X B) /\ Cardinality(A \X B) = Cardinality(A) * Cardinality(B)
  BY <1>1, <1>2, FS_Product DEF A, B
<1> QED
  BY <1>1, <1>2, <1>3 DEF A, B

\* A column more.
LEMMA ColumnsStep ==
  ASSUME NEW f, NEW S, NEW x \in S, f[x] \in Nat, IsFiniteSet(Columns(f, S \ {x}))
  PROVE  /\ IsFiniteSet(Columns(f, S))
         /\ Cardinality(Columns(f, S)) = f[x] + Cardinality(Columns(f, S \ {x}))
<1> DEFINE A == Columns(f, S \ {x})
           B == {x} \X (1 .. f[x])
<1>1. Columns(f, S) = A \cup B
  BY DEF Columns
<1>2. A \cap B = {}
  BY DEF Columns
<1>3. IsFiniteSet(B) /\ Cardinality(B) = f[x]
  BY OneColumn
<1>4. /\ IsFiniteSet(A \cup B)
      /\ Cardinality(A \cup B) = Cardinality(A) + Cardinality(B) - Cardinality(A \cap B)
  BY <1>3, FS_Union
<1>5. Cardinality(A) \in Nat /\ Cardinality(A \cap B) = 0
  BY <1>2, FS_CardinalityType, FS_EmptySet
<1> HIDE DEF A, B
<1> QED
  BY <1>1, <1>3, <1>4, <1>5 DEF A

LEMMA ColumnsFinite ==
  ASSUME NEW f, NEW S, IsFiniteSet(S), \A x \in S : f[x] \in Nat
  PROVE  \A T \in SUBSET S : IsFiniteSet(Columns(f, T))
<1> DEFINE G == {T \in SUBSET S : IsFiniteSet(Columns(f, T))}
<1>1. {} \in G
  BY FS_EmptySet DEF Columns
<1>2. ASSUME NEW T \in SUBSET S, \A x \in T : T \ {x} \in G PROVE T \in G
  <2>1. ASSUME NEW x \in T PROVE T \in G
    BY <1>2, ColumnsStep
  <2> QED
    BY <1>1, <2>1
<1> HIDE DEF G
<1>3. \A T \in SUBSET S : T \in G
  BY <1>2, SubsetInduction
<1> QED
  BY <1>3 DEF G

\* The sum of the f[x] over S.
Total(f, S) == MapThenSumSet(LAMBDA x : f[x], S)

\* The function that MapThenSumSet chooses.
Adds(f, S, g) ==
  g = [s \in SUBSET S |->
         IF s = {} THEN 0
         ELSE LET x == CHOOSE x \in s : TRUE IN f[x] + g[s \ {x}]]

LEMMA Adding ==
  ASSUME NEW f, NEW S
  PROVE  Total(f, S) = (CHOOSE g : Adds(f, S, g))[S]
  BY DEF Total, MapThenSumSet, MapThenFoldSet, Adds

\* The sum of the f[x] is the size of the columns.
LEMMA SumIsSize ==
  ASSUME NEW f, NEW S, IsFiniteSet(S), \A x \in S : f[x] \in Nat
  PROVE  Total(f, S) = Cardinality(Columns(f, S))
<1> DEFINE size == [s \in SUBSET S |-> Cardinality(Columns(f, s))]
<1>1. ASSUME NEW s \in SUBSET S, s # {}, NEW x, x = CHOOSE y \in s : TRUE
      PROVE  x \in s /\ size[s] = f[x] + size[s \ {x}]
  <2>1. x \in s
    BY <1>1
  <2>2. s \ {x} \in SUBSET S /\ f[x] \in Nat /\ IsFiniteSet(Columns(f, s \ {x}))
    BY <2>1, ColumnsFinite
  <2>3. Cardinality(Columns(f, s)) = f[x] + Cardinality(Columns(f, s \ {x}))
    BY <2>1, <2>2, ColumnsStep
  <2> QED
    BY <2>1, <2>2, <2>3
<1>2. size[{}] = 0
  BY FS_EmptySet DEF Columns
<1>3. Adds(f, S, size)
  BY <1>1, <1>2 DEF Adds
<1> DEFINE g == CHOOSE h : Adds(f, S, h)
<1>4. /\ g[{}] = 0
      /\ \A s \in SUBSET S : s # {} =>
           LET x == CHOOSE y \in s : TRUE IN g[s] = f[x] + g[s \ {x}]
  <2>1. Adds(f, S, g)
    BY <1>3
  <2> HIDE DEF g
  <2> QED
    BY <2>1 DEF Adds
<1> HIDE DEF g, size
<1> DEFINE G == {s \in SUBSET S : g[s] = size[s]}
<1>5. ASSUME NEW s \in SUBSET S, \A x \in s : s \ {x} \in G PROVE s \in G
  <2>1. CASE s = {}
    BY <1>2, <1>4, <2>1
  <2>2. CASE s # {}
    <3>1. PICK x : x = CHOOSE y \in s : TRUE
      OBVIOUS
    <3>2. x \in s /\ size[s] = f[x] + size[s \ {x}]
      BY <1>1, <2>2, <3>1
    <3>3. g[s] = f[x] + g[s \ {x}]
      BY <1>4, <2>2, <3>1
    <3>4. g[s \ {x}] = size[s \ {x}]
      BY <1>5, <3>2
    <3> QED
      BY <3>2, <3>3, <3>4
  <2> QED
    BY <2>1, <2>2
<1> HIDE DEF G
<1>6. \A s \in SUBSET S : s \in G
  BY <1>5, SubsetInduction
<1>7. g[S] = Cardinality(Columns(f, S))
  BY <1>6 DEF G, size
<1> QED
  BY <1>7, Adding DEF g

-----------------------------------------------------------------------------
\* A sum of natural numbers is one.
LEMMA SumNat ==
  ASSUME NEW f, NEW S, IsFiniteSet(S), \A x \in S : f[x] \in Nat
  PROVE  Total(f, S) \in Nat
<1>1. Cardinality(Columns(f, S)) \in Nat
  BY ColumnsFinite, FS_CardinalityType
<1>2. Total(f, S) = Cardinality(Columns(f, S))
  BY SumIsSize
<1> QED
  BY <1>1, <1>2

\* A sum depends on the numbers added only.
LEMMA SumSame ==
  ASSUME NEW f, NEW g, NEW S, IsFiniteSet(S), \A x \in S : f[x] \in Nat /\ g[x] = f[x]
  PROVE  Total(g, S) = Total(f, S)
<1>1. Columns(g, S) = Columns(f, S)
  BY DEF Columns
<1>2. Total(f, S) = Cardinality(Columns(f, S))
  BY SumIsSize
<1>3. Total(g, S) = Cardinality(Columns(g, S))
  BY SumIsSize
<1> QED
  BY <1>1, <1>2, <1>3

\* One element more.
LEMMA SumAdds ==
  ASSUME NEW f, NEW S, IsFiniteSet(S), NEW x \in S, \A y \in S : f[y] \in Nat
  PROVE  Total(f, S) = f[x] + Total(f, S \ {x})
<1>1. IsFiniteSet(S \ {x})
  BY FS_RemoveElement
<1>2. Total(f, S) = Cardinality(Columns(f, S))
  BY SumIsSize
<1>3. Total(f, S \ {x}) = Cardinality(Columns(f, S \ {x}))
  BY <1>1, SumIsSize
<1>4. Cardinality(Columns(f, S)) = f[x] + Cardinality(Columns(f, S \ {x}))
  BY ColumnsFinite, ColumnsStep
<1> QED
  BY <1>2, <1>3, <1>4
=============================================================================
