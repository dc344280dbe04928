----------------------------- MODULE FiniteSums -----------------------------
(***************************************************************************)
(* Sums over finite sets.  MapThenSumSet picks one element after another,  *)
(* by a recursive function; the lemmas say that this function exists, and  *)
(* that the sum changes with its set and with its terms as a sum does.     *)
(* Induction is by a least counterexample (WFMin of the library).          *)
(***************************************************************************)
EXTENDS Integers, FiniteSets, FiniteSetsExt, FiniteSetTheorems, WellFoundedInduction, TLAPS

\* The sum of the terms v[x], x in S.
Sum(v, S) == MapThenSumSet(LAMBDA x : v[x], S)

-----------------------------------------------------------------------------
(* Induction *)

\* Induction over the natural numbers, with a set for the property.
LEMMA NaturalSetInduction ==
    ASSUME NEW I, 0 \in I, \A n \in Nat : n \in I => n + 1 \in I
    PROVE  Nat \subseteq I
<1> DEFINE B == {n \in Nat : n \notin I}
<1>1. ASSUME B # {} PROVE FALSE
  <2>1. PICK n \in B : \A m \in B : ~(<<m, n>> \in OpToRel(<, Nat))
    BY <1>1, WFMin, NatLessThanWellFounded
  <2>2. n \in Nat /\ n \notin I /\ n # 0
    OBVIOUS
  <2>3. n - 1 \in Nat /\ <<n - 1, n>> \in OpToRel(<, Nat)
    BY <2>2 DEF OpToRel
  <2>4. n - 1 \in I
    BY <2>1, <2>3
  <2>5. (n - 1) + 1 \in I
    BY <2>3, <2>4
  <2>6. (n - 1) + 1 = n
    BY <2>2
  <2> QED BY <2>2, <2>5, <2>6
<1> QED BY <1>1

\* Induction over the subsets of a finite set, adding one element at a time.
LEMMA FiniteSetInduction ==
    ASSUME NEW S, IsFiniteSet(S), NEW I, {} \in I,
           \A T \in SUBSET S : \A x \in S \ T : T \in I => T \union {x} \in I
    PROVE  S \in I
<1> DEFINE J == {n \in Nat : \A T \in SUBSET S : Cardinality(T) = n => T \in I}
<1>1. 0 \in J
  BY FS_Subset, FS_EmptySet
<1>2. ASSUME NEW n \in Nat, n \in J PROVE n + 1 \in J
  <2> SUFFICES ASSUME NEW T \in SUBSET S, Cardinality(T) = n + 1 PROVE T \in I
    OBVIOUS
  <2>1. IsFiniteSet(T) /\ T # {}
    BY FS_Subset, FS_EmptySet
  <2>2. PICK x : x \in T
    BY <2>1
  <2>3. T \ {x} \in SUBSET S /\ x \in S \ (T \ {x}) /\ T = (T \ {x}) \union {x}
    BY <2>2
  <2>4. Cardinality(T \ {x}) = n
    <3>1. Cardinality(T \ {x}) = Cardinality(T) - 1
      BY <2>1, <2>2, FS_RemoveElement
    <3> QED BY <3>1
  <2>5. T \ {x} \in I
    BY <1>2, <2>3, <2>4
  <2> QED BY <2>3, <2>5
<1> HIDE DEF J
<1>3. Nat \subseteq J
  BY <1>1, <1>2, NaturalSetInduction
<1>4. Cardinality(S) \in Nat
  BY FS_CardinalityType
<1> QED BY <1>3, <1>4 DEF J

-----------------------------------------------------------------------------
(* The recursive function behind a sum *)

Pick(s) == CHOOSE x \in s : TRUE

\* g adds the terms of s one after another.
Adds(g, v, s) == g[s] = IF s = {} THEN 0 ELSE v[Pick(s)] + g[s \ {Pick(s)}]

Adder(g, v, S) == \A s \in SUBSET S : Adds(g, v, s)

WholeSums(g, S) == g \in [SUBSET S -> Int]

Terms(v, S) == \A x \in S : v[x] \in Int

\* There is such a function.
LEMMA AddingExists ==
    ASSUME NEW S, IsFiniteSet(S), NEW v, Terms(v, S)
    PROVE  \E g \in [SUBSET S -> Int] : Adder(g, v, S)
<1> DEFINE J == {n \in Nat : \E g \in [SUBSET S -> Int] :
                     \A s \in SUBSET S : Cardinality(s) <= n => Adds(g, v, s)}
<1>0. \A s \in SUBSET S : /\ IsFiniteSet(s) /\ Cardinality(s) \in Nat
                          /\ Cardinality(s) = 0 <=> s = {}
                          /\ s # {} => /\ Pick(s) \in s /\ v[Pick(s)] \in Int
                                       /\ s \ {Pick(s)} \in SUBSET S
                                       /\ Cardinality(s \ {Pick(s)}) = Cardinality(s) - 1
  <2> SUFFICES ASSUME NEW s \in SUBSET S
               PROVE  /\ IsFiniteSet(s) /\ Cardinality(s) \in Nat
                      /\ Cardinality(s) = 0 <=> s = {}
                      /\ s # {} => /\ Pick(s) \in s /\ v[Pick(s)] \in Int
                                   /\ s \ {Pick(s)} \in SUBSET S
                                   /\ Cardinality(s \ {Pick(s)}) = Cardinality(s) - 1
    OBVIOUS
  <2>1. IsFiniteSet(s) /\ Cardinality(s) \in Nat
    BY FS_Subset, FS_CardinalityType
  <2>2. Cardinality(s) = 0 <=> s = {}
    BY <2>1, FS_EmptySet
  <2>3. ASSUME s # {} PROVE Pick(s) \in s /\ v[Pick(s)] \in Int
    BY <2>3 DEF Pick, Terms
  <2>4. ASSUME s # {} PROVE Cardinality(s \ {Pick(s)}) = Cardinality(s) - 1
    BY <2>1, <2>3, <2>4, FS_RemoveElement
  <2> QED BY <2>1, <2>2, <2>3, <2>4
<1>1. 0 \in J
  <2> DEFINE g == [s \in SUBSET S |-> 0]
  <2>1. g \in [SUBSET S -> Int]
    OBVIOUS
  <2>2. ASSUME NEW s \in SUBSET S, Cardinality(s) <= 0 PROVE Adds(g, v, s)
    <3>1. Cardinality(s) \in Nat /\ (Cardinality(s) = 0 <=> s = {})
      BY <1>0
    <3>2. s = {}
      BY <2>2, <3>1
    <3> QED BY <3>2 DEF Adder, Adds
  <2> QED BY <2>1, <2>2
<1>2. ASSUME NEW n \in Nat, n \in J PROVE n + 1 \in J
  <2>1. PICK g \in [SUBSET S -> Int] :
            \A s \in SUBSET S : Cardinality(s) <= n => Adds(g, v, s)
    BY <1>2
  <2> DEFINE h == [s \in SUBSET S |-> IF s = {} \/ Cardinality(s) <= n THEN g[s]
                                      ELSE v[Pick(s)] + g[s \ {Pick(s)}]]
  <2>2. h \in [SUBSET S -> Int]
    <3> SUFFICES ASSUME NEW s \in SUBSET S
                 PROVE  (IF s = {} \/ Cardinality(s) <= n THEN g[s]
                         ELSE v[Pick(s)] + g[s \ {Pick(s)}]) \in Int
      OBVIOUS
    <3>1. CASE s = {} \/ Cardinality(s) <= n
      BY <3>1
    <3>2. CASE ~(s = {} \/ Cardinality(s) <= n)
      <4>1. v[Pick(s)] \in Int /\ g[s \ {Pick(s)}] \in Int
        BY <1>0, <2>1, <3>2
      <4> QED BY <3>2, <4>1
    <3> QED BY <3>1, <3>2
  <2>3. ASSUME NEW s \in SUBSET S, Cardinality(s) <= n + 1 PROVE Adds(h, v, s)
    <3>1. CASE s = {}
      <4>1. h[s] = g[s]
        BY <3>1
      <4>2. Cardinality(s) = 0
        BY <3>1, FS_EmptySet
      <4>3. Adds(g, v, s)
        BY <2>1, <4>2
      <4> QED BY <3>1, <4>1, <4>3 DEF Adder, Adds
    <3>2. CASE s # {}
      <4>1. h[s \ {Pick(s)}] = g[s \ {Pick(s)}]
        BY <1>0, <2>3, <3>2
      <4>2. h[s] = v[Pick(s)] + g[s \ {Pick(s)}]
        BY <1>0, <2>1, <3>2 DEF Adder, Adds
      <4> QED BY <3>2, <4>1, <4>2 DEF Adder, Adds
    <3> QED BY <3>1, <3>2
  <2> HIDE DEF h
  <2>4. \A s \in SUBSET S : Cardinality(s) <= n + 1 => Adds(h, v, s)
    BY <2>3
  <2> QED BY <2>2, <2>4
<1> HIDE DEF J
<1>3. Nat \subseteq J
  BY <1>1, <1>2, NaturalSetInduction
<1>4. Cardinality(S) \in J
  BY <1>3, FS_CardinalityType
<1>5. PICK g \in [SUBSET S -> Int] :
          \A s \in SUBSET S : Cardinality(s) <= Cardinality(S) => Adds(g, v, s)
  BY <1>4 DEF J
<1>6. Adder(g, v, S)
  BY <1>5, FS_Subset DEF Adder
<1> QED BY <1>6

\* Two such functions agree.
LEMMA AddingIsUnique ==
    ASSUME NEW S, IsFiniteSet(S), NEW v, NEW g, NEW h,
           Adder(g, v, S), Adder(h, v, S), NEW T \in SUBSET S
    PROVE  g[T] = h[T]
<1> DEFINE J == {n \in Nat : \A s \in SUBSET S : Cardinality(s) = n => g[s] = h[s]}
<1>1. 0 \in J
  <2> SUFFICES ASSUME NEW s \in SUBSET S, Cardinality(s) = 0 PROVE g[s] = h[s]
    OBVIOUS
  <2>1. s = {}
    BY FS_Subset, FS_EmptySet
  <2> QED BY <2>1 DEF Adder, Adds
<1>2. ASSUME NEW n \in Nat, n \in J PROVE n + 1 \in J
  <2> SUFFICES ASSUME NEW s \in SUBSET S, Cardinality(s) = n + 1 PROVE g[s] = h[s]
    OBVIOUS
  <2>1. IsFiniteSet(s) /\ s # {}
    BY FS_Subset, FS_EmptySet
  <2>2. Pick(s) \in s
    BY <2>1 DEF Pick
  <2>3. Cardinality(s \ {Pick(s)}) = Cardinality(s) - 1
    BY <2>1, <2>2, FS_RemoveElement
  <2>4. s \ {Pick(s)} \in SUBSET S /\ Cardinality(s \ {Pick(s)}) = n
    BY <2>3
  <2>5. g[s \ {Pick(s)}] = h[s \ {Pick(s)}]
    BY <1>2, <2>4
  <2> QED BY <2>1, <2>5 DEF Adder, Adds
<1> HIDE DEF J
<1>3. Nat \subseteq J
  BY <1>1, <1>2, NaturalSetInduction
<1>4. Cardinality(T) \in Nat
  BY FS_Subset, FS_CardinalityType
<1> QED BY <1>3, <1>4 DEF J

\* The order in which the elements are picked does not matter.
LEMMA AddingAnyElement ==
    ASSUME NEW S, IsFiniteSet(S), NEW v, Terms(v, S), NEW g, WholeSums(g, S),
           Adder(g, v, S), NEW T \in SUBSET S, NEW x \in T
    PROVE  g[T] = v[x] + g[T \ {x}]
<1> DEFINE J == {n \in Nat : \A s \in SUBSET S : Cardinality(s) = n =>
                                 \A y \in s : g[s] = v[y] + g[s \ {y}]}
<1>1. 0 \in J
  <2> SUFFICES ASSUME NEW s \in SUBSET S, Cardinality(s) = 0 PROVE s = {}
    OBVIOUS
  <2> QED BY FS_Subset, FS_EmptySet
<1>2. ASSUME NEW n \in Nat, n \in J PROVE n + 1 \in J
  <2> SUFFICES ASSUME NEW s \in SUBSET S, Cardinality(s) = n + 1, NEW y \in s
               PROVE  g[s] = v[y] + g[s \ {y}]
    OBVIOUS
  <2> DEFINE p == Pick(s)
  <2>1. IsFiniteSet(s) /\ s # {} /\ p \in s
    BY FS_Subset DEF Pick
  <2>2. g[s] = v[p] + g[s \ {p}]
    BY <2>1 DEF Adder, Adds
  <2> HIDE DEF p
  <2>3. CASE p = y
    BY <2>2, <2>3
  <2>4. CASE p # y
    <3>1. Cardinality(s \ {p}) = Cardinality(s) - 1 /\ Cardinality(s \ {y}) = Cardinality(s) - 1
      BY <2>1, FS_RemoveElement
    <3>2. Cardinality(s \ {p}) = n /\ Cardinality(s \ {y}) = n
      BY <3>1
    <3>3. y \in s \ {p} /\ p \in s \ {y} /\ (s \ {p}) \ {y} = (s \ {y}) \ {p}
      BY <2>1, <2>4
    <3>4. g[s \ {p}] = v[y] + g[(s \ {p}) \ {y}]
      BY <1>2, <3>2, <3>3
    <3>5. g[s \ {y}] = v[p] + g[(s \ {y}) \ {p}]
      BY <1>2, <3>2, <3>3
    <3>6. v[p] \in Int /\ v[y] \in Int /\ g[(s \ {y}) \ {p}] \in Int
      BY <2>1 DEF Terms, WholeSums
    <3>7. g[s] = v[p] + (v[y] + g[(s \ {y}) \ {p}])
      BY <2>2, <3>3, <3>4
    <3>8. v[y] + g[s \ {y}] = v[y] + (v[p] + g[(s \ {y}) \ {p}])
      BY <3>5
    <3> QED BY <3>6, <3>7, <3>8
  <2> QED BY <2>3, <2>4
<1> HIDE DEF J
<1>3. Nat \subseteq J
  BY <1>1, <1>2, NaturalSetInduction
<1>4. Cardinality(T) \in Nat
  BY FS_Subset, FS_CardinalityType
<1> QED BY <1>3, <1>4 DEF J

-----------------------------------------------------------------------------
(* Sums *)

\* A sum is what such a function has for the whole set.
LEMMA AddedIsWholeSum ==
    ASSUME NEW S, IsFiniteSet(S), NEW v, NEW g \in [SUBSET S -> Int],
           Adder(g, v, S)
    PROVE  Sum(v, S) = g[S]
<1> DEFINE Step(h) == [s \in SUBSET S |-> IF s = {} THEN 0 ELSE v[Pick(s)] + h[s \ {Pick(s)}]]
           f == CHOOSE h : h = Step(h)
<1>1. g = Step(g)
  BY DEF Adder, Adds
<1>2. f = Step(f)
  BY <1>1
<1>3. Sum(v, S) = f[S]
  BY DEF Sum, MapThenSumSet, MapThenFoldSet, Pick
<1> HIDE DEF f
<1>4. Adder(f, v, S)
  BY <1>2 DEF Adder, Adds
<1> HIDE DEF Step
<1>5. g[S] = f[S]
  BY <1>4, AddingIsUnique
<1> QED BY <1>3, <1>5

\* There is such a function for every sum.
LEMMA SumIsAdded ==
    ASSUME NEW S, IsFiniteSet(S), NEW v, Terms(v, S)
    PROVE  \E g \in [SUBSET S -> Int] : /\ Adder(g, v, S)
                                        /\ Sum(v, S) = g[S]
<1>1. PICK g \in [SUBSET S -> Int] : Adder(g, v, S)
  BY AddingExists
<1>2. Sum(v, S) = g[S]
  BY <1>1, AddedIsWholeSum
<1> QED BY <1>1, <1>2

\* Any function that adds the terms has the sum of every subset.
LEMMA AddedIsSum ==
    ASSUME NEW S, IsFiniteSet(S), NEW v, Terms(v, S), NEW g, Adder(g, v, S), NEW T \in SUBSET S
    PROVE  g[T] = Sum(v, T)
<1>1. IsFiniteSet(T) /\ Terms(v, T) /\ Adder(g, v, T)
  BY FS_Subset DEF Terms, Adder
<1>2. PICK h \in [SUBSET T -> Int] : Adder(h, v, T) /\ Sum(v, T) = h[T]
  BY <1>1, SumIsAdded
<1>3. g[T] = h[T]
  BY <1>1, <1>2, AddingIsUnique
<1> QED BY <1>2, <1>3

\* Integer terms, an integer sum.
LEMMA SumType ==
    ASSUME NEW S, IsFiniteSet(S), NEW v, Terms(v, S)
    PROVE  Sum(v, S) \in Int
<1>1. PICK g \in [SUBSET S -> Int] : Sum(v, S) = g[S]
  BY SumIsAdded
<1> QED BY <1>1

\* No terms, no sum.
LEMMA SumOfNone == ASSUME NEW v PROVE Sum(v, {}) = 0
<1>1. IsFiniteSet({}) /\ Terms(v, {})
  BY FS_EmptySet DEF Terms
<1> QED BY <1>1, SumIsAdded DEF Adder, Adds

\* One more element adds its term.
LEMMA SumAddsElement ==
    ASSUME NEW S, IsFiniteSet(S), NEW x, x \notin S, NEW v, Terms(v, S \union {x})
    PROVE  Sum(v, S \union {x}) = v[x] + Sum(v, S)
<1> DEFINE U == S \union {x}
<1>1. IsFiniteSet(U) /\ x \in U /\ U \ {x} = S
  BY FS_AddElement
<1>2. Terms(v, U)
  OBVIOUS
<1> HIDE DEF U
<1>3. PICK g \in [SUBSET U -> Int] : Adder(g, v, U)
  BY <1>1, <1>2, AddingExists
<1>4. \A T \in SUBSET U : g[T] = Sum(v, T)
  <2> SUFFICES ASSUME NEW T \in SUBSET U PROVE g[T] = Sum(v, T)
    OBVIOUS
  <2> QED BY <1>1, <1>2, <1>3, AddedIsSum
<1>5. g[U] = v[x] + g[U \ {x}]
  <2>1. U \in SUBSET U /\ WholeSums(g, U) /\ Adder(g, v, U)
    BY <1>3 DEF WholeSums
  <2> QED BY <1>1, <1>2, <2>1, AddingAnyElement
<1>6. g[U] = Sum(v, U) /\ g[S] = Sum(v, S)
  BY <1>1, <1>4
<1> QED BY <1>1, <1>5, <1>6 DEF U

\* One element less takes it away.
LEMMA SumRemovesElement ==
    ASSUME NEW S, IsFiniteSet(S), NEW x \in S, NEW v, Terms(v, S)
    PROVE  Sum(v, S) = v[x] + Sum(v, S \ {x})
<1> DEFINE R == S \ {x}
<1>1. IsFiniteSet(R) /\ x \notin R /\ S = R \union {x}
  BY FS_RemoveElement
<1> HIDE DEF R
<1>2. Sum(v, R \union {x}) = v[x] + Sum(v, R)
  BY <1>1, SumAddsElement
<1> QED BY <1>1, <1>2 DEF R

\* Only the terms matter.
LEMMA SameTermsSameSum ==
    ASSUME NEW S, IsFiniteSet(S), NEW v, NEW w, Terms(v, S), \A x \in S : w[x] = v[x]
    PROVE  Sum(w, S) = Sum(v, S)
<1>1. Terms(w, S)
  BY DEF Terms
<1>2. PICK g \in [SUBSET S -> Int] : Adder(g, v, S) /\ Sum(v, S) = g[S]
  BY SumIsAdded
<1>3. ASSUME NEW s \in SUBSET S PROVE Adds(g, w, s)
  <2>1. s # {} => Pick(s) \in S
    BY DEF Pick
  <2>2. s # {} => w[Pick(s)] = v[Pick(s)]
    BY <2>1
  <2> QED BY <1>2, <2>2 DEF Adder, Adds
<1>4. Adder(g, w, S)
  BY <1>3 DEF Adder
<1>5. g[S] = Sum(w, S)
  BY <1>1, <1>4, AddedIsSum
<1> QED BY <1>2, <1>5

\* A change of one term.
LEMMA SumOfChange ==
    ASSUME NEW S, IsFiniteSet(S), NEW x \in S, NEW v, NEW w, Terms(v, S), Terms(w, S),
           \A y \in S \ {x} : w[y] = v[y]
    PROVE  Sum(w, S) = Sum(v, S) - v[x] + w[x]
<1>1. IsFiniteSet(S \ {x}) /\ Terms(v, S \ {x})
  BY FS_RemoveElement DEF Terms
<1>2. Sum(w, S \ {x}) = Sum(v, S \ {x}) /\ Sum(v, S \ {x}) \in Int
  BY <1>1, SameTermsSameSum, SumType
<1>3. Sum(v, S) = v[x] + Sum(v, S \ {x}) /\ Sum(w, S) = w[x] + Sum(w, S \ {x})
  BY SumRemovesElement
<1>4. v[x] \in Int /\ w[x] \in Int
  BY DEF Terms
<1> QED BY <1>2, <1>3, <1>4

\* Larger terms, larger sum.
LEMMA SumIsMonotone ==
    ASSUME NEW S, IsFiniteSet(S), NEW v, NEW w, Terms(v, S), Terms(w, S),
           \A x \in S : v[x] <= w[x]
    PROVE  Sum(v, S) <= Sum(w, S)
<1> DEFINE I == {T \in SUBSET S : Sum(v, T) <= Sum(w, T)}
<1>1. {} \in I
  BY SumOfNone
<1>2. ASSUME NEW T \in SUBSET S, NEW x \in S \ T, T \in I PROVE T \union {x} \in I
  <2>1. /\ IsFiniteSet(T) /\ Terms(v, T \union {x}) /\ Terms(w, T \union {x})
        /\ Terms(v, T) /\ Terms(w, T)
    BY FS_Subset DEF Terms
  <2>2. Sum(v, T \union {x}) = v[x] + Sum(v, T) /\ Sum(w, T \union {x}) = w[x] + Sum(w, T)
    BY <2>1, SumAddsElement
  <2>3. Sum(v, T) \in Int /\ Sum(w, T) \in Int /\ v[x] \in Int /\ w[x] \in Int
    BY <2>1, SumType DEF Terms
  <2>4. Sum(v, T) <= Sum(w, T) /\ v[x] <= w[x]
    BY <1>2
  <2> QED BY <2>2, <2>3, <2>4
<1> HIDE DEF I
<1>3. S \in I
  BY <1>1, <1>2, FiniteSetInduction
<1> QED BY <1>3 DEF I

\* Terms that add up, sums that add up.
LEMMA SumOfSums ==
    ASSUME NEW S, IsFiniteSet(S), NEW u, NEW v, NEW w, Terms(v, S), Terms(w, S),
           \A x \in S : u[x] = v[x] + w[x]
    PROVE  Sum(u, S) = Sum(v, S) + Sum(w, S)
<1> DEFINE I == {T \in SUBSET S : Sum(u, T) = Sum(v, T) + Sum(w, T)}
<1>1. {} \in I
  BY SumOfNone
<1>2. ASSUME NEW T \in SUBSET S, NEW x \in S \ T, T \in I PROVE T \union {x} \in I
  <2>1. /\ IsFiniteSet(T) /\ Terms(u, T \union {x})
        /\ Terms(v, T \union {x}) /\ Terms(w, T \union {x}) /\ Terms(v, T) /\ Terms(w, T)
    BY FS_Subset DEF Terms
  <2>2. /\ Sum(v, T \union {x}) = v[x] + Sum(v, T) /\ Sum(w, T \union {x}) = w[x] + Sum(w, T)
        /\ Sum(u, T \union {x}) = u[x] + Sum(u, T)
    BY <2>1, SumAddsElement
  <2>3. Sum(v, T) \in Int /\ Sum(w, T) \in Int /\ v[x] \in Int /\ w[x] \in Int
    BY <2>1, SumType DEF Terms
  <2>4. Sum(u, T) = Sum(v, T) + Sum(w, T) /\ u[x] = v[x] + w[x]
    BY <1>2
  <2> QED BY <2>2, <2>3, <2>4
<1> HIDE DEF I
<1>3. S \in I
  BY <1>1, <1>2, FiniteSetInduction
<1> QED BY <1>3 DEF I

\* Natural terms, a natural sum.
LEMMA SumIsNatural ==
    ASSUME NEW S, IsFiniteSet(S), NEW v, \A x \in S : v[x] \in Nat
    PROVE  Sum(v, S) \in Nat
<1> DEFINE I == {T \in SUBSET S : Sum(v, T) \in Nat}
<1>1. {} \in I
  BY SumOfNone
<1>2. ASSUME NEW T \in SUBSET S, NEW x \in S \ T, T \in I PROVE T \union {x} \in I
  <2>1. IsFiniteSet(T) /\ Terms(v, T \union {x})
    BY FS_Subset DEF Terms
  <2>2. Sum(v, T \union {x}) = v[x] + Sum(v, T)
    BY <2>1, SumAddsElement
  <2>3. Sum(v, T) \in Nat /\ v[x] \in Nat
    BY <1>2
  <2> QED BY <2>2, <2>3
<1> HIDE DEF I
<1>3. S \in I
  BY <1>1, <1>2, FiniteSetInduction
<1> QED BY <1>3 DEF I

\* A sum over a part is a sum over the whole, with 0 elsewhere.
LEMMA SumOfPart ==
    ASSUME NEW S, IsFiniteSet(S), NEW T \in SUBSET S, NEW v, NEW w, Terms(v, T),
           \A x \in S : w[x] = IF x \in T THEN v[x] ELSE 0
    PROVE  Sum(v, T) = Sum(w, S)
<1> DEFINE I == {U \in SUBSET S : Sum(v, T \intersect U) = Sum(w, U)}
<1>1. {} \in I
  <2>1. T \intersect {} = {}
    OBVIOUS
  <2> QED BY <2>1, SumOfNone
<1>2. ASSUME NEW U \in SUBSET S, NEW x \in S \ U, U \in I PROVE U \union {x} \in I
  <2> DEFINE V == T \intersect U
  <2>1. /\ IsFiniteSet(U) /\ IsFiniteSet(V)
        /\ Terms(w, U \union {x}) /\ Terms(w, U)
    BY FS_Subset DEF Terms
  <2>2. Sum(w, U \union {x}) = w[x] + Sum(w, U) /\ Sum(w, U) \in Int
    BY <2>1, SumAddsElement, SumType
  <2>3. Sum(v, V) = Sum(w, U)
    BY <1>2
  <2>4. CASE x \in T
    <3>1. T \intersect (U \union {x}) = V \union {x} /\ x \notin V /\ w[x] = v[x]
      BY <2>4
    <3>2. Terms(v, V \union {x})
      BY <2>4 DEF Terms
    <3> HIDE DEF V
    <3>3. Sum(v, V \union {x}) = v[x] + Sum(v, V)
      BY <2>1, <3>1, <3>2, SumAddsElement
    <3> QED BY <2>2, <2>3, <3>1, <3>3
  <2>5. CASE x \notin T
    <3>1. T \intersect (U \union {x}) = V /\ w[x] = 0
      BY <2>5
    <3> HIDE DEF V
    <3>2. Sum(w, U \union {x}) = Sum(w, U)
      BY <2>2, <3>1
    <3>3. Sum(v, T \intersect (U \union {x})) = Sum(v, V)
      BY <3>1
    <3> QED BY <2>3, <3>2, <3>3
  <2> QED BY <2>4, <2>5
<1> HIDE DEF I
<1>3. S \in I
  BY <1>1, <1>2, FiniteSetInduction
<1>4. T \intersect S = T
  OBVIOUS
<1> QED BY <1>3, <1>4 DEF I

-----------------------------------------------------------------------------
(* The largest element *)

\* A finite set of integers that is not empty has a largest element.
LEMMA FiniteSetHasMax ==
    ASSUME NEW S \in SUBSET Int, IsFiniteSet(S), S # {}
    PROVE  \E m \in S : \A x \in S : x <= m
<1> DEFINE I == {T \in SUBSET S : T # {} => \E m \in T : \A x \in T : x <= m}
<1>1. {} \in I
  OBVIOUS
<1>2. ASSUME NEW T \in SUBSET S, NEW y \in S \ T, T \in I PROVE T \union {y} \in I
  <2>1. CASE T = {}
    BY <2>1
  <2>2. CASE T # {}
    <3>1. PICK m \in T : \A x \in T : x <= m
      BY <1>2, <2>2
    <3>2. CASE y <= m
      BY <3>1, <3>2
    <3>3. CASE ~(y <= m)
      <4>1. y \in Int /\ m \in Int /\ \A x \in T : x \in Int
        OBVIOUS
      <4>2. \A x \in T \union {y} : x <= y
        BY <3>1, <3>3, <4>1
      <4> QED BY <4>2
    <3> QED BY <3>2, <3>3
  <2> QED BY <2>1, <2>2
<1> HIDE DEF I
<1>3. S \in I
  BY <1>1, <1>2, FiniteSetInduction
<1> QED BY <1>3 DEF I

=============================================================================
