---------------------------------- MODULE Sums ----------------------------------
(***************************************************************************)
(* Facts about finite sums, for the proofs that count: of the events in a  *)
(* spool, of the requests in a table of series.  SumFunctionOnSet is a     *)
(* recursive function over the subsets of a set, as every fold of the      *)
(* community modules is: it exists, by induction on the size of the set;   *)
(* and a sum of naturals does not depend on the order of its elements.     *)
(***************************************************************************)
EXTENDS Naturals, FiniteSets, Functions, FiniteSetTheorems,
        WellFoundedInduction, TLAPS

\* Every element of S weighs a natural number.
Weighs(w, S) == \A x \in S : w[x] \in Nat

-----------------------------------------------------------------------------
(* Induction, without an operator as a parameter: by a least counterexample *)

\* A set of naturals that is not empty has a least element.
LEMMA LeastNatural ==
    ASSUME NEW T, T \subseteq Nat, T # {}
    PROVE  \E x \in T : \A y \in T : x <= y
<1> DEFINE R == {ss \in Nat \X Nat : ss[1] < ss[2]}
<1>1. IsWellFoundedOn(R, Nat)
  BY NatLessThanWellFounded DEF OpToRel
<1>2. PICK x \in T : \A y \in T : ~ (<<y, x>> \in R)
  <2> HIDE DEF R
  <2> QED BY <1>1, WFMin
<1>3. \A y \in T : ~ (y < x)
  BY <1>2
<1> QED BY <1>3

\* A set of naturals with zero and every successor has them all.
LEMMA NatSets ==
    ASSUME NEW P, 0 \in P, \A n \in Nat : n \in P => n + 1 \in P
    PROVE  Nat \subseteq P
<1>1. SUFFICES ASSUME Nat \ P # {} PROVE FALSE
  OBVIOUS
<1>2. PICK x \in Nat \ P : \A y \in Nat \ P : x <= y
  BY <1>1, LeastNatural
<1>3. x # 0 /\ x - 1 \in Nat /\ x - 1 \in P
  BY <1>2
<1> QED BY <1>3

\* How many elements the subsets of a finite set have.
LEMMA SubsetCounts ==
    ASSUME NEW S, IsFiniteSet(S)
    PROVE  \A T \in SUBSET S :
              /\ IsFiniteSet(T) /\ Cardinality(T) \in Nat
              /\ Cardinality(T) = 0 <=> T = {}
              /\ \A x \in T : /\ T \ {x} \in SUBSET S
                              /\ Cardinality(T \ {x}) = Cardinality(T) - 1
<1> SUFFICES ASSUME NEW T \in SUBSET S
             PROVE  /\ IsFiniteSet(T) /\ Cardinality(T) \in Nat
                    /\ Cardinality(T) = 0 <=> T = {}
                    /\ \A x \in T : /\ T \ {x} \in SUBSET S
                                    /\ Cardinality(T \ {x}) = Cardinality(T) - 1
  OBVIOUS
<1>1. IsFiniteSet(T)
  BY FS_Subset
<1>2. Cardinality(T) \in Nat /\ (Cardinality(T) = 0 <=> T = {})
  BY <1>1, FS_CardinalityType, FS_EmptySet
<1>3. \A x \in T : Cardinality(T \ {x}) = Cardinality(T) - 1
  BY <1>1, FS_RemoveElement
<1> QED BY <1>1, <1>2, <1>3

\* c picks an element of every subset of S that has one.
Picks(c, S) == \A s \in SUBSET S : s # {} => c[s] \in s

\* P has a subset of S whenever it has what is left without the element picked.
Climbs(P, S, c) == \A s \in SUBSET S : s # {} /\ s \ {c[s]} \in P => s \in P

\* Such a set of sets that has the empty one has every subset of the finite set S.
LEMMA SubsetsByChoice ==
    ASSUME NEW S, IsFiniteSet(S), NEW c,
           Picks(c, S), NEW P, {} \in P, Climbs(P, S, c)
    PROVE  SUBSET S \subseteq P
<1> DEFINE N == {n \in Nat : \A s \in SUBSET S : Cardinality(s) = n => s \in P}
<1>1. \A s \in SUBSET S :
         /\ IsFiniteSet(s) /\ Cardinality(s) \in Nat
         /\ Cardinality(s) = 0 <=> s = {}
         /\ \A x \in s : /\ s \ {x} \in SUBSET S
                         /\ Cardinality(s \ {x}) = Cardinality(s) - 1
  BY SubsetCounts
<1>2. 0 \in N
  BY <1>1
<1>3. ASSUME NEW n \in Nat, n \in N PROVE n + 1 \in N
  <2> SUFFICES ASSUME NEW s \in SUBSET S, Cardinality(s) = n + 1 PROVE s \in P
    OBVIOUS
  <2>1. s # {} /\ c[s] \in s
    BY <1>1 DEF Picks
  <2>2. Cardinality(s \ {c[s]}) = n /\ s \ {c[s]} \in SUBSET S
    BY <1>1, <2>1
  <2> QED BY <1>3, <2>1, <2>2 DEF Climbs
<1>4. Nat \subseteq N
  <2> HIDE DEF N
  <2> QED BY <1>2, <1>3, NatSets
<1> QED BY <1>1, <1>4

\* A set of sets that has the empty one, and with a set T of fewer elements of
\* the finite set S also T and one more, has S.
LEMMA SubsetsByOne ==
    ASSUME NEW S, IsFiniteSet(S), NEW P, {} \in P,
           \A T \in SUBSET S : \A x \in S \ T : T \in P => T \cup {x} \in P
    PROVE  S \in P
<1> DEFINE c == [s \in SUBSET S |-> CHOOSE x \in s : TRUE]
<1>1. Picks(c, S)
  BY DEF Picks
<1> HIDE DEF c
<1>2. ASSUME NEW s \in SUBSET S, s # {}, s \ {c[s]} \in P PROVE s \in P
  <2>1. PICK x \in s : x = c[s]
    BY <1>1, <1>2 DEF Picks
  <2> DEFINE T == s \ {x}
  <2>2. T \in SUBSET S /\ x \in S \ T /\ T \cup {x} = s
    OBVIOUS
  <2>3. T \in P
    BY <1>2, <2>1
  <2> HIDE DEF T
  <2> QED BY <2>2, <2>3
<1>3. Climbs(P, S, c)
  BY <1>2 DEF Climbs
<1>4. SUBSET S \subseteq P
  BY <1>1, <1>3, SubsetsByChoice
<1> QED BY <1>4

-----------------------------------------------------------------------------
(* The recursion *)

\* g folds the subsets of S with step, taking first what c picks.
Folds(g, S, c, base, step) ==
    g = [s \in SUBSET S |-> IF s = {} THEN base ELSE step[<<c[s], g[s \ {c[s]}]>>]]

\* There is such a function, built from the subsets of n elements to those of
\* n + 1.
LEMMA FoldExists ==
    ASSUME NEW S, IsFiniteSet(S), NEW c,
           Picks(c, S), NEW V, NEW base \in V, NEW step \in [S \X V -> V]
    PROVE  \E g \in [SUBSET S -> V] : Folds(g, S, c, base, step)
<1> DEFINE Upto(n, h) ==
               \A s \in SUBSET S : Cardinality(s) <= n =>
                   h[s] = IF s = {} THEN base ELSE step[<<c[s], h[s \ {c[s]}]>>]
           N == {n \in Nat : \E h \in [SUBSET S -> V] : Upto(n, h)}
<1>1. \A T \in SUBSET S :
         /\ IsFiniteSet(T) /\ Cardinality(T) \in Nat
         /\ Cardinality(T) = 0 <=> T = {}
         /\ \A x \in T : /\ T \ {x} \in SUBSET S
                         /\ Cardinality(T \ {x}) = Cardinality(T) - 1
  BY SubsetCounts
<1>2. \A s \in SUBSET S : s # {} => /\ c[s] \in S /\ s \ {c[s]} \in SUBSET S
                                    /\ Cardinality(s \ {c[s]}) = Cardinality(s) - 1
                                    /\ Cardinality(s) # 0
  BY <1>1 DEF Picks
<1>3. 0 \in N
  <2> DEFINE z == [s \in SUBSET S |-> base]
  <2>1. z \in [SUBSET S -> V]
    OBVIOUS
  <2>2. Upto(0, z)
    BY <1>1, <1>2
  <2> QED BY <2>1, <2>2
<1>4. ASSUME NEW n \in Nat, n \in N PROVE n + 1 \in N
  <2>1. PICK h \in [SUBSET S -> V] : Upto(n, h)
    BY <1>4
  <2> DEFINE k == [s \in SUBSET S |-> IF Cardinality(s) = n + 1
                                        THEN step[<<c[s], h[s \ {c[s]}]>>] ELSE h[s]]
  <2>2. \A s \in SUBSET S : k[s] \in V
    <3> SUFFICES ASSUME NEW s \in SUBSET S PROVE k[s] \in V
      OBVIOUS
    <3>1. CASE Cardinality(s) = n + 1
      <4>1. s # {}
        BY <1>1, <3>1
      <4>2. h[s \ {c[s]}] \in V /\ c[s] \in S
        BY <4>1, <1>2
      <4>3. step[<<c[s], h[s \ {c[s]}]>>] \in V
        BY <4>2
      <4> QED BY <3>1, <4>3
    <3>2. CASE Cardinality(s) # n + 1
      BY <3>2
    <3> QED BY <3>1, <3>2
  <2>3. k \in [SUBSET S -> V]
    BY <2>2
  <2>4. Upto(n + 1, k)
    <3> SUFFICES ASSUME NEW s \in SUBSET S, Cardinality(s) <= n + 1
                 PROVE  k[s] = IF s = {} THEN base ELSE step[<<c[s], k[s \ {c[s]}]>>]
      OBVIOUS
    <3>1. Cardinality(s) \in Nat
      BY <1>1
    <3>2. CASE s = {}
      <4>1. Cardinality(s) = 0
        BY <1>1, <3>2
      <4>2. h[s] = base
        <5>1. Cardinality(s) <= n
          BY <4>1
        <5> QED BY <2>1, <3>2, <5>1
      <4> QED BY <3>2, <4>1, <4>2
    <3>3. CASE s # {}
      <4>1. Cardinality(s \ {c[s]}) = Cardinality(s) - 1 /\ s \ {c[s]} \in SUBSET S
        BY <1>2, <3>3
      <4>2. k[s \ {c[s]}] = h[s \ {c[s]}]
        <5>1. Cardinality(s \ {c[s]}) # n + 1
          BY <3>1, <4>1
        <5> QED BY <4>1, <5>1
      <4>3. CASE Cardinality(s) = n + 1
        <5>1. k[s] = step[<<c[s], h[s \ {c[s]}]>>]
          BY <4>3
        <5> QED BY <3>3, <4>2, <5>1
      <4>4. CASE Cardinality(s) <= n
        <5>1. k[s] = h[s]
          BY <3>1, <4>4
        <5>2. h[s] = step[<<c[s], h[s \ {c[s]}]>>]
          BY <2>1, <3>3, <4>4
        <5> QED BY <3>3, <4>2, <5>1, <5>2
      <4>5. Cardinality(s) = n + 1 \/ Cardinality(s) <= n
        <5> HIDE DEF Upto, N, k
        <5> QED BY <3>1
      <4> QED BY <4>3, <4>4, <4>5
    <3> QED BY <3>2, <3>3
  <2> HIDE DEF Upto, k
  <2> QED BY <2>3, <2>4
<1>5. Nat \subseteq N
  <2> HIDE DEF N
  <2> QED BY <1>3, <1>4, NatSets
<1>6. PICK g \in [SUBSET S -> V] : Upto(Cardinality(S), g)
  BY <1>1, <1>5
<1>7. \A s \in SUBSET S : g[s] = IF s = {} THEN base ELSE step[<<c[s], g[s \ {c[s]}]>>]
  BY <1>6, FS_Subset
<1>8. Folds(g, S, c, base, step)
  BY <1>7 DEF Folds
<1> QED BY <1>8

\* g is the function that SumFunctionOnSet(w, S) evaluates at S.
Adds(w, S, g) ==
    g = [s \in SUBSET S |->
           IF s = {} THEN 0
           ELSE w[CHOOSE x \in s : TRUE] + g[s \ {CHOOSE x \in s : TRUE}]]

\* There is one.
LEMMA AddsExists ==
    ASSUME NEW S, IsFiniteSet(S), NEW w, Weighs(w, S)
    PROVE  \E g \in [SUBSET S -> Nat] : Adds(w, S, g)
<1> DEFINE c == [s \in SUBSET S |-> CHOOSE x \in s : TRUE]
           step == [p \in S \X Nat |-> w[p[1]] + p[2]]
<1>1. Picks(c, S)
  BY DEF Picks
<1>2. step \in [S \X Nat -> Nat]
  BY DEF Weighs
<1> HIDE DEF c, step
<1>3. PICK g \in [SUBSET S -> Nat] : Folds(g, S, c, 0, step)
  <2>1. 0 \in Nat
    OBVIOUS
  <2> QED BY <1>1, <1>2, <2>1, FoldExists
<1>4. ASSUME NEW s \in SUBSET S, s # {}
      PROVE  step[<<c[s], g[s \ {c[s]}]>>]
                 = w[CHOOSE x \in s : TRUE] + g[s \ {CHOOSE x \in s : TRUE}]
  <2>1. c[s] \in S /\ g[s \ {c[s]}] \in Nat
    BY <1>1, <1>3, <1>4 DEF Picks
  <2>2. step[<<c[s], g[s \ {c[s]}]>>] = w[c[s]] + g[s \ {c[s]}]
    BY <2>1 DEF step
  <2>3. c[s] = CHOOSE x \in s : TRUE
    BY DEF c
  <2> QED BY <2>2, <2>3
<1>5. Adds(w, S, g)
  BY <1>3, <1>4 DEF Adds, Folds
<1> QED BY <1>5

\* And only one, on the subsets it shares with another.
LEMMA AddsUnique ==
    ASSUME NEW S, IsFiniteSet(S), NEW T \in SUBSET S, NEW w,
           NEW g, NEW h, Adds(w, S, g), Adds(w, T, h)
    PROVE  g[T] = h[T]
<1> DEFINE N == {n \in Nat : \A s \in SUBSET T : Cardinality(s) = n => g[s] = h[s]}
           c(s) == CHOOSE x \in s : TRUE
<1>1. \A s \in SUBSET S :
         /\ IsFiniteSet(s) /\ Cardinality(s) \in Nat
         /\ Cardinality(s) = 0 <=> s = {}
         /\ \A x \in s : Cardinality(s \ {x}) = Cardinality(s) - 1
  BY SubsetCounts
<1>2. \A s \in SUBSET T :
         /\ g[s] = IF s = {} THEN 0 ELSE w[c(s)] + g[s \ {c(s)}]
         /\ h[s] = IF s = {} THEN 0 ELSE w[c(s)] + h[s \ {c(s)}]
  BY DEF Adds
<1>3. 0 \in N
  BY <1>1, <1>2
<1>4. ASSUME NEW n \in Nat, n \in N PROVE n + 1 \in N
  <2> SUFFICES ASSUME NEW s \in SUBSET T, Cardinality(s) = n + 1 PROVE g[s] = h[s]
    OBVIOUS
  <2>1. s # {}
    BY <1>1
  <2>2. c(s) \in s
    BY <2>1
  <2> HIDE DEF c
  <2>3. Cardinality(s \ {c(s)}) = n /\ s \ {c(s)} \in SUBSET T
    BY <1>1, <2>2
  <2>4. g[s \ {c(s)}] = h[s \ {c(s)}]
    BY <1>4, <2>3
  <2> QED BY <1>2, <2>1, <2>4
<1>5. Nat \subseteq N
  <2> HIDE DEF N
  <2> QED BY <1>3, <1>4, NatSets
<1> QED BY <1>1, <1>5

\* SumFunctionOnSet(w, S) is what that function yields at S.
LEMMA SumIsAdds ==
    ASSUME NEW S, NEW w, \E g : Adds(w, S, g)
    PROVE  \E g : Adds(w, S, g) /\ SumFunctionOnSet(w, S) = g[S]
  BY DEF SumFunctionOnSet, FoldFunctionOnSet, MapThenFoldSet, Adds

\* One step of the recursion: the element that CHOOSE takes, and the others.
LEMMA SumStep ==
    ASSUME NEW S, IsFiniteSet(S), NEW w, Weighs(w, S)
    PROVE  /\ SumFunctionOnSet(w, S) \in Nat
           /\ S = {} => SumFunctionOnSet(w, S) = 0
           /\ S # {} => \E x \in S :
                 SumFunctionOnSet(w, S) = w[x] + SumFunctionOnSet(w, S \ {x})
<1>1. PICK g : Adds(w, S, g) /\ SumFunctionOnSet(w, S) = g[S]
  BY AddsExists, SumIsAdds
<1>2. PICK h \in [SUBSET S -> Nat] : Adds(w, S, h)
  BY AddsExists
<1>3. SumFunctionOnSet(w, S) = h[S] /\ S \in SUBSET S
  BY <1>1, <1>2, AddsUnique
<1>4. h[S] = IF S = {} THEN 0
             ELSE w[CHOOSE x \in S : TRUE] + h[S \ {CHOOSE x \in S : TRUE}]
  BY <1>2, <1>3 DEF Adds
<1>5. ASSUME S # {}
      PROVE  \E x \in S : SumFunctionOnSet(w, S) = w[x] + SumFunctionOnSet(w, S \ {x})
  <2> DEFINE x == CHOOSE y \in S : TRUE
  <2>1. x \in S /\ S \ {x} \in SUBSET S
    BY <1>5
  <2>2. SumFunctionOnSet(w, S) = w[x] + h[S \ {x}]
    BY <1>3, <1>4, <1>5
  <2> HIDE DEF x
  <2>3. IsFiniteSet(S \ {x}) /\ Weighs(w, S \ {x})
    BY FS_RemoveElement DEF Weighs
  <2>4. PICK k : Adds(w, S \ {x}, k) /\ SumFunctionOnSet(w, S \ {x}) = k[S \ {x}]
    BY <2>3, AddsExists, SumIsAdds
  <2>5. h[S \ {x}] = k[S \ {x}]
    BY <1>2, <2>1, <2>4, AddsUnique
  <2> QED BY <2>1, <2>2, <2>4, <2>5
<1> QED BY <1>3, <1>4, <1>5

-----------------------------------------------------------------------------
(* What the proofs use *)

\* A sum of naturals is a natural, and that of nothing is zero.
LEMMA SumType ==
    ASSUME NEW S, IsFiniteSet(S), NEW w, Weighs(w, S)
    PROVE  SumFunctionOnSet(w, S) \in Nat
  BY SumStep

\* The sum over nothing is zero, whatever the weights.
LEMMA SumEmpty ==
    ASSUME NEW w
    PROVE  SumFunctionOnSet(w, {}) = 0
  BY SumStep, FS_EmptySet DEF Weighs

\* Any element may be taken first.
LEMMA SumRemove ==
    ASSUME NEW S, IsFiniteSet(S), NEW w, Weighs(w, S), NEW x \in S
    PROVE  SumFunctionOnSet(w, S) = w[x] + SumFunctionOnSet(w, S \ {x})
<1> DEFINE Sum(T) == SumFunctionOnSet(w, T)
           N == {n \in Nat : \A T \in SUBSET S : Cardinality(T) = n =>
                                \A y \in T : Sum(T) = w[y] + Sum(T \ {y})}
<1>1. \A T \in SUBSET S :
         /\ IsFiniteSet(T) /\ Cardinality(T) \in Nat
         /\ Cardinality(T) = 0 <=> T = {}
         /\ \A y \in T : /\ T \ {y} \in SUBSET S
                         /\ Cardinality(T \ {y}) = Cardinality(T) - 1
  BY SubsetCounts
<1>2. \A T \in SUBSET S :
         /\ Sum(T) \in Nat
         /\ T # {} => \E y \in T : Sum(T) = w[y] + Sum(T \ {y})
  <2> TAKE T \in SUBSET S
  <2>1. IsFiniteSet(T) /\ Weighs(w, T)
    BY <1>1 DEF Weighs
  <2> QED BY <2>1, SumStep
<1> HIDE DEF Sum
<1>3. 0 \in N
  BY <1>1
<1>4. ASSUME NEW n \in Nat, n \in N PROVE n + 1 \in N
  <2> SUFFICES ASSUME NEW T \in SUBSET S, Cardinality(T) = n + 1, NEW y \in T
               PROVE  Sum(T) = w[y] + Sum(T \ {y})
    OBVIOUS
  <2>1. PICK z \in T : Sum(T) = w[z] + Sum(T \ {z})
    BY <1>2
  <2>2. CASE y = z
    BY <2>1, <2>2
  <2>3. CASE y # z
    <3>1. /\ Cardinality(T \ {z}) = n /\ Cardinality(T \ {y}) = n
          /\ T \ {z} \in SUBSET S /\ T \ {y} \in SUBSET S
      BY <1>1
    <3>2. y \in T \ {z} /\ z \in T \ {y}
      BY <2>3
    <3>3. /\ Sum(T \ {z}) = w[y] + Sum((T \ {z}) \ {y})
          /\ Sum(T \ {y}) = w[z] + Sum((T \ {y}) \ {z})
      BY <1>4, <3>1, <3>2
    <3>4. (T \ {z}) \ {y} = (T \ {y}) \ {z} /\ (T \ {z}) \ {y} \in SUBSET S
      OBVIOUS
    <3>5. w[y] \in Nat /\ w[z] \in Nat /\ Sum((T \ {z}) \ {y}) \in Nat
      BY <1>2, <3>4 DEF Weighs
    <3> QED BY <2>1, <3>3, <3>4, <3>5
  <2> QED BY <2>2, <2>3
<1>5. Nat \subseteq N
  <2> HIDE DEF N
  <2> QED BY <1>3, <1>4, NatSets
<1>6. Sum(S) = w[x] + Sum(S \ {x})
  BY <1>1, <1>5
<1> QED BY <1>6 DEF Sum

\* The sum with one more element.
LEMMA SumAdd ==
    ASSUME NEW S, IsFiniteSet(S), NEW x, x \notin S, NEW w, Weighs(w, S \cup {x})
    PROVE  SumFunctionOnSet(w, S \cup {x}) = w[x] + SumFunctionOnSet(w, S)
<1>1. IsFiniteSet(S \cup {x}) /\ (S \cup {x}) \ {x} = S
  BY FS_AddElement
<1> QED BY <1>1, SumRemove

\* The sum depends on the weights of the elements only.
LEMMA SumAgree ==
    ASSUME NEW S, IsFiniteSet(S), NEW w, NEW v, Weighs(w, S),
           \A x \in S : v[x] = w[x]
    PROVE  SumFunctionOnSet(v, S) = SumFunctionOnSet(w, S)
<1> DEFINE P == {T \in SUBSET S : SumFunctionOnSet(v, T) = SumFunctionOnSet(w, T)}
<1>1. {} \in P
  BY SumEmpty
<1>2. ASSUME NEW T \in SUBSET S, NEW x \in S \ T, T \in P PROVE T \cup {x} \in P
  <2>1. IsFiniteSet(T) /\ Weighs(w, T \cup {x}) /\ Weighs(v, T \cup {x})
    BY FS_Subset DEF Weighs
  <2>2. /\ SumFunctionOnSet(v, T \cup {x}) = v[x] + SumFunctionOnSet(v, T)
        /\ SumFunctionOnSet(w, T \cup {x}) = w[x] + SumFunctionOnSet(w, T)
    BY <2>1, SumAdd
  <2> QED BY <1>2, <2>2
<1>3. S \in P
  <2> HIDE DEF P
  <2> QED BY <1>1, <1>2, SubsetsByOne
<1> QED BY <1>3

\* The sum over the whole is that over a part and that over the rest.
LEMMA SumSplit ==
    ASSUME NEW S, IsFiniteSet(S), NEW w, Weighs(w, S), NEW T \in SUBSET S
    PROVE  SumFunctionOnSet(w, S)
               = SumFunctionOnSet(w, T) + SumFunctionOnSet(w, S \ T)
<1> DEFINE R == S \ T
           P == {U \in SUBSET R : SumFunctionOnSet(w, T \cup U)
                    = SumFunctionOnSet(w, T) + SumFunctionOnSet(w, U)}
<1>1. IsFiniteSet(T) /\ IsFiniteSet(R)
  BY FS_Subset
<1>2. {} \in P
  <2>1. SumFunctionOnSet(w, T) \in Nat /\ T \cup {} = T
    BY <1>1, SumType DEF Weighs
  <2> QED BY <2>1, SumEmpty
<1>3. ASSUME NEW U \in SUBSET R, NEW x \in R \ U, U \in P PROVE U \cup {x} \in P
  <2>1. /\ T \cup U \in SUBSET S /\ U \in SUBSET S /\ x \in S
        /\ x \notin T \cup U /\ x \notin U
        /\ T \cup (U \cup {x}) = (T \cup U) \cup {x}
    OBVIOUS
  <2>2. /\ IsFiniteSet(T \cup U) /\ IsFiniteSet(U)
        /\ Weighs(w, (T \cup U) \cup {x}) /\ Weighs(w, U \cup {x})
        /\ Weighs(w, T) /\ Weighs(w, U)
    BY <2>1, FS_Subset DEF Weighs
  <2>3. /\ SumFunctionOnSet(w, (T \cup U) \cup {x})
             = w[x] + SumFunctionOnSet(w, T \cup U)
        /\ SumFunctionOnSet(w, U \cup {x}) = w[x] + SumFunctionOnSet(w, U)
        /\ SumFunctionOnSet(w, T) \in Nat /\ SumFunctionOnSet(w, U) \in Nat
        /\ w[x] \in Nat
    BY <1>1, <2>1, <2>2, SumAdd, SumType DEF Weighs
  <2>4. SumFunctionOnSet(w, T \cup U)
            = SumFunctionOnSet(w, T) + SumFunctionOnSet(w, U)
    <3> HIDE DEF R
    <3> QED BY <1>3
  <2>5. SumFunctionOnSet(w, (T \cup U) \cup {x})
            = SumFunctionOnSet(w, T) + SumFunctionOnSet(w, U \cup {x})
    BY <2>3, <2>4
  <2>6. U \cup {x} \in SUBSET R
    OBVIOUS
  <2> QED BY <2>1, <2>5, <2>6
<1>4. R \in P
  <2> HIDE DEF P, R
  <2> QED BY <1>1, <1>2, <1>3, SubsetsByOne
<1>5. T \cup R = S
  OBVIOUS
<1> QED BY <1>4, <1>5

\* The sum over a part is at most that over the whole.
LEMMA SumPart ==
    ASSUME NEW S, IsFiniteSet(S), NEW w, Weighs(w, S), NEW T \in SUBSET S
    PROVE  SumFunctionOnSet(w, T) <= SumFunctionOnSet(w, S)
<1>1. /\ IsFiniteSet(T) /\ IsFiniteSet(S \ T)
      /\ Weighs(w, T) /\ Weighs(w, S \ T)
  BY FS_Subset DEF Weighs
<1>2. SumFunctionOnSet(w, T) \in Nat /\ SumFunctionOnSet(w, S \ T) \in Nat
  BY <1>1, SumType
<1>3. SumFunctionOnSet(w, S) = SumFunctionOnSet(w, T) + SumFunctionOnSet(w, S \ T)
  BY SumSplit
<1> QED BY <1>2, <1>3

\* A table of counters in which one, that may be new, counts one more.
LEMMA SumIncrement ==
    ASSUME NEW S, IsFiniteSet(S), NEW w, Weighs(w, S), NEW x, NEW v,
           v[x] = 1 + (IF x \in S THEN w[x] ELSE 0),
           \A y \in S \ {x} : v[y] = w[y]
    PROVE  SumFunctionOnSet(v, S \cup {x}) = SumFunctionOnSet(w, S) + 1
<1> DEFINE R == S \ {x}
<1>1. /\ IsFiniteSet(S \cup {x}) /\ IsFiniteSet(R)
      /\ (S \cup {x}) \ {x} = R /\ (x \notin S => R = S)
  BY FS_AddElement, FS_RemoveElement
<1>2. v[x] \in Nat /\ Weighs(v, S \cup {x}) /\ Weighs(w, R)
  BY DEF Weighs
<1>3. /\ SumFunctionOnSet(v, S \cup {x}) = v[x] + SumFunctionOnSet(v, R)
      /\ x \in S => SumFunctionOnSet(w, S) = w[x] + SumFunctionOnSet(w, R)
  BY <1>1, <1>2, SumRemove
<1>4. SumFunctionOnSet(v, R) = SumFunctionOnSet(w, R) /\ SumFunctionOnSet(w, R) \in Nat
  BY <1>1, <1>2, SumAgree, SumType
<1> HIDE DEF R
<1>5. CASE x \in S
  <2>1. w[x] \in Nat
    BY <1>5 DEF Weighs
  <2> QED BY <1>3, <1>4, <1>5, <2>1
<1>6. CASE x \notin S
  BY <1>1, <1>3, <1>4, <1>6
<1> QED BY <1>5, <1>6

\* Heavier elements make a larger sum.
LEMMA SumHeavier ==
    ASSUME NEW S, IsFiniteSet(S), NEW w, NEW v, Weighs(w, S), Weighs(v, S),
           \A x \in S : w[x] <= v[x]
    PROVE  SumFunctionOnSet(w, S) <= SumFunctionOnSet(v, S)
<1> DEFINE P == {T \in SUBSET S : SumFunctionOnSet(w, T) <= SumFunctionOnSet(v, T)}
<1>1. {} \in P
  BY SumEmpty
<1>2. ASSUME NEW T \in SUBSET S, NEW x \in S \ T, T \in P PROVE T \cup {x} \in P
  <2>1. /\ IsFiniteSet(T) /\ Weighs(w, T \cup {x}) /\ Weighs(v, T \cup {x})
        /\ Weighs(w, T) /\ Weighs(v, T)
    BY FS_Subset DEF Weighs
  <2>2. /\ SumFunctionOnSet(v, T \cup {x}) = v[x] + SumFunctionOnSet(v, T)
        /\ SumFunctionOnSet(w, T \cup {x}) = w[x] + SumFunctionOnSet(w, T)
        /\ SumFunctionOnSet(v, T) \in Nat /\ SumFunctionOnSet(w, T) \in Nat
    BY <2>1, SumAdd, SumType
  <2>3. v[x] \in Nat /\ w[x] \in Nat /\ w[x] <= v[x]
    BY DEF Weighs
  <2>4. SumFunctionOnSet(w, T) <= SumFunctionOnSet(v, T)
    BY <1>2
  <2> QED BY <2>2, <2>3, <2>4
<1>3. S \in P
  <2> HIDE DEF P
  <2> QED BY <1>1, <1>2, SubsetsByOne
<1> QED BY <1>3
=============================================================================
