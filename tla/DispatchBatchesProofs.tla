------------------------ MODULE DispatchBatchesProofs -----------------------
(***************************************************************************)
(* What the partition of digests into batches computes, for every set of   *)
(* digests, every size and every number of batches, and the lemmas on      *)
(* induction, sums and orders that these and the other proofs rest on.     *)
(*                                                                         *)
(* The library's induction theorems take an operator as a parameter, which *)
(* the provers cannot instantiate; EveryNumber and Subsets take the set of *)
(* the good numbers, or of the good subsets, in its place.                 *)
(***************************************************************************)
EXTENDS DispatchBatches, FiniteSetTheorems, NaturalsInduction, TLAPS

(* Induction on the numbers, over a set instead of a predicate: the least   *)
(* number outside I would follow one inside it.                             *)
LEMMA EveryNumber ==
  ASSUME NEW I, 0 \in I, \A n \in Nat : n \in I => n + 1 \in I
  PROVE  Nat \subseteq I
<1>. DEFINE out == Nat \ I
<1>. SUFFICES ASSUME out # {} PROVE FALSE
  OBVIOUS
<1>1. PICK n \in out : \A m \in out : ~ (<<m, n>> \in OpToRel(<, Nat))
  BY NatLessThanWellFounded, WFMin
<1>2. \A m \in out : ~ m < n
  BY <1>1 DEF OpToRel
<1>3. n # 0 /\ n - 1 \in Nat /\ n - 1 \notin out
  BY <1>2
<1>. QED BY <1>3

(* Taking one element away lowers the cardinality by one.                   *)
LEMMA OneLess ==
  ASSUME NEW S, IsFiniteSet(S), NEW x \in S
  PROVE  /\ IsFiniteSet(S \ {x}) /\ Cardinality(S) \in Nat
         /\ Cardinality(S \ {x}) = Cardinality(S) - 1
<1>1. IsFiniteSet(S \ {x})
         /\ Cardinality(S \ {x}) = IF x \in S THEN Cardinality(S) - 1 ELSE Cardinality(S)
  BY FS_RemoveElement
<1>. QED BY <1>1, FS_CardinalityType

(* Induction on a finite set, over a set of sets: what holds of {} and is   *)
(* kept by one more element holds of S.                                     *)
LEMMA Subsets ==
  ASSUME NEW S, IsFiniteSet(S), NEW I, {} \in I,
         \A T \in SUBSET S : T \in I => \A x \in S \ T : T \cup {x} \in I
  PROVE  S \in I
<1>. DEFINE J == {n \in Nat : \A T \in SUBSET S : Cardinality(T) = n => T \in I}
<1>1. 0 \in J
  BY FS_EmptySet, FS_Subset
<1>2. ASSUME NEW n \in Nat, n \in J PROVE n + 1 \in J
  <2>. SUFFICES ASSUME NEW T \in SUBSET S, Cardinality(T) = n + 1 PROVE T \in I
    OBVIOUS
  <2>1. IsFiniteSet(T)
    BY FS_Subset
  <2>2. PICK x \in T : TRUE
    BY FS_EmptySet
  <2>3. Cardinality(T \ {x}) = n
    BY <2>1, OneLess
  <2>4. T \ {x} \in I
    BY <1>2, <2>3
  <2>5. (T \ {x}) \cup {x} = T /\ x \in S \ (T \ {x})
    OBVIOUS
  <2>. QED BY <2>4, <2>5
<1>3. Cardinality(S) \in J
  <2>. HIDE DEF J
  <2>. QED BY <1>1, <1>2, EveryNumber, FS_CardinalityType
<1>. QED BY <1>3

(* What the library's fold defines a sum by: g[s] is the sum of f over s, one *)
(* element chosen at a time, for every subset s of S.                       *)
Step(f, g, s) == IF s = {} THEN 0 ELSE LET x == CHOOSE x \in s : TRUE IN f[x] + g[s \ {x}]
Adds(f, g, S) == g = [s \in SUBSET S |-> Step(f, g, s)]

(* The sums over the subsets of S, restricted to those of T, are T's.       *)
LEMMA AddsSubset ==
  ASSUME NEW f, NEW S, NEW g, Adds(f, g, S), NEW T \in SUBSET S
  PROVE  Adds(f, [s \in SUBSET T |-> g[s]], T)
<1>. DEFINE h == [s \in SUBSET T |-> g[s]]
<1>1. ASSUME NEW s \in SUBSET T PROVE h[s] = Step(f, h, s)
  <2>1. g[s] = Step(f, g, s)
    BY DEF Adds
  <2>2. CASE s = {}
    BY <2>1, <2>2 DEF Step
  <2>3. CASE s # {}
    <3>. DEFINE x == CHOOSE x \in s : TRUE
    <3>1. s \ {x} \in SUBSET T
      OBVIOUS
    <3>. QED BY <2>1, <2>3, <3>1 DEF Step
  <2>. QED BY <2>2, <2>3
<1>. HIDE DEF h
<1>2. h = [s \in SUBSET T |-> Step(f, h, s)]
  BY <1>1 DEF h
<1>. QED BY <1>2 DEF Adds, h

(* The equation of the fold has one solution.                               *)
LEMMA AddsOnce ==
  ASSUME NEW f, NEW S, IsFiniteSet(S), NEW g, NEW h, Adds(f, g, S), Adds(f, h, S)
  PROVE  g = h
<1>. DEFINE J == {n \in Nat : \A s \in SUBSET S : Cardinality(s) <= n => g[s] = h[s]}
<1>0. /\ \A s \in SUBSET S : g[s] = Step(f, g, s) /\ h[s] = Step(f, h, s)
      /\ g = [s \in SUBSET S |-> g[s]] /\ h = [s \in SUBSET S |-> h[s]]
  BY DEF Adds
<1>1. 0 \in J
  <2>1. ASSUME NEW s \in SUBSET S, Cardinality(s) <= 0 PROVE s = {}
    BY <2>1, FS_Subset, FS_CardinalityType, FS_EmptySet
  <2>. QED BY <1>0, <2>1 DEF Step
<1>2. ASSUME NEW n \in Nat, n \in J PROVE n + 1 \in J
  <2>. SUFFICES ASSUME NEW s \in SUBSET S, Cardinality(s) <= n + 1 PROVE g[s] = h[s]
    OBVIOUS
  <2>1. CASE s = {}
    BY <1>0, <2>1 DEF Step
  <2>2. CASE s # {}
    <3>. DEFINE x == CHOOSE x \in s : TRUE
    <3>1. x \in s
      BY <2>2
    <3>2. Cardinality(s \ {x}) <= n
      <4>1. IsFiniteSet(s)
        BY FS_Subset
      <4>2. Cardinality(s) \in Nat
        BY <4>1, FS_CardinalityType
      <4>3. Cardinality(s \ {x}) = Cardinality(s) - 1
        BY <3>1, <4>1, OneLess
      <4>. QED BY <4>2, <4>3
    <3>3. g[s \ {x}] = h[s \ {x}]
      BY <1>2, <3>2
    <3>4. g[s] = f[x] + g[s \ {x}] /\ h[s] = f[x] + h[s \ {x}]
      BY <1>0, <2>2 DEF Step
    <3>. QED BY <3>3, <3>4
  <2>. QED BY <2>1, <2>2
<1>. HIDE DEF J
<1>3. Cardinality(S) \in J
  BY <1>1, <1>2, EveryNumber, FS_CardinalityType
<1>4. \A s \in SUBSET S : g[s] = h[s]
  BY <1>3, FS_Subset DEF J
<1>. QED BY <1>0, <1>4

(* The equation of the fold has a solution: one for S without an element    *)
(* extends to S.                                                            *)
LEMMA AddsExists ==
  ASSUME NEW f, NEW S, IsFiniteSet(S)
  PROVE  \E g : Adds(f, g, S)
<1>. DEFINE Upto(n) == {s \in SUBSET S : Cardinality(s) <= n}
            J == {n \in Nat : \E g : g = [s \in Upto(n) |-> Step(f, g, s)]}
<1>1. 0 \in J
  <2>. DEFINE g == [s \in Upto(0) |-> 0]
  <2>1. \A s \in Upto(0) : s = {}
    BY FS_Subset, FS_CardinalityType, FS_EmptySet
  <2>2. g = [s \in Upto(0) |-> Step(f, g, s)]
    BY <2>1 DEF Step
  <2>. HIDE DEF g
  <2>. QED BY <2>2
<1>2. ASSUME NEW n \in Nat, n \in J PROVE n + 1 \in J
  <2>1. PICK g : g = [s \in Upto(n) |-> Step(f, g, s)]
    BY <1>2
  <2>. DEFINE h == [s \in Upto(n + 1) |-> Step(f, g, s)]
  <2>2. \A s \in Upto(n) : s \in Upto(n + 1) /\ h[s] = g[s]
    <3>1. \A s \in Upto(n) : s \in Upto(n + 1)
      BY FS_Subset, FS_CardinalityType
    <3>. QED BY <2>1, <3>1
  <2>3. ASSUME NEW s \in Upto(n + 1) PROVE h[s] = Step(f, h, s)
    <3>1. CASE s = {}
      BY <3>1 DEF Step
    <3>2. CASE s # {}
      <4>. DEFINE x == CHOOSE x \in s : TRUE
      <4>1. x \in s /\ IsFiniteSet(s) /\ Cardinality(s) \in Nat
        BY <3>2, FS_Subset, FS_CardinalityType
      <4>2. s \ {x} \in Upto(n)
        <5>1. Cardinality(s \ {x}) = Cardinality(s) - 1
          BY <4>1, OneLess
        <5>. QED BY <4>1, <5>1
      <4>3. h[s \ {x}] = g[s \ {x}]
        BY <2>2, <4>2
      <4>. QED BY <3>2, <4>3 DEF Step
    <3>. QED BY <3>1, <3>2
  <2>. HIDE DEF h
  <2>4. h = [s \in Upto(n + 1) |-> Step(f, h, s)]
    BY <2>3 DEF h
  <2>. QED BY <2>4
<1>3. Cardinality(S) \in J
  <2>. HIDE DEF J
  <2>. QED BY <1>1, <1>2, EveryNumber, FS_CardinalityType
<1>4. Upto(Cardinality(S)) = SUBSET S
  BY FS_Subset
<1>. QED BY <1>3, <1>4 DEF Adds

(* The library's sum is that solution.                                      *)
LEMMA SumAdds ==
  ASSUME NEW f, NEW S, IsFiniteSet(S)
  PROVE  \E g : Adds(f, g, S) /\ SumFunctionOnSet(f, S) = g[S]
<1>. DEFINE g == CHOOSE g : g = [s \in SUBSET S |->
                 IF s = {} THEN 0
                 ELSE LET x == CHOOSE x \in s : TRUE IN f[x] + g[s \ {x}]]
<1>1. SumFunctionOnSet(f, S) = g[S]
  BY DEF SumFunctionOnSet, FoldFunctionOnSet, MapThenFoldSet
<1>2. Adds(f, g, S)
  <2>1. PICK h : Adds(f, h, S)
    BY AddsExists
  <2>2. h = [s \in SUBSET S |->
                 IF s = {} THEN 0
                 ELSE LET x == CHOOSE x \in s : TRUE IN f[x] + h[s \ {x}]]
    BY <2>1 DEF Adds, Step
  <2>. QED BY <2>2 DEF Adds, Step
<1>. QED BY <1>1, <1>2

(* Nothing adds up to 0.                                                    *)
LEMMA SumEmpty == ASSUME NEW f PROVE SumFunctionOnSet(f, {}) = 0
<1>1. PICK g : Adds(f, g, {}) /\ SumFunctionOnSet(f, {}) = g[{}]
  BY SumAdds, FS_EmptySet
<1>. QED BY <1>1 DEF Adds, Step

(* A sum is that of the element chosen first and of the rest.               *)
LEMMA SumChosen ==
  ASSUME NEW f, NEW S, IsFiniteSet(S), S # {}
  PROVE  \E x \in S : SumFunctionOnSet(f, S) = f[x] + SumFunctionOnSet(f, S \ {x})
<1>. DEFINE x == CHOOSE x \in S : TRUE
            T == S \ {x}
<1>1. x \in S
  OBVIOUS
<1>2. PICK g : Adds(f, g, S) /\ SumFunctionOnSet(f, S) = g[S]
  BY SumAdds
<1>3. g[S] = f[x] + g[T]
  BY <1>2 DEF Adds, Step
<1>. HIDE DEF x
<1>4. IsFiniteSet(T)
  BY <1>1, OneLess
<1>5. PICK h : Adds(f, h, T) /\ SumFunctionOnSet(f, T) = h[T]
  BY <1>4, SumAdds
<1>6. Adds(f, [s \in SUBSET T |-> g[s]], T)
  BY <1>2, AddsSubset
<1>7. h = [s \in SUBSET T |-> g[s]]
  BY <1>4, <1>5, <1>6, AddsOnce
<1>8. h[T] = g[T]
  BY <1>7
<1>. QED BY <1>1, <1>2, <1>3, <1>5, <1>8

(* A sum of naturals is a natural, a sum of integers an integer.            *)
LEMMA SumTyped ==
  ASSUME NEW f, NEW S, IsFiniteSet(S), NEW R, R \in {Nat, Int}, \A x \in S : f[x] \in R
  PROVE  SumFunctionOnSet(f, S) \in R
<1>. DEFINE J == {n \in Nat : \A T \in SUBSET S : Cardinality(T) = n => SumFunctionOnSet(f, T) \in R}
<1>1. 0 \in J
  BY FS_EmptySet, FS_Subset, SumEmpty
<1>2. ASSUME NEW n \in Nat, n \in J PROVE n + 1 \in J
  <2>. SUFFICES ASSUME NEW T \in SUBSET S, Cardinality(T) = n + 1
                PROVE  SumFunctionOnSet(f, T) \in R
    OBVIOUS
  <2>1. IsFiniteSet(T) /\ T # {}
    BY FS_Subset, FS_EmptySet
  <2>2. PICK x \in T : SumFunctionOnSet(f, T) = f[x] + SumFunctionOnSet(f, T \ {x})
    BY <2>1, SumChosen
  <2>3. Cardinality(T \ {x}) = n
    BY <2>1, OneLess
  <2>4. SumFunctionOnSet(f, T \ {x}) \in R
    BY <1>2, <2>3
  <2>. QED BY <2>2, <2>4
<1>. HIDE DEF J
<1>3. Cardinality(S) \in J
  BY <1>1, <1>2, EveryNumber, FS_CardinalityType
<1>. QED BY <1>3 DEF J

(* Any element may be taken out of a sum, not only the one chosen first.    *)
LEMMA SumWithout ==
  ASSUME NEW f, NEW S, IsFiniteSet(S), \A x \in S : f[x] \in Int, NEW x \in S
  PROVE  SumFunctionOnSet(f, S) = f[x] + SumFunctionOnSet(f, S \ {x})
<1>. DEFINE Total(T) == SumFunctionOnSet(f, T)
            J == {n \in Nat : \A T \in SUBSET S : Cardinality(T) = n =>
                               \A y \in T : Total(T) = f[y] + Total(T \ {y})}
<1>0. \A T \in SUBSET S : IsFiniteSet(T) /\ Total(T) \in Int
  BY FS_Subset, SumTyped
<1>1. 0 \in J
  BY <1>0, FS_EmptySet
<1>2. ASSUME NEW n \in Nat, n \in J PROVE n + 1 \in J
  <2>. SUFFICES ASSUME NEW T \in SUBSET S, Cardinality(T) = n + 1, NEW y \in T
                PROVE  Total(T) = f[y] + Total(T \ {y})
    OBVIOUS
  <2>1. PICK z \in T : Total(T) = f[z] + Total(T \ {z})
    BY <1>0, SumChosen
  <2>2. CASE y = z
    BY <2>1, <2>2
  <2>3. CASE y # z
    <3>0. IsFiniteSet(T)
      BY <1>0
    <3>1. Cardinality(T \ {z}) = n /\ Cardinality(T \ {y}) = n
      <4>1. Cardinality(T \ {z}) = Cardinality(T) - 1
        BY <3>0, OneLess
      <4>2. Cardinality(T \ {y}) = Cardinality(T) - 1
        BY <3>0, OneLess
      <4>. QED BY <4>1, <4>2
    <3>2. y \in T \ {z} /\ z \in T \ {y} /\ (T \ {y}) \ {z} = (T \ {z}) \ {y}
      BY <2>3
    <3>3. Total(T \ {z}) = f[y] + Total((T \ {z}) \ {y})
      BY <1>2, <3>1, <3>2
    <3>4. Total(T \ {y}) = f[z] + Total((T \ {z}) \ {y})
      BY <1>2, <3>1, <3>2
    <3>5. f[y] \in Int /\ f[z] \in Int /\ Total((T \ {z}) \ {y}) \in Int
      BY <1>0
    <3>. HIDE DEF Total
    <3>. QED BY <2>1, <3>3, <3>4, <3>5
  <2>. QED BY <2>2, <2>3
<1>. HIDE DEF J
<1>3. Cardinality(S) \in J
  BY <1>1, <1>2, EveryNumber, FS_CardinalityType
<1>. QED BY <1>3 DEF J

(* The sum over two disjoint sets.                                          *)
LEMMA SumUnion ==
  ASSUME NEW f, NEW S, NEW T, IsFiniteSet(S), IsFiniteSet(T), S \cap T = {},
         \A x \in S \cup T : f[x] \in Int
  PROVE  SumFunctionOnSet(f, S \cup T) = SumFunctionOnSet(f, S) + SumFunctionOnSet(f, T)
<1>. DEFINE Total(U) == SumFunctionOnSet(f, U)
            I == {U \in SUBSET T : Total(S \cup U) = Total(S) + Total(U)}
<1>0. \A U \in SUBSET T : IsFiniteSet(U) /\ IsFiniteSet(S \cup U)
  BY FS_Subset, FS_Union
<1>1. \A U \in SUBSET T : Total(U) \in Int /\ Total(S \cup U) \in Int
  <2>. SUFFICES ASSUME NEW U \in SUBSET T PROVE Total(U) \in Int /\ Total(S \cup U) \in Int
    OBVIOUS
  <2>1. IsFiniteSet(U) /\ IsFiniteSet(S \cup U)
    BY <1>0
  <2>. QED BY <2>1, SumTyped
<1>2. Total(S) \in Int
  BY SumTyped
<1>3. {} \in I
  <2>1. S \cup {} = S /\ Total({}) = 0
    BY SumEmpty
  <2>. HIDE DEF Total
  <2>. QED BY <1>2, <2>1
<1>4. ASSUME NEW U \in SUBSET T, U \in I, NEW x \in T \ U PROVE U \cup {x} \in I
  <2>1. /\ (S \cup (U \cup {x})) \ {x} = S \cup U /\ x \in S \cup (U \cup {x})
        /\ (U \cup {x}) \ {x} = U /\ U \cup {x} \in SUBSET T
    OBVIOUS
  <2>2. IsFiniteSet(U \cup {x}) /\ IsFiniteSet(S \cup (U \cup {x}))
    BY <1>0, <2>1
  <2>3. Total(S \cup (U \cup {x})) = f[x] + Total((S \cup (U \cup {x})) \ {x})
    BY <2>1, <2>2, SumWithout
  <2>4. Total(U \cup {x}) = f[x] + Total((U \cup {x}) \ {x})
    BY <2>1, <2>2, SumWithout
  <2>5. f[x] \in Int /\ Total(U) \in Int /\ Total(S \cup U) = Total(S) + Total(U)
    BY <1>1, <1>4
  <2>. HIDE DEF Total
  <2>6. Total(S \cup (U \cup {x})) = Total(S) + Total(U \cup {x})
    <3>1. Total(S \cup (U \cup {x})) = f[x] + Total(S \cup U) /\ Total(U \cup {x}) = f[x] + Total(U)
      BY <2>1, <2>3, <2>4
    <3>2. \A a, b, c \in Int : a + (b + c) = b + (a + c)
      OBVIOUS
    <3>. QED BY <1>2, <2>5, <3>1, <3>2
  <2>. QED BY <2>1, <2>6
<1>5. T \in I
  <2>. HIDE DEF I
  <2>. QED BY <1>3, <1>4, Subsets
<1>. QED BY <1>5

(* An image of a finite set is finite.                                      *)
LEMMA FiniteImage ==
  ASSUME NEW S, IsFiniteSet(S), NEW h
  PROVE  IsFiniteSet({h[x] : x \in S})
<1>. DEFINE T == {h[x] : x \in S}
            f == [x \in S |-> h[x]]
<1>1. f \in Surjection(S, T)
  BY DEF Surjection
<1>. HIDE DEF f, T
<1>2. IsFiniteSet(T)
  BY <1>1, FS_Surjection
<1>. QED BY <1>2 DEF T

(* A one-to-one renaming of the summands keeps the sum.                     *)
LEMMA SumMoved ==
  ASSUME NEW S, IsFiniteSet(S), NEW f, NEW g, NEW h,
         \A x \in S : f[x] \in Int /\ f[x] = g[h[x]],
         \A x, y \in S : h[x] = h[y] => x = y
  PROVE  /\ IsFiniteSet({h[x] : x \in S})
         /\ SumFunctionOnSet(f, S) = SumFunctionOnSet(g, {h[x] : x \in S})
<1>. DEFINE To(U) == {h[x] : x \in U}
            I == {U \in SUBSET S : SumFunctionOnSet(f, U) = SumFunctionOnSet(g, To(U))}
<1>0. \A U \in SUBSET S : IsFiniteSet(U) /\ IsFiniteSet(To(U))
  BY FS_Subset, FiniteImage
<1>1. {} \in I
  <2>1. To({}) = {}
    OBVIOUS
  <2>. QED BY <2>1, SumEmpty
<1>2. ASSUME NEW U \in SUBSET S, U \in I, NEW x \in S \ U PROVE U \cup {x} \in I
  <2>. DEFINE V == U \cup {x}
  <2>1. V \in SUBSET S /\ x \in V /\ V \ {x} = U /\ h[x] \in To(V) /\ To(V) \ {h[x]} = To(U)
    OBVIOUS
  <2>2. IsFiniteSet(V) /\ IsFiniteSet(To(V)) /\ \A y \in V : f[y] \in Int
    BY <1>0, <2>1
  <2>3. \A y \in To(V) : g[y] \in Int
    BY <2>1
  <2>. HIDE DEF V, To
  <2>4. SumFunctionOnSet(f, V) = f[x] + SumFunctionOnSet(f, V \ {x})
    BY <2>1, <2>2, SumWithout
  <2>5. SumFunctionOnSet(g, To(V)) = g[h[x]] + SumFunctionOnSet(g, To(V) \ {h[x]})
    BY <2>1, <2>2, <2>3, SumWithout
  <2>6. SumFunctionOnSet(f, U) = SumFunctionOnSet(g, To(U))
    BY <1>2
  <2>7. f[x] = g[h[x]]
    OBVIOUS
  <2>8. SumFunctionOnSet(f, V) = SumFunctionOnSet(g, To(V))
    BY <2>1, <2>4, <2>5, <2>6, <2>7
  <2>. QED BY <2>1, <2>8 DEF V
<1>3. S \in I
  <2>. HIDE DEF I
  <2>. QED BY <1>1, <1>2, Subsets
<1>. QED BY <1>0, <1>3

(* The sum over disjoint parts is the sum of their sums.                    *)
LEMMA SumParts ==
  ASSUME NEW K, IsFiniteSet(K), NEW P, NEW f,
         \A k \in K : IsFiniteSet(P[k]) /\ \A x \in P[k] : f[x] \in Int,
         \A j, k \in K : j # k => P[j] \cap P[k] = {}
  PROVE  /\ IsFiniteSet(UNION {P[k] : k \in K})
         /\ SumFunctionOnSet(f, UNION {P[k] : k \in K})
              = SumFunctionOnSet([k \in K |-> SumFunctionOnSet(f, P[k])], K)
<1>. DEFINE All(L) == UNION {P[k] : k \in L}
            s == [k \in K |-> SumFunctionOnSet(f, P[k])]
            I == {L \in SUBSET K : /\ IsFiniteSet(All(L))
                                   /\ SumFunctionOnSet(f, All(L)) = SumFunctionOnSet(s, L)}
<1>1. {} \in I
  <2>1. All({}) = {}
    OBVIOUS
  <2>. QED BY <2>1, SumEmpty, FS_EmptySet
<1>2. \A k \in K : s[k] = SumFunctionOnSet(f, P[k]) /\ s[k] \in Int
  BY SumTyped
<1>3. ASSUME NEW L \in SUBSET K, L \in I, NEW k \in K \ L PROVE L \cup {k} \in I
  <2>. DEFINE M == L \cup {k}
  <2>1. All(M) = All(L) \cup P[k] /\ All(L) \cap P[k] = {}
    OBVIOUS
  <2>2. M \in SUBSET K /\ k \in M /\ M \ {k} = L
    OBVIOUS
  <2>3. IsFiniteSet(M) /\ \A j \in M : s[j] \in Int
    BY <1>2, <2>2, FS_Subset
  <2>4. IsFiniteSet(All(L)) /\ IsFiniteSet(P[k]) /\ \A x \in All(L) \cup P[k] : f[x] \in Int
    BY <1>3
  <2>. HIDE DEF s, M, All
  <2>5. SumFunctionOnSet(s, M) = s[k] + SumFunctionOnSet(s, L)
    BY <2>2, <2>3, SumWithout
  <2>6. SumFunctionOnSet(f, All(M)) = SumFunctionOnSet(f, All(L)) + SumFunctionOnSet(f, P[k])
    BY <2>1, <2>4, SumUnion
  <2>7. IsFiniteSet(All(M))
    <3>1. IsFiniteSet(All(L) \cup P[k])
      BY <2>4, FS_Union
    <3>. QED BY <2>1, <3>1
  <2>8. SumFunctionOnSet(s, L) \in Int
    <3>1. IsFiniteSet(L)
      BY FS_Subset
    <3>. QED BY <1>2, <3>1, SumTyped
  <2>9. s[k] = SumFunctionOnSet(f, P[k]) /\ s[k] \in Int /\ SumFunctionOnSet(f, All(L)) = SumFunctionOnSet(s, L)
    BY <1>2, <1>3
  <2>10. SumFunctionOnSet(f, All(M)) = SumFunctionOnSet(s, M)
    BY <2>5, <2>6, <2>8, <2>9
  <2>. QED BY <2>2, <2>7, <2>10 DEF M
<1>4. K \in I
  <2>. HIDE DEF I
  <2>. QED BY <1>1, <1>3, Subsets
<1>. QED BY <1>4

(* A nonempty finite set of integers has a least and a greatest member.     *)
LEMMA Extremes ==
  ASSUME NEW S, IsFiniteSet(S), S \subseteq Int, S # {}
  PROVE  /\ \E x \in S : \A y \in S : x <= y
         /\ \E x \in S : \A y \in S : x >= y
<1>. DEFINE I == {T \in SUBSET S : T # {} => /\ \E x \in T : \A y \in T : x <= y
                                             /\ \E x \in T : \A y \in T : x >= y}
<1>1. {} \in I
  OBVIOUS
<1>2. ASSUME NEW T \in SUBSET S, T \in I, NEW x \in S \ T PROVE T \cup {x} \in I
  <2>1. CASE T = {}
    BY <2>1
  <2>2. CASE T # {}
    <3>1. PICK a \in T : \A y \in T : a <= y
      BY <1>2, <2>2
    <3>2. PICK b \in T : \A y \in T : b >= y
      BY <1>2, <2>2
    <3>3. a \in Int /\ b \in Int /\ x \in Int /\ \A y \in T : y \in Int
      OBVIOUS
    <3>4. \E c \in T \cup {x} : \A y \in T \cup {x} : c <= y
      <4>1. CASE x <= a
        BY <3>1, <3>3, <4>1
      <4>2. CASE ~ (x <= a)
        BY <3>1, <3>3, <4>2
      <4>. QED BY <4>1, <4>2
    <3>5. \E c \in T \cup {x} : \A y \in T \cup {x} : c >= y
      <4>1. CASE x >= b
        BY <3>2, <3>3, <4>1
      <4>2. CASE ~ (x >= b)
        BY <3>2, <3>3, <4>2
      <4>. QED BY <4>1, <4>2
    <3>. QED BY <3>4, <3>5
  <2>. QED BY <2>1, <2>2
<1>3. S \in I
  <2>. HIDE DEF I
  <2>. QED BY <1>1, <1>2, Subsets
<1>. QED BY <1>3

-----------------------------------------------------------------------------
(* R orders S strictly and totally: what a key without ties gives sorted(). *)
TotalOn(R, S) ==
  /\ \A x \in S : <<x, x>> \notin R
  /\ \A x, y, z \in S : <<x, y>> \in R /\ <<y, z>> \in R => <<x, z>> \in R
  /\ \A x, y \in S : x # y => <<x, y>> \in R \/ <<y, x>> \in R

(* An element has more elements ahead of it than each one ahead of it.      *)
LEMMA AheadGrows ==
  ASSUME NEW S, IsFiniteSet(S), NEW R, TotalOn(R, S), NEW x \in S, NEW y \in S, <<y, x>> \in R
  PROVE  Cardinality(Ahead(R, S, y)) < Cardinality(Ahead(R, S, x))
<1>. DEFINE few == Ahead(R, S, y)
            many == Ahead(R, S, x)
<1>1. few \in SUBSET many /\ few # many
  BY DEF Ahead, TotalOn
<1>2. IsFiniteSet(many)
  BY FS_Subset DEF Ahead
<1>. HIDE DEF few, many
<1>3. IsFiniteSet(few) /\ Cardinality(few) <= Cardinality(many) /\ Cardinality(few) # Cardinality(many)
  BY <1>1, <1>2, FS_Subset
<1>4. Cardinality(few) \in Nat /\ Cardinality(many) \in Nat
  BY <1>2, <1>3, FS_CardinalityType
<1>5. Cardinality(few) < Cardinality(many)
  BY <1>3, <1>4
<1>. QED BY <1>5 DEF few, many

(* The counts of elements ahead are 0 .. |S| - 1, each one once.            *)
LEMMA Places ==
  ASSUME NEW S, IsFiniteSet(S), NEW R, TotalOn(R, S)
  PROVE  /\ Cardinality(S) \in Nat
         /\ \A x \in S : Cardinality(Ahead(R, S, x)) \in 0 .. Cardinality(S) - 1
         /\ \A x, y \in S : Cardinality(Ahead(R, S, x)) = Cardinality(Ahead(R, S, y)) => x = y
         /\ \A n \in 1 .. Cardinality(S) :
              \E x \in S : Cardinality(Ahead(R, S, x)) = n - 1
<1>. DEFINE place(x) == Cardinality(Ahead(R, S, x))
            N == Cardinality(S)
            f == [x \in S |-> place(x) + 1]
<1>1. N \in Nat
  BY FS_CardinalityType
<1>2. ASSUME NEW x \in S PROVE place(x) \in 0 .. N - 1
  <2>1. Ahead(R, S, x) \in SUBSET S /\ x \notin Ahead(R, S, x)
    BY DEF Ahead, TotalOn
  <2>2. IsFiniteSet(Ahead(R, S, x)) /\ place(x) <= N /\ place(x) # N
    BY <2>1, FS_Subset
  <2>3. place(x) \in Nat
    BY <2>2, FS_CardinalityType
  <2>. QED BY <1>1, <2>2, <2>3
<1>3. ASSUME NEW x \in S, NEW y \in S, place(x) = place(y) PROVE x = y
  <2>1. place(x) \in Int /\ place(y) \in Int
    BY <1>2
  <2>2. <<x, y>> \notin R /\ <<y, x>> \notin R
    <3>1. <<x, y>> \in R => place(x) < place(y)
      BY AheadGrows
    <3>2. <<y, x>> \in R => place(y) < place(x)
      BY AheadGrows
    <3>. HIDE DEF place
    <3>. QED BY <1>3, <2>1, <3>1, <3>2
  <2>. QED BY <2>2 DEF TotalOn
<1>. HIDE DEF place
<1>4. f \in Injection(S, 1 .. N)
  <2>1. f \in [S -> 1 .. N]
    BY <1>1, <1>2
  <2>2. \A x, y \in S : f[x] = f[y] => x = y
    BY <1>2, <1>3
  <2>. QED BY <2>1, <2>2 DEF Injection, IsInjective
<1>5. IsFiniteSet(1 .. N) /\ Cardinality(1 .. N) = N
  BY <1>1, FS_Interval
<1>6. f \in Surjection(S, 1 .. N)
  BY <1>4, <1>5, FS_Injection
<1>7. \A n \in 1 .. N : \E x \in S : place(x) = n - 1
  <2>1. \A n \in 1 .. N : \E x \in S : f[x] = n
    BY <1>6 DEF Surjection
  <2>. QED BY <1>2, <2>1
<1>. QED BY <1>1, <1>2, <1>3, <1>7 DEF place

(* InOrder lists every element of S once, and earlier elements earlier.     *)
LEMMA Sorted ==
  ASSUME NEW S, IsFiniteSet(S), NEW R, TotalOn(R, S)
  PROVE  /\ InOrder(S, R) \in [1 .. Cardinality(S) -> S]
         /\ \A n \in 1 .. Cardinality(S) : Cardinality(Ahead(R, S, InOrder(S, R)[n])) = n - 1
         /\ \A m, n \in 1 .. Cardinality(S) : <<InOrder(S, R)[m], InOrder(S, R)[n]>> \in R <=> m < n
         /\ \A x \in S : InOrder(S, R)[Cardinality(Ahead(R, S, x)) + 1] = x
<1>. DEFINE place(x) == Cardinality(Ahead(R, S, x))
            N == Cardinality(S)
            order == InOrder(S, R)
<1>1. /\ N \in Nat
      /\ \A x \in S : place(x) \in 0 .. N - 1
      /\ \A x, y \in S : place(x) = place(y) => x = y
      /\ \A n \in 1 .. N : \E x \in S : place(x) = n - 1
  BY Places
<1>2. \A x, y \in S : <<y, x>> \in R => place(y) < place(x)
  BY AheadGrows
<1>3. order = [n \in 1 .. N |-> CHOOSE x \in S : place(x) = n - 1]
  BY DEF InOrder
<1>. HIDE DEF place, order, N
<1>4. \A n \in 1 .. N : order[n] \in S /\ place(order[n]) = n - 1
  BY <1>1, <1>3
<1>5. order \in [1 .. N -> S]
  BY <1>3, <1>4
<1>6. ASSUME NEW m \in 1 .. N, NEW n \in 1 .. N
      PROVE  <<order[m], order[n]>> \in R <=> m < n
  <2>1. CASE <<order[m], order[n]>> \in R
    BY <1>2, <1>4, <2>1
  <2>2. CASE m < n
    <3>1. order[m] # order[n] /\ ~ <<order[n], order[m]>> \in R
      BY <1>1, <1>2, <1>4, <2>2
    <3>. QED BY <1>4, <2>2, <3>1 DEF TotalOn
  <2>. QED BY <2>1, <2>2
<1>7. ASSUME NEW x \in S PROVE order[place(x) + 1] = x
  <2>1. place(x) + 1 \in 1 .. N /\ (place(x) + 1) - 1 = place(x)
    BY <1>1
  <2>2. order[place(x) + 1] \in S /\ place(order[place(x) + 1]) = place(x)
    BY <1>4, <2>1
  <2>. QED BY <1>1, <2>2
<1>. QED BY <1>4, <1>5, <1>6, <1>7 DEF place, order, N

(* A nonempty sum of positive numbers is positive.                          *)
LEMMA SumPositive ==
  ASSUME NEW f, NEW S, IsFiniteSet(S), S # {}, \A x \in S : f[x] \in Nat \ {0}
  PROVE  SumFunctionOnSet(f, S) > 0
<1>1. PICK x \in S : SumFunctionOnSet(f, S) = f[x] + SumFunctionOnSet(f, S \ {x})
  BY SumChosen
<1>2. SumFunctionOnSet(f, S \ {x}) \in Nat
  BY OneLess, SumTyped
<1>. QED BY <1>1, <1>2

(* A nonempty set of naturals has a least member.                           *)
LEMMA LeastNumber ==
  ASSUME NEW S, S \subseteq Nat, S # {}
  PROVE  \E n \in S : \A m \in S : n <= m
<1>1. PICK n \in S : \A m \in S : ~ (<<m, n>> \in OpToRel(<, Nat))
  BY NatLessThanWellFounded, WFMin
<1>2. \A m \in S : ~ m < n
  BY <1>1 DEF OpToRel
<1>. QED BY <1>2

(* The batch min() picks exists, and none is lighter.                       *)
LEMMA LightestIs ==
  ASSUME NEW k \in Nat, k >= 1, NEW load, load \in [1 .. k -> Nat]
  PROVE  Lightest(load) \in 1 .. k /\ \A c \in 1 .. k : load[Lightest(load)] <= load[c]
<1>1. PICK c \in 1 .. k : \A b \in 1 .. k : load[c] <= load[b]
  <2>. DEFINE values == {load[c] : c \in 1 .. k}
  <2>1. values \subseteq Nat /\ load[1] \in values
    OBVIOUS
  <2>2. PICK v \in values : \A w \in values : v <= w
    BY <2>1, LeastNumber
  <2>. QED BY <2>2
<1>. DEFINE least == {b \in 1 .. k : load[b] = load[c]}
<1>2. least \subseteq Nat /\ c \in least
  OBVIOUS
<1>3. PICK b \in least : \A d \in least : b <= d
  <2>. HIDE DEF least
  <2>. QED BY <1>2, LeastNumber
<1>4. \A d \in 1 .. k : (load[b] < load[d] \/ (load[b] = load[d] /\ b <= d))
  BY <1>1, <1>3
<1>5. DOMAIN load = 1 .. k
  OBVIOUS
<1>. DEFINE wanted(a) == \A d \in 1 .. k : (load[a] < load[d] \/ (load[a] = load[d] /\ a <= d))
<1>6. Lightest(load) = CHOOSE a \in 1 .. k : wanted(a)
  BY <1>5 DEF Lightest
<1>7. wanted(b) /\ b \in 1 .. k
  BY <1>4
<1>8. Lightest(load) \in 1 .. k /\ wanted(Lightest(load))
  <2>. HIDE DEF wanted
  <2>. QED BY <1>6, <1>7
<1>. DEFINE a == Lightest(load)
<1>9. a \in 1 .. k /\ \A d \in 1 .. k : (load[a] < load[d] \/ (load[a] = load[d] /\ a <= d))
  BY <1>8
<1>. HIDE DEF a
<1>10. ASSUME NEW d \in 1 .. k PROVE load[a] <= load[d]
  <2>1. load[a] \in Nat /\ load[d] \in Nat
    BY <1>9
  <2>2. load[a] < load[d] \/ load[a] = load[d]
    BY <1>9
  <2>3. \A v, w \in Nat : v < w \/ v = w => v <= w
    OBVIOUS
  <2>. QED BY <2>1, <2>2, <2>3
<1>. QED BY <1>9, <1>10 DEF a

-----------------------------------------------------------------------------
(* The recursion that defines the loads has the values it describes.        *)
LEMMA LoadsAre ==
  ASSUME NEW digests, IsFiniteSet(digests), NEW size, NEW count,
         NEW N, N = Cardinality(digests), Len(BySize(digests, size)) = N,
         NEW order, order = BySize(digests, size),
         NEW full, full = Loads(digests, size, count)
  PROVE  full = [n \in 0 .. N |->
                    IF n = 0 THEN [b \in 1 .. BatchCount(digests, count) |-> 0]
                    ELSE [full[n - 1] EXCEPT ![Lightest(full[n - 1])] = @ + size[order[n]]]]
<1>. DEFINE zero == [b \in 1 .. BatchCount(digests, count) |-> 0]
            more(load, n) == [load EXCEPT ![Lightest(load)] = @ + size[order[n]]]
            Goes(load, m) == load = [n \in 0 .. m |-> IF n = 0 THEN zero ELSE more(load[n - 1], n)]
            J == {m \in Nat : \E load : Goes(load, m)}
<1>0. N \in Nat
  BY FS_CardinalityType
<1>1. 0 \in J
  <2>. DEFINE first == [n \in 0 .. 0 |-> zero]
  <2>. HIDE DEF more, zero
  <2>1. first = [n \in 0 .. 0 |-> IF n = 0 THEN zero ELSE more(first[n - 1], n)]
    <3>1. \A n \in 0 .. 0 : n = 0
      OBVIOUS
    <3>. QED BY <3>1
  <2>. QED BY <2>1
<1>2. ASSUME NEW m \in Nat, m \in J PROVE m + 1 \in J
  <2>1. PICK load : Goes(load, m)
    BY <1>2
  <2>. DEFINE next == [n \in 0 .. m + 1 |-> IF n = 0 THEN zero ELSE more(load[n - 1], n)]
  <2>. HIDE DEF more, zero
  <2>2. \A n \in 0 .. m : next[n] = load[n]
    BY <2>1
  <2>3. \A n \in 0 .. m + 1 : n # 0 => n - 1 \in 0 .. m
    OBVIOUS
  <2>4. next = [n \in 0 .. m + 1 |-> IF n = 0 THEN zero ELSE more(next[n - 1], n)]
    BY <2>2, <2>3
  <2>. HIDE DEF next
  <2>. QED BY <2>4
<1>3. N \in J
  <2>. HIDE DEF J
  <2>. QED BY <1>0, <1>1, <1>2, EveryNumber
<1>4. PICK load : Goes(load, N)
  BY <1>3
<1>5. Loads(digests, size, count) = CHOOSE w : Goes(w, N)
  BY DEF Loads
<1>. HIDE DEF Goes
<1>6. Goes(Loads(digests, size, count), N)
  BY <1>4, <1>5
<1>. QED BY <1>6 DEF Goes

-----------------------------------------------------------------------------
(* The key (-size, path), as a set of pairs.                                *)
BySizePairs(digests, size) ==
  {p \in digests \X digests :
      \/ size[p[1]] > size[p[2]]
      \/ size[p[1]] = size[p[2]] /\ p[1] < p[2]}

(* A listing of the digests, each once, no smaller one before a larger one. *)
ListsBySize(order, digests, size, N) ==
  /\ N \in Nat
  /\ order \in [1 .. N -> digests] /\ order \in Seq(digests) /\ Len(order) = N
  /\ \A m, n \in 1 .. N : order[m] = order[n] => m = n
  /\ \A d \in digests : \E n \in 1 .. N : order[n] = d
  /\ \A m, n \in 1 .. N : m < n => size[order[m]] >= size[order[n]]

(* sized.sort lists the digests by descending size.                         *)
LEMMA BySizeIs ==
  ASSUME NEW digests, IsFiniteSet(digests), digests \subseteq Int,
         NEW size, \A d \in digests : size[d] \in Nat
  PROVE  ListsBySize(BySize(digests, size), digests, size, Cardinality(digests))
<1>. DEFINE R == BySizePairs(digests, size)
            order == BySize(digests, size)
            N == Cardinality(digests)
<1>0. \A x, y \in digests :
        <<x, y>> \in R <=> (size[x] > size[y] \/ (size[x] = size[y] /\ x < y))
  BY DEF BySizePairs
<1>1. order = InOrder(digests, R)
  BY DEF BySize, BySizePairs
<1>2. TotalOn(R, digests)
  <2>. HIDE DEF R
  <2>1. \A x \in digests : <<x, x>> \notin R
    BY <1>0
  <2>2. ASSUME NEW x \in digests, NEW y \in digests, NEW z \in digests,
               <<x, y>> \in R, <<y, z>> \in R
        PROVE  <<x, z>> \in R
    <3>1. size[x] \in Nat /\ size[y] \in Nat /\ size[z] \in Nat /\ x \in Int /\ y \in Int /\ z \in Int
      OBVIOUS
    <3>2. (size[x] > size[y] \/ (size[x] = size[y] /\ x < y)) /\ (size[y] > size[z] \/ (size[y] = size[z] /\ y < z))
      BY <1>0, <2>2
    <3>3. size[x] > size[z] \/ (size[x] = size[z] /\ x < z)
      BY <3>1, <3>2
    <3>. QED BY <1>0, <3>3
  <2>3. ASSUME NEW x \in digests, NEW y \in digests, x # y
        PROVE  <<x, y>> \in R \/ <<y, x>> \in R
    <3>1. size[x] \in Nat /\ size[y] \in Nat /\ x \in Int /\ y \in Int
      OBVIOUS
    <3>2. size[x] > size[y] \/ size[y] > size[x] \/ (size[x] = size[y] /\ (x < y \/ y < x))
      BY <2>3, <3>1
    <3>. QED BY <1>0, <3>2
  <2>. QED BY <2>1, <2>2, <2>3 DEF TotalOn
<1>. HIDE DEF R, order, N
<1>3. /\ N \in Nat
      /\ order \in [1 .. N -> digests]
      /\ \A m, n \in 1 .. N : <<order[m], order[n]>> \in R <=> m < n
  BY <1>1, <1>2, Sorted, FS_CardinalityType DEF N
<1>4. \A d \in digests : \E n \in 1 .. N : order[n] = d
  <2>1. \A x \in digests : order[Cardinality(Ahead(R, digests, x)) + 1] = x
    BY <1>1, <1>2, Sorted
  <2>2. \A x \in digests : Cardinality(Ahead(R, digests, x)) \in 0 .. N - 1
    BY <1>2, Places DEF N
  <2>3. \A x \in digests : Cardinality(Ahead(R, digests, x)) + 1 \in 1 .. N
    BY <1>3, <2>2
  <2>. QED BY <2>1, <2>3
<1>5. \A m, n \in 1 .. N : order[m] = order[n] => m = n
  <2>. SUFFICES ASSUME NEW m \in 1 .. N, NEW n \in 1 .. N, order[m] = order[n] PROVE m = n
    OBVIOUS
  <2>1. ~ m < n /\ ~ n < m
    BY <1>2, <1>3 DEF TotalOn
  <2>. QED BY <1>3, <2>1
<1>6. \A m, n \in 1 .. N : m < n => size[order[m]] >= size[order[n]]
  <2>. SUFFICES ASSUME NEW m \in 1 .. N, NEW n \in 1 .. N, m < n
                PROVE  size[order[m]] >= size[order[n]]
    OBVIOUS
  <2>1. order[m] \in digests /\ order[n] \in digests /\ <<order[m], order[n]>> \in R
    BY <1>3
  <2>2. size[order[m]] > size[order[n]] \/ size[order[m]] = size[order[n]]
    BY <1>0, <2>1
  <2>3. size[order[m]] \in Nat /\ size[order[n]] \in Nat
    BY <2>1
  <2>4. \A v, w \in Nat : v > w \/ v = w => v >= w
    OBVIOUS
  <2>. QED BY <2>2, <2>3, <2>4
<1>7. order \in Seq(digests) /\ Len(order) = N
  BY <1>3
<1>. QED BY <1>3, <1>4, <1>5, <1>6, <1>7 DEF order, N, ListsBySize

(* Digests that were measured: at least one, none of them empty, at least one *)
(* miner batch to share them among.                                         *)
Measured(digests, size, count) ==
  /\ IsFiniteSet(digests) /\ digests \subseteq Int /\ digests # {}
  /\ \A d \in digests : size[d] \in Nat \ {0}
  /\ count \in Nat \ {0}

(* The same, for measured digests.                                          *)
LEMMA Listed ==
  ASSUME NEW digests, NEW size, NEW count, Measured(digests, size, count)
  PROVE  ListsBySize(BySize(digests, size), digests, size, Cardinality(digests))
<1>1. \A d \in digests : size[d] \in Nat
  BY DEF Measured
<1>2. IsFiniteSet(digests) /\ digests \subseteq Int
  BY DEF Measured
<1>. QED BY <1>1, <1>2, BySizeIs

(* Loads of k batches that start empty and take, digest by digest, its size *)
(* in the lightest batch.                                                   *)
Fills(load, order, size, N, k) ==
  /\ N \in Nat /\ k \in 1 .. N
  /\ load[0] = [b \in 1 .. k |-> 0]
  /\ \A n \in 0 .. N : load[n] \in [1 .. k -> Nat]
  /\ \A n \in 1 .. N :
       /\ n - 1 \in 0 .. N
       /\ Lightest(load[n - 1]) \in 1 .. k
       /\ \A c \in 1 .. k : load[n - 1][Lightest(load[n - 1])] <= load[n - 1][c]
       /\ load[n] = [load[n - 1] EXCEPT ![Lightest(load[n - 1])] = @ + size[order[n]]]

(* The loads of the loop do.                                                *)
LEMMA Loaded ==
  ASSUME NEW digests, NEW size, NEW count, Measured(digests, size, count)
  PROVE  Fills(Loads(digests, size, count), BySize(digests, size), size,
               Cardinality(digests), BatchCount(digests, count))
<1>. DEFINE N == Cardinality(digests)
            k == BatchCount(digests, count)
            order == BySize(digests, size)
            load == Loads(digests, size, count)
<1>1. N \in Nat /\ k \in 1 .. N
  BY FS_CardinalityType, FS_EmptySet DEF Measured, BatchCount
<1>2. order \in [1 .. N -> digests] /\ Len(order) = N
  BY Listed DEF ListsBySize
<1>3. load = [n \in 0 .. N |->
                IF n = 0 THEN [b \in 1 .. k |-> 0]
                ELSE [load[n - 1] EXCEPT ![Lightest(load[n - 1])] = @ + size[order[n]]]]
  BY <1>2, LoadsAre DEF Measured
<1>. HIDE DEF order, load, N, k
<1>4. load[0] = [b \in 1 .. k |-> 0]
  BY <1>1, <1>3
<1>5. \A n \in 1 .. N : n - 1 \in 0 .. N /\ n \in 0 .. N /\ n # 0
  BY <1>1
<1>6. \A n \in 1 .. N : load[n] = [load[n - 1] EXCEPT ![Lightest(load[n - 1])] = @ + size[order[n]]]
  BY <1>3, <1>5
<1>7. \A w \in [1 .. k -> Nat] : Lightest(w) \in 1 .. k /\ \A c \in 1 .. k : w[Lightest(w)] <= w[c]
  <2>1. k \in Nat /\ k >= 1
    BY <1>1
  <2>. QED BY <2>1, LightestIs
<1>. DEFINE J == {n \in Nat : n <= N => load[n] \in [1 .. k -> Nat]}
<1>8. 0 \in J
  BY <1>4
<1>9. ASSUME NEW n \in Nat, n \in J PROVE n + 1 \in J
  <2>. SUFFICES ASSUME n + 1 <= N PROVE load[n + 1] \in [1 .. k -> Nat]
    OBVIOUS
  <2>1. n + 1 \in 1 .. N /\ (n + 1) - 1 = n
    BY <1>1
  <2>2. load[n] \in [1 .. k -> Nat]
    BY <1>1, <1>9
  <2>3. order[n + 1] \in digests
    BY <1>2, <2>1
  <2>4. size[order[n + 1]] \in Nat
    BY <2>3 DEF Measured
  <2>5. load[n + 1] = [load[n] EXCEPT ![Lightest(load[n])] = @ + size[order[n + 1]]]
    BY <1>6, <2>1
  <2>6. Lightest(load[n]) \in 1 .. k
    BY <1>7, <2>2
  <2>7. load[n][Lightest(load[n])] + size[order[n + 1]] \in Nat
    <3>1. load[n][Lightest(load[n])] \in Nat
      BY <2>2, <2>6
    <3>2. \A v, w \in Nat : v + w \in Nat
      OBVIOUS
    <3>. QED BY <2>4, <3>1, <3>2
  <2>. QED BY <2>2, <2>5, <2>6, <2>7
<1>10. \A n \in 0 .. N : load[n] \in [1 .. k -> Nat]
  <2>1. Nat \subseteq J
    <3>. HIDE DEF J
    <3>. QED BY <1>8, <1>9, EveryNumber
  <2>. QED BY <1>1, <2>1
<1>. QED BY <1>1, <1>4, <1>5, <1>6, <1>7, <1>10 DEF order, load, N, k, Fills

(* The batches start empty, and each digest joins the lightest one.         *)
LEMMA BatchesGrow ==
  ASSUME NEW digests, NEW size, NEW count, Measured(digests, size, count),
         NEW order, order = BySize(digests, size),
         NEW load, load = Loads(digests, size, count)
  PROVE  /\ BatchesAfter(0, digests, size, count) = [b \in 1 .. BatchCount(digests, count) |-> {}]
         /\ \A n \in 1 .. Cardinality(digests) :
              BatchesAfter(n, digests, size, count)
                = [BatchesAfter(n - 1, digests, size, count)
                     EXCEPT ![Lightest(load[n - 1])] = @ \cup {order[n]}]
<1>. DEFINE N == Cardinality(digests)
            k == BatchCount(digests, count)
            After(n) == BatchesAfter(n, digests, size, count)
            target(i) == Lightest(load[i - 1])
<1>0. Fills(load, order, size, N, k)
  BY Loaded
<1>1. \A n : After(n) = [b \in 1 .. k |-> {order[m] : m \in {i \in 1 .. n : target(i) = b}}]
  BY DEF BatchesAfter
<1>. HIDE DEF N, k, After
<1>2. After(0) = [b \in 1 .. k |-> {}]
  <2>1. 1 .. 0 = {}
    OBVIOUS
  <2>. QED BY <1>1, <2>1
<1>3. N \in Nat /\ \A n \in 1 .. N : target(n) \in 1 .. k
  BY <1>0 DEF Fills
<1>. HIDE DEF target
<1>4. ASSUME NEW n \in 1 .. N
      PROVE  After(n) = [After(n - 1) EXCEPT ![target(n)] = @ \cup {order[n]}]
  <2>1. 1 .. n = (1 .. n - 1) \cup {n} /\ n \notin 1 .. n - 1
    BY <1>3
  <2>2. \A b \in 1 .. k :
          {i \in 1 .. n : target(i) = b}
            = {i \in 1 .. n - 1 : target(i) = b} \cup (IF target(n) = b THEN {n} ELSE {})
    BY <2>1
  <2>. DEFINE given(m, b) == {order[i] : i \in {i \in 1 .. m : target(i) = b}}
  <2>3. ASSUME NEW b \in 1 .. k
        PROVE  given(n, b) = IF b = target(n) THEN given(n - 1, b) \cup {order[n]} ELSE given(n - 1, b)
    BY <2>2
  <2>4. /\ After(n) = [b \in 1 .. k |-> given(n, b)]
        /\ After(n - 1) = [b \in 1 .. k |-> given(n - 1, b)]
    BY <1>1
  <2>. HIDE DEF given
  <2>. QED BY <1>3, <2>3, <2>4
<1>. QED BY <1>2, <1>4 DEF After, target, N, k

(* No batch becomes lighter.                                                *)
LEMMA LoadsGrow ==
  ASSUME NEW load, NEW order, NEW size, NEW N, NEW k, Fills(load, order, size, N, k),
         \A n \in 1 .. N : size[order[n]] \in Nat,
         NEW n \in 0 .. N, NEW m \in 0 .. n, NEW b \in 1 .. k
  PROVE  load[m][b] <= load[n][b]
<1>. DEFINE J == {i \in Nat : m + i <= N => load[m][b] <= load[m + i][b]}
<1>1. /\ N \in Nat
      /\ \A i \in 1 .. N : load[i] = [load[i - 1] EXCEPT ![Lightest(load[i - 1])] = @ + size[order[i]]]
      /\ \A i \in 0 .. N : load[i] \in [1 .. k -> Nat]
  BY DEF Fills
<1>3. 0 \in J
  <2>1. m + 0 = m /\ m \in 0 .. N
    BY <1>1
  <2>. HIDE DEF J
  <2>2. load[m] \in [1 .. k -> Nat]
    BY <1>1, <2>1
  <2>3. load[m][b] \in Nat
    BY <2>2
  <2>4. load[m + 0] = load[m] /\ load[m][b] <= load[m][b]
    BY <2>1, <2>3
  <2>. QED BY <2>4 DEF J
<1>4. ASSUME NEW i \in Nat, i \in J PROVE i + 1 \in J
  <2>. SUFFICES ASSUME m + (i + 1) <= N PROVE load[m][b] <= load[m + (i + 1)][b]
    OBVIOUS
  <2>. DEFINE j == m + i
  <2>1. j \in 0 .. N /\ j + 1 \in 1 .. N /\ (j + 1) - 1 = j /\ m + (i + 1) = j + 1 /\ m \in 0 .. N
        /\ j + 1 \in 0 .. N
    BY <1>1
  <2>2. load[m][b] <= load[j][b]
    BY <1>4, <2>1
  <2>. HIDE DEF j
  <2>3. load[j + 1] = [load[j] EXCEPT ![Lightest(load[j])] = @ + size[order[j + 1]]]
    BY <1>1, <2>1
  <2>4. load[j] \in [1 .. k -> Nat] /\ load[j][b] \in Nat /\ load[m][b] \in Nat
    <3>1. load[j] \in [1 .. k -> Nat] /\ load[m] \in [1 .. k -> Nat]
      BY <1>1, <2>1
    <3>. QED BY <3>1
  <2>5. load[j + 1][b] = load[j][b] \/ load[j + 1][b] = load[j][b] + size[order[j + 1]]
    BY <2>3, <2>4
  <2>6. \A u, v, w, s \in Nat : u <= v /\ (w = v \/ w = v + s) => u <= w
    OBVIOUS
  <2>7. load[j + 1] \in [1 .. k -> Nat]
    BY <1>1, <2>1
  <2>8. load[j + 1][b] \in Nat
    BY <2>7
  <2>. QED BY <2>1, <2>2, <2>4, <2>5, <2>6, <2>8
<1>5. Nat \subseteq J
  <2>. HIDE DEF J
  <2>. QED BY <1>3, <1>4, EveryNumber
<1>6. n - m \in Nat /\ m + (n - m) = n /\ n <= N
  BY <1>1
<1>. QED BY <1>5, <1>6

-----------------------------------------------------------------------------
(* Every digest is in exactly one batch: the coverage check of the plan the *)
(* loop computes cannot fail.                                               *)
LEMMA BatchesPartition ==
  ASSUME NEW digests, NEW size, NEW count, Measured(digests, size, count)
  PROVE  /\ DOMAIN Batches(digests, size, count) = 1 .. BatchCount(digests, count)
         /\ IsPartition(Batches(digests, size, count), digests)
<1>. DEFINE N == Cardinality(digests)
            k == BatchCount(digests, count)
            order == BySize(digests, size)
            load == Loads(digests, size, count)
            target(i) == Lightest(load[i - 1])
            given == Batches(digests, size, count)
<1>1. given = [b \in 1 .. k |-> {order[m] : m \in {i \in 1 .. N : target(i) = b}}]
  BY DEF Batches, BatchesAfter
<1>2. \A n \in 1 .. N : target(n) \in 1 .. k
  BY Loaded DEF Fills
<1>3. /\ order \in [1 .. N -> digests]
      /\ \A m, n \in 1 .. N : order[m] = order[n] => m = n
      /\ \A d \in digests : \E n \in 1 .. N : order[n] = d
  <2>1. ListsBySize(order, digests, size, N)
    BY Listed
  <2>. HIDE DEF N, order
  <2>. QED BY <2>1 DEF ListsBySize
<1>. HIDE DEF N, k, order, target, given
<1>4. ASSUME NEW b \in 1 .. k, NEW c \in 1 .. k, NEW d \in given[b] \cap given[c] PROVE b = c
  <2>1. PICK m \in 1 .. N : target(m) = b /\ order[m] = d
    BY <1>1
  <2>2. PICK n \in 1 .. N : target(n) = c /\ order[n] = d
    BY <1>1
  <2>. QED BY <1>3, <2>1, <2>2
<1>5. \A b \in 1 .. k : given[b] \subseteq digests
  BY <1>1, <1>3
<1>6. ASSUME NEW d \in digests PROVE \E b \in 1 .. k : d \in given[b]
  <2>1. PICK n \in 1 .. N : order[n] = d
    BY <1>3
  <2>. QED BY <1>1, <1>2, <2>1
<1>7. DOMAIN given = 1 .. k
  BY <1>1
<1>8. \A b, c \in DOMAIN given : b # c => given[b] \cap given[c] = {}
  BY <1>4, <1>7
<1>9. UNION {given[b] : b \in DOMAIN given} = digests
  BY <1>5, <1>6, <1>7
<1>. QED BY <1>7, <1>8, <1>9 DEF IsPartition, given, k

(* No batch is left empty: there are at most as many batches as digests, and *)
(* an empty batch is lighter than any with a digest.                        *)
LEMMA NoBatchIsEmpty ==
  ASSUME NEW digests, NEW size, NEW count, Measured(digests, size, count),
         NEW b \in 1 .. BatchCount(digests, count)
  PROVE  TotalBytes(Batches(digests, size, count)[b], size) > 0
<1>. DEFINE N == Cardinality(digests)
            k == BatchCount(digests, count)
            order == BySize(digests, size)
            load == Loads(digests, size, count)
            target(i) == Lightest(load[i - 1])
            given == Batches(digests, size, count)
<1>1. given = [c \in 1 .. k |-> {order[m] : m \in {i \in 1 .. N : target(i) = c}}]
  BY DEF Batches, BatchesAfter
<1>2. Fills(load, order, size, N, k)
  BY Loaded
<1>3. order \in [1 .. N -> digests]
  BY Listed DEF ListsBySize
<1>4. \A d \in digests : size[d] \in Nat /\ size[d] > 0
  BY DEF Measured
<1>5. b \in 1 .. k
  OBVIOUS
<1>. HIDE DEF N, k, order, load, given, target
<1>6. /\ N \in Nat /\ k \in Nat
      /\ load[0] = [c \in 1 .. k |-> 0]
      /\ \A n \in 0 .. N : load[n] \in [1 .. k -> Nat]
  BY <1>2 DEF Fills
<1>7. \A n \in 1 .. N :
        /\ n - 1 \in 0 .. N
        /\ target(n) \in 1 .. k
        /\ \A c \in 1 .. k : load[n - 1][target(n)] <= load[n - 1][c]
        /\ load[n] = [load[n - 1] EXCEPT ![target(n)] = @ + size[order[n]]]
  BY <1>2 DEF Fills, target
<1>8. given[b] # {}
  <2>. SUFFICES ASSUME given[b] = {} PROVE FALSE
    OBVIOUS
  <2>1. \A i \in 1 .. N : target(i) # b
    BY <1>1, <1>5
  <2>. DEFINE J == {n \in Nat : n <= N => load[n][b] = 0}
  <2>2. 0 \in J
    BY <1>5, <1>6
  <2>3. ASSUME NEW n \in Nat, n \in J PROVE n + 1 \in J
    <3>. SUFFICES ASSUME n + 1 <= N PROVE load[n + 1][b] = 0
      OBVIOUS
    <3>1. n + 1 \in 1 .. N /\ (n + 1) - 1 = n /\ n \in 0 .. N
      BY <1>6
    <3>2. load[n][b] = 0
      BY <1>6, <2>3
    <3>3. load[n + 1] = [load[n] EXCEPT ![target(n + 1)] = @ + size[order[n + 1]]]
      BY <1>7, <3>1
    <3>. QED BY <1>5, <1>6, <2>1, <3>1, <3>2, <3>3
  <2>4. \A n \in 0 .. N : load[n][b] = 0
    <3>1. Nat \subseteq J
      <4>. HIDE DEF J
      <4>. QED BY <2>2, <2>3, EveryNumber
    <3>. QED BY <1>6, <3>1
  <2>5. ASSUME NEW n \in 1 .. N PROVE load[n - 1][target(n)] = 0
    <3>1. n - 1 \in 0 .. N /\ target(n) \in 1 .. k /\ load[n - 1][b] = 0
      BY <1>7, <2>4
    <3>2. load[n - 1][target(n)] <= load[n - 1][b]
      BY <1>5, <1>7
    <3>3. load[n - 1][target(n)] \in Nat
      BY <1>6, <3>1
    <3>. QED BY <3>1, <3>2, <3>3
  <2>6. ASSUME NEW n \in 1 .. N PROVE load[n][target(n)] > 0
    <3>1. /\ n - 1 \in 0 .. N /\ target(n) \in 1 .. k
          /\ load[n] = [load[n - 1] EXCEPT ![target(n)] = @ + size[order[n]]]
      BY <1>7
    <3>2. load[n][target(n)] = 0 + size[order[n]]
      BY <1>6, <2>5, <3>1
    <3>3. size[order[n]] \in Nat /\ size[order[n]] > 0
      BY <1>3, <1>4
    <3>. QED BY <3>2, <3>3
  <2>7. ASSUME NEW m \in 1 .. N, NEW n \in 1 .. N, m < n PROVE target(m) # target(n)
    <3>. DEFINE l == n - 1
                c == target(m)
    <3>1. l \in 0 .. N /\ m \in 0 .. l /\ m \in 0 .. N
      BY <1>6, <2>7
    <3>2. c \in 1 .. k /\ load[m][c] > 0
      BY <1>7, <2>6
    <3>3. load[m][c] \in Nat /\ load[l][c] \in Nat
      BY <1>6, <3>1, <3>2
    <3>4. \A u, v \in Nat : u <= v /\ u > 0 => v # 0
      OBVIOUS
    <3>. HIDE DEF l, c
    <3>5. load[m][c] <= load[l][c]
      <4>1. \A i \in 1 .. N : size[order[i]] \in Nat
        BY <1>3, <1>4
      <4>. QED BY <1>2, <3>1, <3>2, <4>1, LoadsGrow
    <3>6. load[l][c] # 0
      BY <3>2, <3>3, <3>4, <3>5
    <3>. QED BY <2>5, <3>6 DEF l, c
  <2>. DEFINE f == [n \in 1 .. N |-> target(n)]
              others == (1 .. k) \ {b}
  <2>8. f \in Injection(1 .. N, others)
    <3>1. f \in [1 .. N -> others]
      BY <1>7, <2>1
    <3>2. \A m, n \in 1 .. N : f[m] = f[n] => m = n
      BY <1>6, <2>7
    <3>. QED BY <3>1, <3>2 DEF Injection, IsInjective
  <2>9. IsFiniteSet(1 .. N) /\ Cardinality(1 .. N) = N
    <3>1. N \in Nat
      BY <1>6
    <3>. QED BY <3>1, FS_Interval
  <2>10. IsFiniteSet(others) /\ Cardinality(others) = k - 1
    <3>1. IsFiniteSet(1 .. k) /\ Cardinality(1 .. k) = k
      <4>1. k \in Nat
        BY <1>6
      <4>. QED BY <4>1, FS_Interval
    <3>2. IsFiniteSet((1 .. k) \ {b}) /\ Cardinality((1 .. k) \ {b}) = Cardinality(1 .. k) - 1
      BY <1>5, <3>1, OneLess
    <3>. QED BY <3>1, <3>2
  <2>. HIDE DEF f, others
  <2>11. N <= k - 1
    BY <2>8, <2>9, <2>10, FS_Injection
  <2>. QED BY <1>2, <2>11 DEF Fills
<1>9. given[b] \subseteq digests
  BY <1>1, <1>3, <1>5
<1>10. IsFiniteSet(given[b]) /\ \A d \in given[b] : size[d] \in Nat \ {0}
  BY <1>4, <1>9, FS_Subset DEF Measured
<1>11. SumFunctionOnSet(size, given[b]) > 0
  BY <1>8, <1>10, SumPositive
<1>. QED BY <1>11 DEF TotalBytes, given
=============================================================================
