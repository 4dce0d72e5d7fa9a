-------------------------------- MODULE Sums --------------------------------
(***************************************************************************)
(* Sums over finite sets (MapThenSumSet), for the proofs that count money  *)
(* and messages: what a sum is for the empty set, for one element more and *)
(* for two sets, and when two sums are the same.  A sum is a fold, which   *)
(* is a recursive function on the subsets of the set; each lemma takes a   *)
(* smallest set that would contradict it.                                  *)
(***************************************************************************)
EXTENDS Naturals, FiniteSetsExt, FiniteSetTheorems, WellFoundedInduction, TLAPS

SumOf(f, S) == MapThenSumSet(LAMBDA x : f[x], S)

\* The element that the fold takes first, and what makes a function the fold.
Leading(s) == CHOOSE x \in s : TRUE
IsSum(it, f, S) ==
    it = [s \in SUBSET S |-> IF s = {} THEN 0 ELSE f[Leading(s)] + it[s \ {Leading(s)}]]

-----------------------------------------------------------------------------
(* The fold                                                                *)

(* A set of natural numbers that is not empty has a least element.          *)
LEMMA LeastNumber == ASSUME NEW B \in SUBSET Nat, B # {} PROVE \E n \in B : \A m \in B : n <= m
<1> DEFINE R == {p \in Nat \X Nat : p[1] < p[2]}
<1>1. IsWellFoundedOn(R, Nat)
  BY NatLessThanWellFounded DEF OpToRel
<1>2. \A m, n \in Nat : <<m, n>> \notin R => n <= m
  OBVIOUS
<1> HIDE DEF R
<1>3. PICK n \in B : \A m \in B : ~(<<m, n>> \in R)
  BY <1>1, WFMin
<1>4. QED
  BY <1>2, <1>3

(* The element taken first is one of the set's, and leaves a smaller set.   *)
LEMMA FirstOf ==
    ASSUME NEW S, IsFiniteSet(S), S # {}
    PROVE  /\ Leading(S) \in S /\ IsFiniteSet(S \ {Leading(S)})
           /\ Cardinality(S) \in Nat /\ Cardinality(S \ {Leading(S)}) \in Nat
           /\ Cardinality(S) = Cardinality(S \ {Leading(S)}) + 1
<1>1. Leading(S) \in S
  BY DEF Leading
<1>2. QED
  BY <1>1, FS_CardinalityType, FS_RemoveElement

(* A fold exists: on the subsets of at most n elements for every n.         *)
LEMMA SumExists == ASSUME NEW f, NEW S, IsFiniteSet(S) PROVE \E it : IsSum(it, f, S)
<1> DEFINE Upto(n) == {s \in SUBSET S : Cardinality(s) <= n}
           Fold(g, n) == g = [s \in Upto(n) |-> IF s = {} THEN 0 ELSE f[Leading(s)] + g[s \ {Leading(s)}]]
           Bad == {n \in Nat : ~\E g : Fold(g, n)}
<1>1. \A s \in SUBSET S : IsFiniteSet(s) /\ Cardinality(s) \in Nat
  BY FS_Subset, FS_CardinalityType
<1>a. Bad \subseteq Nat /\ \A n \in Nat \ Bad : \E g : Fold(g, n)
  OBVIOUS
<1>b. \A n \in Nat : \A g : Fold(g, n) => n \notin Bad
  OBVIOUS
<1> HIDE DEF Bad
<1>2. Bad = {}
  <2> SUFFICES ASSUME Bad # {} PROVE FALSE
    OBVIOUS
  <2>1. PICK n \in Bad : \A m \in Bad : n <= m
    BY <1>a, LeastNumber
  <2>2. CASE n = 0
    <3> DEFINE g == [s \in Upto(0) |-> 0]
    <3>1. \A s \in Upto(0) : s = {}
      BY <1>1, FS_EmptySet
    <3>2. Fold(g, 0)
      BY <3>1
    <3>3. QED
      BY <1>b, <2>1, <2>2, <3>2
  <2>3. CASE n > 0
    <3>1. n \in Nat /\ n - 1 \in Nat /\ n - 1 \notin Bad
      BY <1>a, <2>1, <2>3
    <3>2. PICK g : Fold(g, n - 1)
      BY <1>a, <3>1
    <3> DEFINE h == [s \in Upto(n) |-> IF s = {} THEN 0 ELSE f[Leading(s)] + g[s \ {Leading(s)}]]
    <3>3. \A r \in Upto(n - 1) : r \in Upto(n)
      BY <1>1, <3>1
    <3>4. \A r \in Upto(n - 1) : g[r] = IF r = {} THEN 0 ELSE f[Leading(r)] + g[r \ {Leading(r)}]
      BY <3>2, Zenon
    <3>5. \A r \in Upto(n - 1) : h[r] = g[r]
      BY <3>3, <3>4, Zenon
    <3>6. \A s \in Upto(n) : s # {} => s \ {Leading(s)} \in Upto(n - 1)
      BY <1>1, <3>1, FirstOf
    <3>7. \A s \in Upto(n) : h[s] = IF s = {} THEN 0 ELSE f[Leading(s)] + h[s \ {Leading(s)}]
      BY <3>5, <3>6, Zenon
    <3>8. Fold(h, n)
      BY <3>7, Zenon
    <3>9. QED
      BY <1>b, <2>1, <3>1, <3>8
  <2>4. QED
    BY <1>a, <2>1, <2>2, <2>3
<1>3. Cardinality(S) \in Nat /\ Upto(Cardinality(S)) = SUBSET S
  BY FS_Subset, FS_CardinalityType
<1>4. PICK g : Fold(g, Cardinality(S))
  BY <1>a, <1>2, <1>3
<1>5. IsSum(g, f, S)
  BY <1>3, <1>4 DEF IsSum
<1>6. QED
  BY <1>5

(* Two folds agree on every set that both are about.                        *)
LEMMA SumUnique ==
    ASSUME NEW f, NEW S, NEW T, IsFiniteSet(S), NEW i, IsSum(i, f, S), NEW j, IsSum(j, f, T)
    PROVE  \A s \in (SUBSET S) \cap (SUBSET T) : i[s] = j[s]
<1> DEFINE Wrong == {s \in (SUBSET S) \cap (SUBSET T) : i[s] # j[s]}
           Sizes == {Cardinality(s) : s \in Wrong}
<1>1. \A s \in Wrong : IsFiniteSet(s) /\ Cardinality(s) \in Nat
  BY FS_Subset, FS_CardinalityType
<1> SUFFICES ASSUME Wrong # {} PROVE FALSE
  OBVIOUS
<1>2. PICK n \in Sizes : \A m \in Sizes : n <= m
  <2>1. Sizes \subseteq Nat /\ Sizes # {}
    BY <1>1
  <2>2. QED
    BY <2>1, LeastNumber
<1>3. PICK s \in Wrong : Cardinality(s) = n
  OBVIOUS
<1>4. s # {}
  BY DEF IsSum
<1>5. s \ {Leading(s)} \notin Wrong
  <2> DEFINE r == s \ {Leading(s)}
  <2>1. IsFiniteSet(s)
    BY <1>1
  <2>2. Cardinality(r) \in Nat /\ Cardinality(s) = Cardinality(r) + 1
    BY <1>4, <2>1, FirstOf
  <2>3. ASSUME r \in Wrong PROVE n <= Cardinality(r)
    <3>1. Cardinality(r) \in Sizes
      BY <2>3
    <3>2. QED
      BY <1>2, <3>1
  <2> HIDE DEF r, Wrong, Sizes
  <2>4. r \notin Wrong
    BY <1>3, <2>2, <2>3
  <2>5. QED
    BY <2>4 DEF r
<1>6. i[s \ {Leading(s)}] = j[s \ {Leading(s)}]
  BY <1>5
<1>7. /\ i[s] = f[Leading(s)] + i[s \ {Leading(s)}]
      /\ j[s] = f[Leading(s)] + j[s \ {Leading(s)}]
  BY <1>4 DEF IsSum
<1>8. QED
  BY <1>6, <1>7

-----------------------------------------------------------------------------
(* Sums                                                                    *)

(* The sum is the value of the fold.                                        *)
LEMMA SumIsFold ==
    ASSUME NEW f, NEW S, IsFiniteSet(S), NEW it, IsSum(it, f, S)
    PROVE  SumOf(f, S) = it[S]
<1>1. SumOf(f, S) = (CHOOSE j : IsSum(j, f, S))[S]
  BY DEF SumOf, MapThenSumSet, MapThenFoldSet, IsSum, Leading
<1>2. IsSum((CHOOSE j : IsSum(j, f, S)), f, S)
  OBVIOUS
<1>3. QED
  <2>1. S \in (SUBSET S) \cap (SUBSET S)
    OBVIOUS
  <2> DEFINE j == CHOOSE j : IsSum(j, f, S)
  <2>2. j[S] = it[S]
    BY <1>2, <2>1, SumUnique
  <2>3. QED
    BY <1>1, <2>2

(* The sum over nothing, and over a set from which one element is taken.    *)
LEMMA SumFirst ==
    ASSUME NEW f
    PROVE  /\ SumOf(f, {}) = 0
           /\ \A S : IsFiniteSet(S) /\ S # {} =>
                  SumOf(f, S) = f[Leading(S)] + SumOf(f, S \ {Leading(S)})
<1>1. SumOf(f, {}) = 0
  <2>1. PICK it : IsSum(it, f, {})
    BY FS_EmptySet, SumExists
  <2>2. SumOf(f, {}) = it[{}]
    BY <2>1, FS_EmptySet, SumIsFold
  <2>3. QED
    BY <2>1, <2>2 DEF IsSum
<1>2. ASSUME NEW S, IsFiniteSet(S), S # {} PROVE SumOf(f, S) = f[Leading(S)] + SumOf(f, S \ {Leading(S)})
  <2> DEFINE R == S \ {Leading(S)}
  <2>1. IsFiniteSet(R) /\ R \subseteq S
    BY <1>2, FirstOf
  <2>2. PICK it : IsSum(it, f, S)
    BY <1>2, SumExists
  <2>3. PICK jt : IsSum(jt, f, R)
    BY <2>1, SumExists
  <2>4. it[R] = jt[R]
    <3>1. R \in (SUBSET S) \cap (SUBSET R)
      OBVIOUS
    <3> HIDE DEF R
    <3>2. QED
      BY <1>2, <2>2, <2>3, <3>1, SumUnique
  <2>5. it[S] = f[Leading(S)] + it[R]
    BY <1>2, <2>2 DEF IsSum
  <2>6. SumOf(f, S) = it[S] /\ SumOf(f, R) = jt[R]
    BY <1>2, <2>1, <2>2, <2>3, SumIsFold
  <2>7. QED
    BY <2>4, <2>5, <2>6
<1>3. QED
  BY <1>1, <1>2

(* A collection of subsets of a finite set that has every subset all of      *)
(* whose smaller ones it has, has the set itself.                           *)
LEMMA BySmaller ==
    ASSUME NEW S, IsFiniteSet(S), NEW G,
           \A s \in SUBSET S : (\A r \in SUBSET s : r # s => r \in G) => s \in G
    PROVE  S \in G
<1> DEFINE Bad == {s \in SUBSET S : s \notin G}
           Sizes == {Cardinality(s) : s \in Bad}
<1> SUFFICES ASSUME S \notin G PROVE FALSE
  OBVIOUS
<1>1. \A s \in SUBSET S : IsFiniteSet(s) /\ Cardinality(s) \in Nat
  BY FS_Subset, FS_CardinalityType
<1>2. PICK n \in Sizes : \A m \in Sizes : n <= m
  <2>1. Sizes \subseteq Nat /\ Cardinality(S) \in Sizes
    BY <1>1
  <2>2. QED
    BY <2>1, LeastNumber
<1>3. PICK s \in Bad : Cardinality(s) = n
  OBVIOUS
<1>4. ASSUME NEW r \in SUBSET s, r # s PROVE r \in G
  <2>1. Cardinality(r) < Cardinality(s)
    BY <1>1, <1>4, FS_Subset
  <2>2. ~(n <= Cardinality(r))
    BY <1>1, <1>3, <2>1
  <2>3. QED
    BY <1>2, <2>2
<1>5. QED
  BY <1>3, <1>4

(* A sum of natural numbers is one.                                         *)
LEMMA SumNat ==
    ASSUME NEW f, NEW S, IsFiniteSet(S), \A x \in S : f[x] \in Nat
    PROVE  SumOf(f, S) \in Nat
<1> DEFINE G == {s \in SUBSET S : SumOf(f, s) \in Nat}
<1>1. ASSUME NEW s \in SUBSET S, \A r \in SUBSET s : r # s => r \in G PROVE s \in G
  <2>1. IsFiniteSet(s)
    BY FS_Subset
  <2>2. CASE s = {}
    BY <2>2, SumFirst
  <2>3. CASE s # {}
    <3>1. Leading(s) \in s
      BY <2>1, <2>3, FirstOf
    <3>2. SumOf(f, s \ {Leading(s)}) \in Nat /\ f[Leading(s)] \in Nat
      BY <1>1, <3>1
    <3>3. SumOf(f, s) = f[Leading(s)] + SumOf(f, s \ {Leading(s)})
      BY <2>1, <2>3, SumFirst
    <3>4. QED
      BY <3>2, <3>3
  <2>4. QED
    BY <2>2, <2>3
<1> HIDE DEF G
<1>2. S \in G
  BY <1>1, BySmaller
<1>3. QED
  BY <1>2 DEF G

(* Any element may be taken first.                                          *)
LEMMA SumAny ==
    ASSUME NEW f, NEW S, IsFiniteSet(S), \A x \in S : f[x] \in Nat
    PROVE  \A x \in S : SumOf(f, S) = f[x] + SumOf(f, S \ {x})
<1> DEFINE G == {s \in SUBSET S : \A x \in s : SumOf(f, s) = f[x] + SumOf(f, s \ {x})}
<1>1. ASSUME NEW s \in SUBSET S, \A r \in SUBSET s : r # s => r \in G PROVE s \in G
  <2> SUFFICES ASSUME NEW x \in s PROVE SumOf(f, s) = f[x] + SumOf(f, s \ {x})
    OBVIOUS
  <2> DEFINE y == Leading(s)
  <2>1. IsFiniteSet(s) /\ y \in s
    BY FS_Subset, FirstOf
  <2>2. SumOf(f, s) = f[y] + SumOf(f, s \ {y})
    BY <2>1, SumFirst
  <2>3. CASE x = y
    BY <2>2, <2>3
  <2>4. CASE x # y
    <3> DEFINE r == s \ {x, y}
    <3>1. /\ s \ {y} \in G /\ x \in s \ {y} /\ (s \ {y}) \ {x} = r
          /\ s \ {x} \in G /\ y \in s \ {x} /\ (s \ {x}) \ {y} = r
      BY <1>1, <2>1, <2>4
    <3>2. SumOf(f, s \ {y}) = f[x] + SumOf(f, r) /\ SumOf(f, s \ {x}) = f[y] + SumOf(f, r)
      BY <3>1
    <3>3. SumOf(f, r) \in Nat /\ f[x] \in Nat /\ f[y] \in Nat
      BY <2>1, FS_Subset, SumNat
    <3>4. QED
      BY <2>2, <3>2, <3>3
  <2>5. QED
    BY <2>3, <2>4
<1> HIDE DEF G
<1>2. S \in G
  BY <1>1, BySmaller
<1>3. QED
  BY <1>2 DEF G

(* The sum over two sets that share no element.                             *)
LEMMA SumUnion ==
    ASSUME NEW f, NEW S, IsFiniteSet(S), NEW T, IsFiniteSet(T), S \cap T = {},
           \A x \in S \cup T : f[x] \in Nat
    PROVE  SumOf(f, S \cup T) = SumOf(f, S) + SumOf(f, T)
<1> DEFINE G == {s \in SUBSET S : SumOf(f, s \cup T) = SumOf(f, s) + SumOf(f, T)}
<1>1. ASSUME NEW s \in SUBSET S, \A r \in SUBSET s : r # s => r \in G PROVE s \in G
  <2>1. IsFiniteSet(s) /\ IsFiniteSet(s \cup T) /\ SumOf(f, T) \in Nat
    BY FS_Subset, FS_Union, SumNat
  <2>2. CASE s = {}
    <3>1. s \cup T = T /\ SumOf(f, s) = 0
      BY <2>2, SumFirst
    <3>2. QED
      BY <2>1, <2>2, <3>1
  <2>3. CASE s # {}
    <3>1. PICK x \in s : TRUE
      BY <2>3
    <3> DEFINE r == s \ {x}
    <3>2. r \in G /\ (s \cup T) \ {x} = r \cup T /\ x \in s \cup T
      BY <1>1, <3>1
    <3>3. SumOf(f, s) = f[x] + SumOf(f, r)
      BY <2>1, <3>1, SumAny
    <3>4. SumOf(f, s \cup T) = f[x] + SumOf(f, (s \cup T) \ {x})
      BY <2>1, <3>2, SumAny
    <3>5. SumOf(f, r \cup T) = SumOf(f, r) + SumOf(f, T)
      BY <3>2
    <3>6. SumOf(f, r) \in Nat /\ f[x] \in Nat
      BY <2>1, FS_Subset, SumNat
    <3>7. QED
      BY <2>1, <3>2, <3>3, <3>4, <3>5, <3>6
  <2>4. QED
    BY <2>2, <2>3
<1> HIDE DEF G
<1>2. S \in G
  BY <1>1, BySmaller
<1>3. QED
  BY <1>2 DEF G

(* Summands that are the same, under other names if need be.                *)
LEMMA SumMap ==
    ASSUME NEW f, NEW g, NEW h, NEW S, IsFiniteSet(S),
           \A x \in S : f[x] \in Nat /\ g[h[x]] = f[x],
           \A x, y \in S : h[x] = h[y] => x = y
    PROVE  SumOf(g, {h[x] : x \in S}) = SumOf(f, S)
<1> DEFINE Image(s) == {h[x] : x \in s}
           G == {s \in SUBSET S : SumOf(g, Image(s)) = SumOf(f, s)}
<1>1. ASSUME NEW s \in SUBSET S, \A r \in SUBSET s : r # s => r \in G PROVE s \in G
  <2>1. IsFiniteSet(s)
    BY FS_Subset
  <2>a. IsFiniteSet(Image(s))
    <3>1. [x \in s |-> h[x]] \in Surjection(s, Image(s))
      BY DEF Surjection
    <3> HIDE DEF Image
    <3>2. QED
      BY <2>1, <3>1, FS_Surjection
  <2>2. CASE s = {}
    BY <2>2, SumFirst
  <2>3. CASE s # {}
    <3>1. PICK x \in s : TRUE
      BY <2>3
    <3> DEFINE r == s \ {x}
    <3>2. r \in G
      BY <1>1, <3>1
    <3>3. Image(s) \ {h[x]} = Image(r) /\ h[x] \in Image(s)
      OBVIOUS
    <3>4. SumOf(f, s) = f[x] + SumOf(f, r)
      BY <2>1, <3>1, SumAny
    <3>5. \A y \in Image(s) : g[y] \in Nat
      OBVIOUS
    <3> HIDE DEF Image
    <3>6. SumOf(g, Image(s)) = g[h[x]] + SumOf(g, Image(s) \ {h[x]})
      BY <2>a, <3>3, <3>5, SumAny
    <3>7. QED
      BY <3>2, <3>3, <3>4, <3>6
  <2>4. QED
    BY <2>2, <2>3
<1> HIDE DEF G
<1>2. S \in G
  BY <1>1, BySmaller
<1>3. QED
  BY <1>2 DEF G

(* Two functions that agree on the set have the same sum.                   *)
LEMMA SumSame ==
    ASSUME NEW f, NEW g, NEW S, IsFiniteSet(S), \A x \in S : f[x] \in Nat /\ g[x] = f[x]
    PROVE  SumOf(g, S) = SumOf(f, S)
<1> DEFINE h == [x \in S |-> x]
<1>1. {h[x] : x \in S} = S
  OBVIOUS
<1>2. SumOf(g, {h[x] : x \in S}) = SumOf(f, S)
  <2>1. \A x \in S : f[x] \in Nat /\ g[h[x]] = f[x]
    OBVIOUS
  <2>2. \A x, y \in S : h[x] = h[y] => x = y
    OBVIOUS
  <2> HIDE DEF h
  <2>3. QED
    BY <2>1, <2>2, SumMap
<1>3. QED
  BY <1>1, <1>2

(* A larger set, a sum that is not smaller.                                 *)
LEMMA SumMono ==
    ASSUME NEW f, NEW T, IsFiniteSet(T), \A x \in T : f[x] \in Nat, NEW S \in SUBSET T
    PROVE  SumOf(f, S) <= SumOf(f, T)
<1>1. IsFiniteSet(S) /\ IsFiniteSet(T \ S) /\ S \cup (T \ S) = T /\ S \cap (T \ S) = {}
  BY FS_Subset
<1>2. SumOf(f, S \cup (T \ S)) = SumOf(f, S) + SumOf(f, T \ S)
  BY <1>1, SumUnion
<1>3. SumOf(f, S) \in Nat /\ SumOf(f, T \ S) \in Nat
  BY <1>1, SumNat
<1>4. SumOf(f, T) = SumOf(f, S) + SumOf(f, T \ S)
  BY <1>1, <1>2
<1>5. QED
  BY <1>3, <1>4

(* A sum of zeros is zero.                                                  *)
LEMMA SumZero ==
    ASSUME NEW f, NEW S, IsFiniteSet(S), \A x \in S : f[x] = 0
    PROVE  SumOf(f, S) = 0
<1> DEFINE G == {s \in SUBSET S : SumOf(f, s) = 0}
<1>1. ASSUME NEW s \in SUBSET S, \A r \in SUBSET s : r # s => r \in G PROVE s \in G
  <2>1. IsFiniteSet(s)
    BY FS_Subset
  <2>2. CASE s = {}
    BY <2>2, SumFirst
  <2>3. CASE s # {}
    <3>1. PICK x \in s : TRUE
      BY <2>3
    <3>2. s \ {x} \in G
      BY <1>1, <3>1
    <3>3. SumOf(f, s) = f[x] + SumOf(f, s \ {x})
      BY <2>1, <3>1, SumAny
    <3>4. QED
      BY <3>2, <3>3
  <2>4. QED
    BY <2>2, <2>3
<1> HIDE DEF G
<1>2. S \in G
  BY <1>1, BySmaller
<1>3. QED
  BY <1>2 DEF G

(* One summand more.                                                        *)
LEMMA SumChange ==
    ASSUME NEW f, NEW g, NEW S, IsFiniteSet(S), NEW x, \A y \in S : f[y] \in Nat,
           \A y \in S : g[y] = IF y = x THEN f[y] + 1 ELSE f[y]
    PROVE  SumOf(g, S) = SumOf(f, S) + (IF x \in S THEN 1 ELSE 0)
<1>1. CASE x \notin S
  <2>1. SumOf(g, S) = SumOf(f, S) /\ SumOf(f, S) \in Nat
    BY <1>1, SumSame, SumNat
  <2>2. QED
    BY <1>1, <2>1
<1>2. CASE x \in S
  <2> DEFINE R == S \ {x}
  <2>1. IsFiniteSet(R)
    BY FS_Subset
  <2>2. SumOf(f, S) = f[x] + SumOf(f, R) /\ SumOf(f, R) \in Nat
    BY <1>2, <2>1, SumAny, SumNat
  <2>3. SumOf(g, R) = SumOf(f, R)
    BY <2>1, SumSame
  <2>4. \A y \in S : g[y] \in Nat
    OBVIOUS
  <2>5. SumOf(g, S) = g[x] + SumOf(g, R)
    BY <1>2, <2>4, SumAny
  <2>6. QED
    BY <1>2, <2>2, <2>3, <2>5
<1>3. QED
  BY <1>1, <1>2

=============================================================================
