--------------------------- MODULE ScanLedgerProofs ---------------------------
(***************************************************************************)
(* Proofs about ScanLedger: the slots always add up to what the walks      *)
(* have, and the bounds that the module documents hold, for any finite set *)
(* of walks, any slots, requests and total, and stores seen late or not.   *)
(***************************************************************************)
EXTENDS ScanLedger, FiniteSetTheorems, WellFoundedInduction, TLAPS

-------------------------------------------------------------------------------
(* Sums over finite sets, as MapThenSumSet computes them.                  *)

(* The element that a sum takes next.                                      *)
Pick(s) == CHOOSE x \in s : TRUE
(* The function that holds the sum of each subset.                         *)
AddsUp(f, S, g) == g = [s \in SUBSET S |-> IF s = {} THEN 0 ELSE f[Pick(s)] + g[s \ {Pick(s)}]]
(* The sum of f over S.                                                    *)
Sum(f, S) == (CHOOSE g : AddsUp(f, S, g))[S]
(* What is picked is an element.                                           *)
LEMMA PickIn == ASSUME NEW s, s # {} PROVE Pick(s) \in s
  BY DEF Pick

(* Of some subsets of a finite set, one has none of the others inside.     *)
LEMMA LeastSet ==
  ASSUME NEW S, IsFiniteSet(S), NEW Bad \in SUBSET (SUBSET S), Bad # {}
  PROVE  \E T \in Bad : \A U \in Bad : U \subseteq T => U = T
<1>1. IsWellFoundedOn(StrictSubsetOrdering(S), SUBSET S)
  BY FS_StrictSubsetOrderingWellFounded, FS_FiniteSubsetsOfFinite
<1>2. PICK T \in Bad : \A U \in Bad : ~ (<<U, T>> \in StrictSubsetOrdering(S))
  BY <1>1, WFMin, Zenon
<1>3. ASSUME NEW U \in Bad, U \subseteq T PROVE U = T
  <2>1. U \in SUBSET S /\ T \in SUBSET S
    OBVIOUS
  <2>2. ~ (<<U, T>> \in StrictSubsetOrdering(S))
    BY <1>2
  <2>3. QED
    BY <2>1, <2>2, <1>3 DEF StrictSubsetOrdering
<1>4. QED
  BY <1>3

(* The sum of a subset is that of a smaller one and a value.               *)
LEMMA AddsUpAt ==
  ASSUME NEW f, NEW S, NEW g, AddsUp(f, S, g), NEW T \in SUBSET S
  PROVE  /\ g[{}] = 0
         /\ T # {} => g[T] = f[Pick(T)] + g[T \ {Pick(T)}]
  BY DEF AddsUp

(* Sums of equal values are equal, whichever set they were computed for.   *)
LEMMA AddsUpAgree ==
  ASSUME NEW f, NEW h, NEW S, NEW R, IsFiniteSet(S), NEW g, NEW k, AddsUp(f, S, g), AddsUp(h, R, k),
         \A x \in S : f[x] = h[x], S \subseteq R
  PROVE  g[S] = k[S]
<1> DEFINE Bad == {T \in SUBSET S : g[T] # k[T]}
<1>1. CASE Bad = {}
  BY <1>1
<1>2. CASE Bad # {}
  <2>0. Bad \in SUBSET (SUBSET S)
    OBVIOUS
  <2>1. PICK T \in Bad : \A U \in Bad : U \subseteq T => U = T
    <3> HIDE DEF Bad
    <3>1. QED
      BY <1>2, <2>0, LeastSet
  <2>2. T \in SUBSET S /\ T \in SUBSET R /\ g[T] # k[T]
    OBVIOUS
  <2>3. g[{}] = 0 /\ k[{}] = 0 /\ (T # {} => g[T] = f[Pick(T)] + g[T \ {Pick(T)}] /\ k[T] = h[Pick(T)] + k[T \ {Pick(T)}])
    BY <2>2, AddsUpAt
  <2>4. T # {}
    BY <2>2, <2>3
  <2>5. Pick(T) \in T
    BY <2>4, PickIn
  <2>6. T \ {Pick(T)} \in SUBSET S /\ T \ {Pick(T)} # T
    BY <2>5, <2>2
  <2>7. g[T \ {Pick(T)}] = k[T \ {Pick(T)}]
    BY <2>6, <2>1
  <2>8. QED
    BY <2>2, <2>3, <2>4, <2>5, <2>7
<1>3. QED
  BY <1>1, <1>2

(* There is such a function for every finite set.                          *)
LEMMA AddsUpExists ==
  ASSUME NEW f, NEW S, IsFiniteSet(S)
  PROVE  \E g : AddsUp(f, S, g)
<1> DEFINE Bad == {T \in SUBSET S : ~ \E g : AddsUp(f, T, g)}
<1>1. CASE Bad = {}
  BY <1>1
<1>2. CASE Bad # {}
  <2>0. Bad \in SUBSET (SUBSET S)
    OBVIOUS
  <2>1. PICK T \in Bad : \A U \in Bad : U \subseteq T => U = T
    <3> HIDE DEF Bad
    <3>1. QED
      BY <1>2, <2>0, LeastSet
  <2>2. ASSUME NEW U \in SUBSET T, U # T PROVE \E g : AddsUp(f, U, g)
    BY <2>1, <2>2
  <2> DEFINE of(U) == CHOOSE g : AddsUp(f, U, g)
             k == [s \in SUBSET T |-> IF s = {} THEN 0 ELSE f[Pick(s)] + of(s \ {Pick(s)})[s \ {Pick(s)}]]
  <2>3. ASSUME NEW U \in SUBSET T, U # T PROVE AddsUp(f, U, of(U))
    BY <2>2, <2>3
  <2>4. ASSUME NEW s \in SUBSET T, s # {} PROVE k[s \ {Pick(s)}] = of(s \ {Pick(s)})[s \ {Pick(s)}]
    <3> DEFINE r == s \ {Pick(s)}
    <3>0. Pick(s) \in s
      BY <2>4, PickIn
    <3>1. r \in SUBSET T /\ r # T
      BY <3>0
    <3>2. AddsUp(f, r, of(r))
      BY <3>1, <2>3
    <3>3. CASE r = {}
      BY <3>3, <3>2, AddsUpAt
    <3>4. CASE r # {}
      <4> DEFINE q == r \ {Pick(r)}
      <4>1. Pick(r) \in r
        BY <3>4, PickIn
      <4>2. q \in SUBSET T /\ q # T /\ q \subseteq r
        BY <4>1, <3>1
      <4>3. AddsUp(f, q, of(q))
        BY <4>2, <2>3
      <4>4. IsFiniteSet(q)
        BY <4>2, FS_Subset
      <4>5. of(q)[q] = of(r)[q]
        <5> HIDE DEF of
        <5>1. QED
          BY <3>2, <4>2, <4>3, <4>4, AddsUpAgree
      <4>6. of(r)[r] = f[Pick(r)] + of(r)[q]
        <5>1. r \in SUBSET r
          OBVIOUS
        <5> HIDE DEF of, r
        <5>2. QED
          BY <3>2, <3>4, <5>1, AddsUpAt
      <4>7. k[r] = f[Pick(r)] + of(q)[q]
        BY <3>1, <3>4
      <4>8. QED
        BY <4>5, <4>6, <4>7
    <3>5. QED
      BY <3>3, <3>4
  <2>5. AddsUp(f, T, k)
    <3> DEFINE m == [s \in SUBSET T |-> IF s = {} THEN 0 ELSE f[Pick(s)] + k[s \ {Pick(s)}]]
    <3>0. ASSUME NEW s \in SUBSET T PROVE k[s] = m[s]
      <4>1. CASE s = {}
        BY <4>1
      <4>2. CASE s # {}
        <5>1. k[s] = f[Pick(s)] + of(s \ {Pick(s)})[s \ {Pick(s)}]
          BY <4>2
        <5>2. m[s] = f[Pick(s)] + k[s \ {Pick(s)}]
          BY <4>2
        <5> HIDE DEF k, of, m
        <5>3. QED
          BY <5>1, <5>2, <4>2, <2>4
      <4>3. QED
        BY <4>1, <4>2
    <3>1. k = m
      BY <3>0
    <3>2. QED
      BY <3>1 DEF AddsUp
  <2>6. QED
    BY <2>5
<1>3. QED
  BY <1>1, <1>2

(* The function of a set holds the sums of its subsets.                    *)
LEMMA SumAddsUp ==
  ASSUME NEW f, NEW S, IsFiniteSet(S), NEW T \in SUBSET S
  PROVE  /\ AddsUp(f, S, CHOOSE g : AddsUp(f, S, g))
         /\ (CHOOSE g : AddsUp(f, S, g))[T] = Sum(f, T)
<1>1. AddsUp(f, S, CHOOSE g : AddsUp(f, S, g))
  BY AddsUpExists
<1>2. IsFiniteSet(T)
  BY FS_Subset
<1>3. AddsUp(f, T, CHOOSE g : AddsUp(f, T, g))
  BY <1>2, AddsUpExists
<1> DEFINE u == CHOOSE g : AddsUp(f, S, g)
           v == CHOOSE g : AddsUp(f, T, g)
<1>4. u[T] = v[T]
  <2> HIDE DEF u, v
  <2>1. AddsUp(f, S, u) /\ AddsUp(f, T, v)
    BY <1>1, <1>3 DEF u, v
  <2>2. v[T] = u[T]
    BY <2>1, <1>2, AddsUpAgree
  <2>3. QED
    BY <2>2
<1>5. QED
  BY <1>1, <1>4 DEF Sum

(* The empty sum.                                                          *)
LEMMA SumEmpty == ASSUME NEW f PROVE Sum(f, {}) = 0
<1>1. AddsUp(f, {}, CHOOSE g : AddsUp(f, {}, g))
  BY FS_EmptySet, AddsUpExists
<1>2. QED
  BY <1>1, AddsUpAt DEF Sum

(* A sum is that of its picked element and of the others.                  *)
LEMMA SumPick ==
  ASSUME NEW f, NEW S, IsFiniteSet(S), S # {}
  PROVE  Sum(f, S) = f[Pick(S)] + Sum(f, S \ {Pick(S)})
<1> DEFINE u == CHOOSE g : AddsUp(f, S, g)
           r == S \ {Pick(S)}
<1>1. AddsUp(f, S, u) /\ u[S] = Sum(f, S) /\ u[r] = Sum(f, r)
  BY SumAddsUp
<1> HIDE DEF u
<1>2. u[S] = f[Pick(S)] + u[r]
  BY <1>1, AddsUpAt
<1>3. QED
  BY <1>1, <1>2

(* Equal values have equal sums.                                           *)
LEMMA SumSame ==
  ASSUME NEW f, NEW h, NEW S, IsFiniteSet(S), \A x \in S : f[x] = h[x]
  PROVE  Sum(f, S) = Sum(h, S)
<1> DEFINE u == CHOOSE g : AddsUp(f, S, g)
           v == CHOOSE g : AddsUp(h, S, g)
<1>1. AddsUp(f, S, u) /\ AddsUp(h, S, v) /\ Sum(f, S) = u[S] /\ Sum(h, S) = v[S]
  BY AddsUpExists DEF Sum
<1> HIDE DEF u, v
<1>2. QED
  BY <1>1, AddsUpAgree

(* A sum of integers is an integer.                                        *)
LEMMA SumInt ==
  ASSUME NEW f, NEW S, IsFiniteSet(S), \A x \in S : f[x] \in Int
  PROVE  Sum(f, S) \in Int
<1> DEFINE Bad == {T \in SUBSET S : Sum(f, T) \notin Int}
<1>1. CASE Bad = {}
  BY <1>1
<1>2. CASE Bad # {}
  <2>0. Bad \in SUBSET (SUBSET S)
    OBVIOUS
  <2>1. PICK T \in Bad : \A U \in Bad : U \subseteq T => U = T
    <3> HIDE DEF Bad
    <3>1. QED
      BY <1>2, <2>0, LeastSet
  <2>2. T \in SUBSET S /\ Sum(f, T) \notin Int /\ IsFiniteSet(T)
    BY FS_Subset
  <2>3. T # {}
    BY <2>2, SumEmpty
  <2>4. Pick(T) \in T /\ T \ {Pick(T)} \in SUBSET S /\ T \ {Pick(T)} # T /\ T \ {Pick(T)} \subseteq T
    BY <2>2, <2>3, PickIn
  <2>5. Sum(f, T \ {Pick(T)}) \in Int
    BY <2>1, <2>4
  <2>6. Sum(f, T) = f[Pick(T)] + Sum(f, T \ {Pick(T)})
    BY <2>2, <2>3, SumPick
  <2>7. f[Pick(T)] \in Int
    BY <2>2, <2>4
  <2>8. QED
    BY <2>2, <2>5, <2>6, <2>7
<1>3. QED
  BY <1>1, <1>2

(* Any element may be taken first.                                         *)
LEMMA SumSplit ==
  ASSUME NEW f, NEW S, IsFiniteSet(S), \A x \in S : f[x] \in Int, NEW y \in S
  PROVE  Sum(f, S) = f[y] + Sum(f, S \ {y})
<1> DEFINE Bad == {T \in SUBSET S : \E x \in T : Sum(f, T) # f[x] + Sum(f, T \ {x})}
<1>1. CASE Bad = {}
  BY <1>1
<1>2. CASE Bad # {}
  <2>0. Bad \in SUBSET (SUBSET S)
    OBVIOUS
  <2>1. PICK T \in Bad : \A U \in Bad : U \subseteq T => U = T
    <3> HIDE DEF Bad
    <3>1. QED
      BY <1>2, <2>0, LeastSet
  <2>2. T \in SUBSET S /\ IsFiniteSet(T)
    BY FS_Subset
  <2>3. PICK x \in T : Sum(f, T) # f[x] + Sum(f, T \ {x})
    OBVIOUS
  <2> DEFINE p == Pick(T)
  <2>4. p \in T /\ Sum(f, T) = f[p] + Sum(f, T \ {p})
    BY <2>2, <2>3, SumPick, PickIn
  <2>5. x # p
    BY <2>3, <2>4
  <2> HIDE DEF p
  <2>6. T \ {p} \notin Bad /\ T \ {x} \notin Bad
    BY <2>1, <2>4
  <2>7. T \ {p} \in SUBSET S /\ T \ {x} \in SUBSET S /\ x \in T \ {p} /\ p \in T \ {x}
        /\ (T \ {p}) \ {x} = (T \ {x}) \ {p}
    BY <2>2, <2>4, <2>5
  <2>8. Sum(f, T \ {p}) = f[x] + Sum(f, (T \ {p}) \ {x}) /\ Sum(f, T \ {x}) = f[p] + Sum(f, (T \ {x}) \ {p})
    BY <2>6, <2>7
  <2>9. f[x] \in Int /\ f[p] \in Int /\ Sum(f, (T \ {p}) \ {x}) \in Int
    <3>1. (T \ {p}) \ {x} \in SUBSET S /\ IsFiniteSet((T \ {p}) \ {x})
      BY <2>2, FS_Subset
    <3>2. QED
      BY <3>1, <2>2, <2>4, SumInt
  <2> DEFINE a == Sum(f, T)
             b == Sum(f, T \ {x})
             c == Sum(f, T \ {p})
             d == Sum(f, (T \ {p}) \ {x})
  <2>10. Sum(f, (T \ {x}) \ {p}) = d
    BY <2>7
  <2>11. a # f[x] + b /\ a = f[p] + c /\ c = f[x] + d /\ b = f[p] + d
    BY <2>3, <2>4, <2>8, <2>10
  <2>12. d \in Int
    BY <2>9
  <2> HIDE DEF a, b, c, d
  <2>13. QED
    BY <2>9, <2>11, <2>12
<1>3. QED
  BY <1>1, <1>2

(* Smaller values have the smaller sum.                                    *)
LEMMA SumAtMost ==
  ASSUME NEW f, NEW h, NEW S, IsFiniteSet(S), \A x \in S : f[x] \in Int /\ h[x] \in Int /\ f[x] <= h[x]
  PROVE  Sum(f, S) <= Sum(h, S)
<1> DEFINE Bad == {T \in SUBSET S : ~ (Sum(f, T) <= Sum(h, T))}
<1>1. CASE Bad = {}
  BY <1>1
<1>2. CASE Bad # {}
  <2>0. Bad \in SUBSET (SUBSET S)
    OBVIOUS
  <2>1. PICK T \in Bad : \A U \in Bad : U \subseteq T => U = T
    <3> HIDE DEF Bad
    <3>1. QED
      BY <1>2, <2>0, LeastSet
  <2>2. T \in SUBSET S /\ ~ (Sum(f, T) <= Sum(h, T)) /\ IsFiniteSet(T)
    BY FS_Subset
  <2>3. T # {}
    BY <2>2, SumEmpty
  <2> DEFINE r == T \ {Pick(T)}
  <2>4. Pick(T) \in T /\ r \in SUBSET S /\ r # T /\ r \subseteq T
    BY <2>2, <2>3, PickIn
  <2>5. Sum(f, r) <= Sum(h, r)
    BY <2>1, <2>4
  <2>6. Sum(f, T) = f[Pick(T)] + Sum(f, r) /\ Sum(h, T) = h[Pick(T)] + Sum(h, r)
    BY <2>2, <2>3, SumPick
  <2>7. f[Pick(T)] \in Int /\ h[Pick(T)] \in Int /\ f[Pick(T)] <= h[Pick(T)]
    BY <2>2, <2>4
  <2>8. Sum(f, r) \in Int /\ Sum(h, r) \in Int
    <3>1. IsFiniteSet(r) /\ \A x \in r : f[x] \in Int /\ h[x] \in Int
      BY <2>4, FS_Subset
    <3>2. QED
      BY <3>1, SumInt
  <2> HIDE DEF r
  <2>9. QED
    BY <2>2, <2>5, <2>6, <2>7, <2>8
<1>3. QED
  BY <1>1, <1>2

(* The sum of sums.                                                        *)
LEMMA SumOfSums ==
  ASSUME NEW f, NEW g, NEW h, NEW S, IsFiniteSet(S), 
         \A x \in S : f[x] \in Int /\ g[x] \in Int /\ h[x] = f[x] + g[x]
  PROVE  Sum(h, S) = Sum(f, S) + Sum(g, S)
<1> DEFINE Bad == {T \in SUBSET S : Sum(h, T) # Sum(f, T) + Sum(g, T)}
<1>1. CASE Bad = {}
  BY <1>1
<1>2. CASE Bad # {}
  <2>0. Bad \in SUBSET (SUBSET S)
    OBVIOUS
  <2>1. PICK T \in Bad : \A U \in Bad : U \subseteq T => U = T
    <3> HIDE DEF Bad
    <3>1. QED
      BY <1>2, <2>0, LeastSet
  <2>2. T \in SUBSET S /\ Sum(h, T) # Sum(f, T) + Sum(g, T) /\ IsFiniteSet(T)
    BY FS_Subset
  <2>3. T # {}
    BY <2>2, SumEmpty
  <2> DEFINE r == T \ {Pick(T)}
  <2>4. Pick(T) \in T /\ r \in SUBSET S /\ r # T /\ r \subseteq T
    BY <2>2, <2>3, PickIn
  <2>5. Sum(h, r) = Sum(f, r) + Sum(g, r)
    BY <2>1, <2>4
  <2>6. Sum(f, T) = f[Pick(T)] + Sum(f, r) /\ Sum(h, T) = h[Pick(T)] + Sum(h, r) /\ Sum(g, T) = g[Pick(T)] + Sum(g, r)
    BY <2>2, <2>3, SumPick
  <2>7. f[Pick(T)] \in Int /\ g[Pick(T)] \in Int /\ h[Pick(T)] = f[Pick(T)] + g[Pick(T)]
    BY <2>2, <2>4
  <2>8. Sum(f, r) \in Int /\ Sum(g, r) \in Int
    <3>1. IsFiniteSet(r) /\ \A x \in r : f[x] \in Int /\ g[x] \in Int
      BY <2>4, FS_Subset
    <3>2. QED
      BY <3>1, SumInt
  <2> HIDE DEF r
  <2>9. QED
    BY <2>2, <2>5, <2>6, <2>7, <2>8
<1>3. QED
  BY <1>1, <1>2

(* A sum of which one value changes.                                       *)
LEMMA SumChanged ==
  ASSUME NEW f, NEW h, NEW S, IsFiniteSet(S), NEW y \in S,
         \A x \in S : f[x] \in Int /\ h[x] \in Int,
         \A x \in S \ {y} : f[x] = h[x]
  PROVE  Sum(h, S) = Sum(f, S) - f[y] + h[y]
<1>1. IsFiniteSet(S \ {y}) /\ S \ {y} \in SUBSET S
  BY FS_Subset
<1>2. Sum(f, S \ {y}) = Sum(h, S \ {y}) /\ Sum(f, S \ {y}) \in Int
  BY <1>1, SumSame, SumInt
<1>3. Sum(f, S) = f[y] + Sum(f, S \ {y}) /\ Sum(h, S) = h[y] + Sum(h, S \ {y})
  BY SumSplit
<1>4. QED
  BY <1>2, <1>3

(* A sum of zeros.                                                         *)
LEMMA SumZero ==
  ASSUME NEW f, NEW S, IsFiniteSet(S), \A x \in S : f[x] = 0
  PROVE  Sum(f, S) = 0
<1> DEFINE Bad == {T \in SUBSET S : Sum(f, T) # 0}
<1>1. CASE Bad = {}
  BY <1>1
<1>2. CASE Bad # {}
  <2>0. Bad \in SUBSET (SUBSET S)
    OBVIOUS
  <2>1. PICK T \in Bad : \A U \in Bad : U \subseteq T => U = T
    <3> HIDE DEF Bad
    <3>1. QED
      BY <1>2, <2>0, LeastSet
  <2>2. T \in SUBSET S /\ Sum(f, T) # 0 /\ IsFiniteSet(T)
    BY FS_Subset
  <2>3. T # {}
    BY <2>2, SumEmpty
  <2>4. Pick(T) \in T /\ T \ {Pick(T)} \in SUBSET S /\ T \ {Pick(T)} # T /\ T \ {Pick(T)} \subseteq T
    BY <2>2, <2>3, PickIn
  <2>5. Sum(f, T \ {Pick(T)}) = 0
    BY <2>1, <2>4
  <2>6. QED
    BY <2>2, <2>3, <2>4, <2>5, SumPick
<1>3. QED
  BY <1>1, <1>2

(* A sum of natural numbers is one, and no value is greater.               *)
LEMMA SumNat ==
  ASSUME NEW f, NEW S, IsFiniteSet(S), \A x \in S : f[x] \in Nat
  PROVE  Sum(f, S) \in Nat /\ \A x \in S : f[x] <= Sum(f, S)
<1>1. ASSUME NEW T \in SUBSET S PROVE Sum(f, T) \in Nat
  <2> DEFINE z == [x \in S |-> 0]
  <2>1. IsFiniteSet(T) /\ \A x \in T : z[x] = 0 /\ f[x] \in Nat
    BY FS_Subset
  <2> HIDE DEF z
  <2>2. Sum(z, T) = 0
    BY <2>1, SumZero
  <2>3. Sum(z, T) <= Sum(f, T)
    BY <2>1, SumAtMost
  <2>4. Sum(f, T) \in Int
    BY <2>1, SumInt
  <2>5. QED
    BY <2>2, <2>3, <2>4
<1>2. ASSUME NEW x \in S PROVE f[x] <= Sum(f, S)
  <2>1. Sum(f, S) = f[x] + Sum(f, S \ {x})
    BY SumSplit
  <2>2. QED
    BY <2>1, <1>1
<1>3. QED
  BY <1>1, <1>2

(* A sum of ones is a cardinality.                                         *)
LEMMA SumCount ==
  ASSUME NEW f, NEW S, IsFiniteSet(S), NEW A \in SUBSET S, \A x \in S : f[x] = IF x \in A THEN 1 ELSE 0
  PROVE  Sum(f, S) = Cardinality(A)
<1> DEFINE Bad == {T \in SUBSET S : Sum(f, T) # Cardinality(T \cap A)}
<1>1. CASE Bad = {}
  <2>1. S \cap A = A
    OBVIOUS
  <2>2. QED
    BY <1>1, <2>1
<1>2. CASE Bad # {}
  <2>0. Bad \in SUBSET (SUBSET S)
    OBVIOUS
  <2>1. PICK T \in Bad : \A U \in Bad : U \subseteq T => U = T
    <3> HIDE DEF Bad
    <3>1. QED
      BY <1>2, <2>0, LeastSet
  <2>2. T \in SUBSET S /\ Sum(f, T) # Cardinality(T \cap A) /\ IsFiniteSet(T) /\ IsFiniteSet(T \cap A)
    BY FS_Subset
  <2>3. T # {}
    BY <2>2, SumEmpty, FS_EmptySet
  <2> DEFINE p == Pick(T)
  <2>4. p \in T /\ T \ {p} \in SUBSET S /\ T \ {p} # T /\ T \ {p} \subseteq T
    BY <2>2, <2>3, PickIn
  <2>5. Sum(f, T \ {p}) = Cardinality((T \ {p}) \cap A)
    BY <2>1, <2>4
  <2>6. Sum(f, T) = f[p] + Sum(f, T \ {p})
    BY <2>2, <2>3, SumPick
  <2> HIDE DEF p, Bad
  <2>7. (T \ {p}) \cap A = (T \cap A) \ {p}
    OBVIOUS
  <2>8. /\ Cardinality((T \cap A) \ {p}) = IF p \in T \cap A THEN Cardinality(T \cap A) - 1 ELSE Cardinality(T \cap A)
        /\ Cardinality(T \cap A) \in Nat
    <3>1. Cardinality(T \cap A) \in Nat
      BY <2>2, FS_CardinalityType
    <3>2. Cardinality((T \cap A) \ {p}) = IF p \in T \cap A THEN Cardinality(T \cap A) - 1 ELSE Cardinality(T \cap A)
      <4> DEFINE X == T \cap A
      <4>1. IsFiniteSet(X)
        BY <2>2
      <4> HIDE DEF X
      <4>2. Cardinality(X \ {p}) = IF p \in X THEN Cardinality(X) - 1 ELSE Cardinality(X)
        BY <4>1, FS_RemoveElement
      <4>3. QED
        BY <4>2 DEF X
    <3>3. QED
      BY <3>1, <3>2
  <2>9. f[p] = IF p \in A THEN 1 ELSE 0
    BY <2>4, <2>2
  <2>10. QED
    BY <2>2, <2>4, <2>5, <2>6, <2>7, <2>8, <2>9
<1>3. QED
  BY <1>1, <1>2

(* Values outside a subset that are zero do not count.                     *)
LEMMA SumWithin ==
  ASSUME NEW f, NEW S, IsFiniteSet(S), NEW A \in SUBSET S, \A x \in S : f[x] \in Int /\ (x \notin A => f[x] = 0)
  PROVE  Sum(f, S) = Sum(f, A)
<1> DEFINE Bad == {T \in SUBSET S : Sum(f, T) # Sum(f, T \cap A)}
<1>1. CASE Bad = {}
  <2>1. S \cap A = A
    OBVIOUS
  <2>2. QED
    BY <1>1, <2>1
<1>2. CASE Bad # {}
  <2>0. Bad \in SUBSET (SUBSET S)
    OBVIOUS
  <2>1. PICK T \in Bad : \A U \in Bad : U \subseteq T => U = T
    <3> HIDE DEF Bad
    <3>1. QED
      BY <1>2, <2>0, LeastSet
  <2>2. T \in SUBSET S /\ Sum(f, T) # Sum(f, T \cap A) /\ IsFiniteSet(T) /\ IsFiniteSet(T \cap A)
    BY FS_Subset
  <2>3. T # {}
    BY <2>2, SumEmpty
  <2>4. PICK p : p \in T
    BY <2>3
  <2>5. Sum(f, T \ {p}) = Sum(f, (T \ {p}) \cap A)
    BY <2>1, <2>2, <2>4
  <2> HIDE DEF Bad
  <2>6. (\A x \in T : f[x] \in Int) /\ \A x \in T \cap A : f[x] \in Int
    BY <2>2
  <2>7. Sum(f, T) = f[p] + Sum(f, T \ {p})
    BY <2>2, <2>4, <2>6, SumSplit
  <2>8. CASE p \in A
    <3>1. (T \ {p}) \cap A = (T \cap A) \ {p} /\ p \in T \cap A
      BY <2>4, <2>8
    <3>2. Sum(f, T \cap A) = f[p] + Sum(f, (T \cap A) \ {p})
      BY <2>2, <2>6, <3>1, SumSplit
    <3>3. QED
      BY <2>2, <2>5, <2>7, <3>1, <3>2
  <2>9. CASE p \notin A
    <3>1. (T \ {p}) \cap A = T \cap A /\ f[p] = 0
      BY <2>2, <2>4, <2>9
    <3>2. Sum(f, T \cap A) \in Int
      BY <2>2, <2>6, SumInt
    <3>3. Sum(f, T \ {p}) = Sum(f, T \cap A)
      BY <2>5, <3>1
    <3>4. QED
      BY <2>2, <2>7, <3>1, <3>2, <3>3
  <2>10. QED
    BY <2>8, <2>9
<1>3. QED
  BY <1>1, <1>2

(* A sum of values with a bound.                                           *)
LEMMA SumBound ==
  ASSUME NEW f, NEW S, IsFiniteSet(S), NEW c \in Nat, \A x \in S : f[x] \in Int /\ f[x] <= c
  PROVE  Sum(f, S) <= Cardinality(S) * c
<1> DEFINE Bad == {T \in SUBSET S : ~ (Sum(f, T) <= Cardinality(T) * c)}
<1>1. CASE Bad = {}
  BY <1>1
<1>2. CASE Bad # {}
  <2>0. Bad \in SUBSET (SUBSET S)
    OBVIOUS
  <2>1. PICK T \in Bad : \A U \in Bad : U \subseteq T => U = T
    <3> HIDE DEF Bad
    <3>1. QED
      BY <1>2, <2>0, LeastSet
  <2>2. T \in SUBSET S /\ ~ (Sum(f, T) <= Cardinality(T) * c) /\ IsFiniteSet(T)
    BY FS_Subset
  <2>3. T # {}
    <3>1. Sum(f, {}) = 0 /\ Cardinality({}) = 0
      BY SumEmpty, FS_EmptySet
    <3>2. QED
      BY <2>2, <3>1
  <2>4. PICK p : p \in T
    BY <2>3
  <2>5. Sum(f, T \ {p}) <= Cardinality(T \ {p}) * c
    BY <2>1, <2>2, <2>4
  <2> HIDE DEF Bad
  <2>6. Sum(f, T) = f[p] + Sum(f, T \ {p}) /\ Sum(f, T \ {p}) \in Int /\ f[p] \in Int /\ f[p] <= c
    <3>1. IsFiniteSet(T \ {p}) /\ \A x \in T : f[x] \in Int
      BY <2>2, FS_Subset
    <3>2. QED
      BY <2>2, <2>4, <3>1, SumSplit, SumInt
  <2>7. Cardinality(T \ {p}) = Cardinality(T) - 1 /\ Cardinality(T) \in Nat
    BY <2>2, <2>4, FS_RemoveElement, FS_CardinalityType
  <2>8. PICK k \in Nat : k = Cardinality(T)
    BY <2>7
  <2>9. (k - 1) * c + c = k * c /\ k * c \in Int /\ (k - 1) * c \in Int
    OBVIOUS
  <2>10. Sum(f, T) <= k * c
    BY <2>5, <2>6, <2>7, <2>8, <2>9
  <2>11. QED
    BY <2>2, <2>8, <2>10
<1>3. QED
  BY <1>1, <1>2

(* A finite set of integers has a greatest element.                        *)
LEMMA GreatestOf ==
  ASSUME NEW S, IsFiniteSet(S)
  PROVE  S \subseteq Int /\ S # {} => Max(S) \in S /\ \A y \in S : Max(S) >= y
<1>a. \A B \in SUBSET (SUBSET S) : B # {} => \E T \in B : \A U \in B : U \subseteq T => U = T
  BY LeastSet
<1>b. SUFFICES ASSUME S \subseteq Int, S # {} PROVE Max(S) \in S /\ \A y \in S : Max(S) >= y
  OBVIOUS
<1> DEFINE Bad == {T \in SUBSET S : T # {} /\ ~ \E x \in T : \A y \in T : x >= y}
<1>1. \E x \in S : \A y \in S : x >= y
  <2>1. CASE Bad = {}
    BY <1>b, <2>1
  <2>2. CASE Bad # {}
    <3>0. Bad \in SUBSET (SUBSET S)
      OBVIOUS
    <3>1. PICK T \in Bad : \A U \in Bad : U \subseteq T => U = T
      <4> HIDE DEF Bad
      <4>1. Bad # {}
        BY <2>2
      <4>2. Bad \in SUBSET (SUBSET S)
        BY <3>0
      <4>3. QED
        BY <1>a, <4>1, <4>2
    <3>2. T \in SUBSET S /\ T # {} /\ ~ \E x \in T : \A y \in T : x >= y
      OBVIOUS
    <3>3. PICK p : p \in T
      BY <3>2
    <3>4. T \ {p} = {} \/ \E x \in T \ {p} : \A y \in T \ {p} : x >= y
      <4>1. T \ {p} \notin Bad
        <5>1. T \ {p} \subseteq T /\ T \ {p} # T
          BY <3>3
        <5> HIDE DEF Bad
        <5>2. QED
          BY <3>1, <5>1
      <4>2. T \ {p} \in SUBSET S
        BY <3>2
      <4>3. QED
        BY <4>1, <4>2, Zenon
    <3> HIDE DEF Bad
    <3>5. T \subseteq Int
      BY <1>b, <3>2
    <3>6. CASE T \ {p} = {}
      BY <3>2, <3>3, <3>5, <3>6
    <3>7. CASE \E x \in T \ {p} : \A y \in T \ {p} : x >= y
      <4>1. PICK x \in T \ {p} : \A y \in T \ {p} : x >= y
        BY <3>7
      <4>2. x \in Int /\ p \in Int
        BY <3>3, <3>5
      <4>3. CASE x >= p
        BY <3>2, <3>3, <4>1, <4>3
      <4>4. CASE ~ (x >= p)
        BY <3>2, <3>3, <3>5, <4>1, <4>2, <4>4
      <4>5. QED
        BY <4>3, <4>4
    <3>8. QED
      BY <3>4, <3>6, <3>7
  <2>3. QED
    BY <2>1, <2>2
<1>2. QED
  BY <1>1, Zenon DEF Max

(* The greater of two numbers.                                             *)
LEMMA MaxOfTwo ==
  ASSUME NEW a \in Int, NEW b \in Int
  PROVE  Max({a, b}) = IF a < b THEN b ELSE a
<1>1. \E x \in {a, b} : \A y \in {a, b} : x >= y
  OBVIOUS
<1>2. Max({a, b}) \in {a, b} /\ \A y \in {a, b} : Max({a, b}) >= y
  BY <1>1, Zenon DEF Max
<1> DEFINE m == Max({a, b})
<1> HIDE DEF m
<1>3. m \in {a, b} /\ m >= a /\ m >= b
  BY <1>2 DEF m
<1>4. QED
  BY <1>3 DEF m

(* The smaller of two numbers.                                             *)
LEMMA MinOfTwo ==
  ASSUME NEW a \in Int, NEW b \in Int
  PROVE  Min({a, b}) = IF a < b THEN a ELSE b
<1>1. \E x \in {a, b} : \A y \in {a, b} : x <= y
  OBVIOUS
<1>2. Min({a, b}) \in {a, b} /\ \A y \in {a, b} : Min({a, b}) <= y
  BY <1>1, Zenon DEF Min
<1> DEFINE m == Min({a, b})
<1> HIDE DEF m
<1>3. m \in {a, b} /\ m <= a /\ m <= b
  BY <1>2 DEF m
<1>4. QED
  BY <1>3 DEF m

-------------------------------------------------------------------------------
(* The constants, the types and what each step does to the record of its   *)
(* walk.                                                                   *)

(* Each walk wants some threads: one that wants none takes no part         *)
(* (acquire returns at once). The slots are numbered from 1, after that of *)
(* the server.                                                             *)
LedgerAssumption ==
  /\ IsFiniteSet(Walks) /\ Walks # {} /\ InlineWalks \subseteq Walks /\ Buffered \in BOOLEAN
  /\ \E n \in Nat : PoolSlots = 1..n
  /\ Want \in [Walks -> Nat \ {0}] /\ Total \in Nat

(* The last slot.                                                          *)
Top == Max(Slots)
(* A walk that has published a token and not decided on it.                *)
Pending == {"read", "decide"}
(* Where a walk can be.                                                    *)
Steps == Acquiring \union {"closed", "idle", "walking", "dead"}
(* What is known of a walk.                                                *)
WalkRecord == [at : Steps, held : Nat, granted : Nat, next : Nat, sum : Nat, shifted : BOOLEAN]
(* The array goes from slot 0 to the last one.                             *)
LEMMA SlotsAre ==
  ASSUME LedgerAssumption
  PROVE  /\ Top \in Nat /\ Slots = 0..Top /\ PoolSlots = 1..Top
         /\ None \notin Slots /\ 0 \in Slots /\ 0 \notin PoolSlots
<1>1. PICK n \in Nat : PoolSlots = 1..n
  BY DEF LedgerAssumption
<1>2. Slots = 0..n
  BY <1>1 DEF Slots
<1>3. Top = n
  <2>1. n \in Slots /\ \A y \in Slots : n >= y
    BY <1>2
  <2>2. Top \in Slots /\ \A y \in Slots : Top >= y
    <3>1. \E x \in Slots : \A y \in Slots : x >= y
      BY <2>1
    <3>2. QED
      BY <3>1, Zenon DEF Top, Max
  <2>3. QED
    BY <1>2, <2>1, <2>2
<1>4. QED
  BY <1>1, <1>2, <1>3 DEF None

(* Only the walk w moves.                                                  *)
Same(w) == \A v \in Walks : v # w => walk'[v] = walk[v] /\ slotOf'[v] = slotOf[v]

(* The records of the walks.                                               *)
LEMMA TypesAre == LedgerTypeOK => walk \in [Walks -> WalkRecord]
  BY DEF LedgerTypeOK, WalkRecord, Steps

(* Publishing starts to add up.                                            *)
LEMMA PublishEffect ==
  ASSUME LedgerTypeOK, NEW w \in Walks, Publish(w)
  PROVE  /\ walk[w].at = "publish" /\ Same(w) /\ slotOf' = slotOf /\ pool' = pool
         /\ walk'[w].at = "read" /\ walk'[w].held = walk[w].held /\ walk'[w].granted = walk[w].granted
         /\ walk'[w].next = 0 /\ walk'[w].sum = 0 /\ walk'[w].shifted = FALSE
         /\ walk' \in [Walks -> WalkRecord]
<1>1. walk \in [Walks -> WalkRecord] /\ slotOf \in [Walks -> Slots \union {None}]
  BY TypesAre DEF LedgerTypeOK
<1> DEFINE r == [walk[w] EXCEPT !.at = "read", !.next = 0, !.sum = 0, !.shifted = FALSE]
<1>2. walk' = [walk EXCEPT ![w] = r]
  BY <1>1 DEF Publish
<1>3. walk[w] \in WalkRecord
  BY <1>1
<1>4. /\ r \in WalkRecord /\ r.at = "read" /\ r.held = walk[w].held /\ r.granted = walk[w].granted
      /\ r.next = 0 /\ r.sum = 0 /\ r.shifted = FALSE
  BY <1>3 DEF WalkRecord, Steps, Acquiring
<1> HIDE DEF r
<1>5. walk'[w] = r /\ walk' \in [Walks -> WalkRecord] /\ \A v \in Walks : v # w => walk'[v] = walk[v]
  BY <1>1, <1>2, <1>4
<1>6. walk[w].at = "publish" /\ slotOf' = slotOf /\ pool' = pool
  BY DEF Publish
<1>7. QED
  BY <1>4, <1>5, <1>6 DEF Same

(* One more slot is added.                                                 *)
LEMMA ReadEffect ==
  ASSUME LedgerTypeOK, NEW w \in Walks, ReadSlot(w), Seen(w, walk[w].next) \in Nat
  PROVE  /\ walk[w].at = "read" /\ Same(w) /\ slotOf' = slotOf /\ pool' = pool /\ ledger' = ledger /\ delayed' = delayed
         /\ walk'[w].at = (IF walk[w].next = Top THEN "decide" ELSE "read")
         /\ walk'[w].held = walk[w].held /\ walk'[w].granted = walk[w].granted
         /\ walk'[w].next = walk[w].next + 1 /\ walk'[w].sum = walk[w].sum + Seen(w, walk[w].next)
         /\ walk'[w].shifted = walk[w].shifted
         /\ walk' \in [Walks -> WalkRecord]
<1>1. walk \in [Walks -> WalkRecord] /\ slotOf \in [Walks -> Slots \union {None}]
  BY TypesAre DEF LedgerTypeOK
<1>2. QED
  BY <1>1 DEF ReadSlot, Same, WalkRecord, Steps, Acquiring, Top

(* A token that is taken back.                                             *)
LEMMA TakeBackEffect ==
  ASSUME LedgerTypeOK, NEW w \in Walks, TakeBack(w)
  PROVE  /\ walk[w].at = "decide" /\ Same(w) /\ slotOf' = slotOf /\ pool' = pool /\ walk[w].sum > Total
         /\ walk'[w].at = "walking"
         /\ walk'[w].held = walk[w].held /\ walk'[w].granted = walk[w].granted
         /\ walk'[w].next = walk[w].next /\ walk'[w].sum = walk[w].sum /\ walk'[w].shifted = walk[w].shifted
         /\ walk' \in [Walks -> WalkRecord]
         /\ StoreFlushed(w, walk[w].held + walk[w].granted)
<1>1. walk \in [Walks -> WalkRecord] /\ slotOf \in [Walks -> Slots \union {None}]
  BY TypesAre DEF LedgerTypeOK
<1>2. QED
  BY <1>1 DEF TakeBack, Same, WalkRecord, Steps, Acquiring, OverTotal

(* The walk wants another token after this one.                            *)
More(w) == walk[w].granted + 1 < Want[w]

(* A token that is kept.                                                   *)
LEMMA KeepEffect ==
  ASSUME LedgerTypeOK, NEW w \in Walks, Keep(w)
  PROVE  /\ walk[w].at = "decide" /\ Same(w) /\ slotOf' = slotOf /\ pool' = pool /\ ~ (walk[w].sum > Total)
         /\ walk'[w].at = (IF More(w) THEN "publish" ELSE "walking")
         /\ walk'[w].held = walk[w].held /\ walk'[w].granted = walk[w].granted + 1
         /\ walk'[w].next = walk[w].next /\ walk'[w].sum = walk[w].sum
         /\ walk' \in [Walks -> WalkRecord]
         /\ IF More(w) THEN UNCHANGED <<ledger, delayed>> ELSE StoreFlushed(w, Seen(w, slotOf[w]))
<1>1. walk \in [Walks -> WalkRecord] /\ slotOf \in [Walks -> Slots \union {None}]
  BY TypesAre DEF LedgerTypeOK
<1> DEFINE goal == IF More(w) THEN "publish" ELSE "walking"
<1>3. walk' = [walk EXCEPT ![w].granted = @ + 1, ![w].shifted = FALSE, ![w].at = goal]
      /\ goal \in {"publish", "walking"}
  BY DEF Keep, More
<1> HIDE DEF goal
<1> DEFINE r == [walk[w] EXCEPT !.granted = @ + 1, !.shifted = FALSE, !.at = goal]
<1>6. walk' = [walk EXCEPT ![w] = r]
  BY <1>1, <1>3
<1>7. walk[w] \in WalkRecord
  BY <1>1
<1>8. /\ r \in WalkRecord /\ r.at = goal /\ r.held = walk[w].held /\ r.granted = walk[w].granted + 1
      /\ r.next = walk[w].next /\ r.sum = walk[w].sum
  <2>1. goal \in Steps
    BY <1>3 DEF Steps, Acquiring
  <2>2. walk[w].granted + 1 \in Nat
    BY <1>7 DEF WalkRecord
  <2> DEFINE n == walk[w].granted + 1
  <2>3. r = [walk[w] EXCEPT !.granted = n, !.shifted = FALSE, !.at = goal]
    OBVIOUS
  <2> HIDE DEF n
  <2>4. n \in Nat
    BY <2>2 DEF n
  <2>5. /\ r \in WalkRecord /\ r.at = goal /\ r.held = walk[w].held /\ r.granted = n
        /\ r.next = walk[w].next /\ r.sum = walk[w].sum
    BY <1>7, <2>1, <2>3, <2>4 DEF WalkRecord
  <2>6. QED
    BY <2>5 DEF n
<1> HIDE DEF r
<1>4. /\ walk'[w].held = walk[w].held /\ walk'[w].granted = walk[w].granted + 1
         /\ walk'[w].next = walk[w].next /\ walk'[w].sum = walk[w].sum /\ walk'[w].at = goal
         /\ walk' \in [Walks -> WalkRecord]
  BY <1>1, <1>6, <1>8
<1>5. Same(w)
  BY <1>1, <1>3 DEF Same, Keep
<1>2. QED
  BY <1>4, <1>5 DEF Keep, More, goal, OverTotal

(* A walk that starts to acquire.                                          *)
LEMMA AcquireEffect ==
  ASSUME LedgerTypeOK, NEW w \in Walks, Acquire(w)
  PROVE  /\ walk[w].at = "idle" /\ Same(w) /\ UNCHANGED <<ledger, delayed, pool, slotOf>>
         /\ slotOf[w] = None => /\ walk'[w].at = "walking" /\ walk'[w].granted = walk[w].granted
         /\ slotOf[w] # None => /\ LeaseFree(w) /\ walk'[w].at = "publish" /\ walk'[w].granted = 0 
                                /\ walk'[w].held = ledger[slotOf[w]]
         /\ walk' \in [Walks -> WalkRecord]
<1>1. walk \in [Walks -> WalkRecord] /\ slotOf \in [Walks -> Slots \union {None}] /\ ledger \in [Slots -> Nat]
  BY TypesAre DEF LedgerTypeOK
<1>2. CASE slotOf[w] = None
  <2>1. walk' = [walk EXCEPT ![w].at = "walking"]
    BY <1>2 DEF Acquire
  <2>2. QED
    BY <1>1, <1>2, <2>1 DEF Acquire, Same, WalkRecord, Steps, Acquiring
<1>3. CASE slotOf[w] # None
  <2>1. walk' = [walk EXCEPT ![w] = [Idle EXCEPT !.at = "publish", !.held = ledger[slotOf[w]]]]
    BY <1>3 DEF Acquire
  <2>2. ledger[slotOf[w]] \in Nat
    BY <1>1, <1>3
  <2> DEFINE r == [Idle EXCEPT !.at = "publish", !.held = ledger[slotOf[w]]]
  <2>3. r \in WalkRecord /\ r.at = "publish" /\ r.held = ledger[slotOf[w]] /\ r.granted = 0
    BY <2>2 DEF WalkRecord, Idle, Steps, Acquiring
  <2> HIDE DEF r
  <2>4. walk' = [walk EXCEPT ![w] = r]
    BY <2>1 DEF r
  <2>5. walk'[w] = r /\ walk' \in [Walks -> WalkRecord] /\ \A v \in Walks : v # w => walk'[v] = walk[v]
    BY <1>1, <2>3, <2>4
  <2>6. QED
    BY <1>1, <1>3, <2>3, <2>5 DEF Acquire, Same
<1>4. QED
  BY <1>2, <1>3

(* A walk that does nothing has nothing.                                   *)
LEMMA IdleIs == Idle \in WalkRecord /\ Idle.at = "idle" /\ Idle.granted = 0
  BY DEF Idle, WalkRecord, Steps, Acquiring

(* A walk that ends.                                                       *)
LEMMA ReleaseEffect ==
  ASSUME LedgerTypeOK, NEW w \in Walks, Release(w)
  PROVE  /\ walk[w].at = "walking" /\ Same(w) /\ UNCHANGED <<pool, slotOf>>
         /\ walk'[w] = Idle /\ walk' \in [Walks -> WalkRecord]
         /\ slotOf[w] = None \/ walk[w].granted = 0 => UNCHANGED <<ledger, delayed>>
         /\ slotOf[w] # None /\ walk[w].granted # 0 => LeaseFree(w) /\ StoreFlushed(w, GivenBack(w))
<1>1. walk \in [Walks -> WalkRecord] /\ slotOf \in [Walks -> Slots \union {None}]
  BY TypesAre DEF LedgerTypeOK
<1>2. QED
  BY <1>1, IdleIs DEF Release, Same

(* A worker that is killed.                                                *)
LEMMA KillEffect ==
  ASSUME LedgerTypeOK, NEW w \in Walks, Kill(w)
  PROVE  /\ w \notin InlineWalks /\ walk[w].at \notin {"closed", "dead"} /\ Same(w) /\ UNCHANGED <<pool, slotOf>>
         /\ walk'[w].at = "dead" /\ walk'[w].granted = walk[w].granted /\ walk' \in [Walks -> WalkRecord]
         /\ IF delayed[w] = None THEN UNCHANGED <<ledger, delayed>> ELSE StoreFlushed(w, delayed[w])
<1>1. walk \in [Walks -> WalkRecord] /\ slotOf \in [Walks -> Slots \union {None}]
  BY TypesAre DEF LedgerTypeOK
<1>3. walk' = [walk EXCEPT ![w].at = "dead", ![w].shifted = FALSE]
  BY DEF Kill
<1> DEFINE r == [walk[w] EXCEPT !.at = "dead", !.shifted = FALSE]
<1>4. walk' = [walk EXCEPT ![w] = r] /\ walk[w] \in WalkRecord
  BY <1>1, <1>3
<1>5. r \in WalkRecord /\ r.at = "dead" /\ r.granted = walk[w].granted
  BY <1>4 DEF WalkRecord, Steps, Acquiring
<1> HIDE DEF r
<1>6. QED
  BY <1>1, <1>4, <1>5 DEF Kill, Same

(* A worker whose death was confirmed.                                     *)
LEMMA ReclaimEffect ==
  ASSUME LedgerTypeOK, NEW w \in Walks, Reclaim(w)
  PROVE  /\ walk[w].at = "dead" /\ Same(w) /\ UNCHANGED <<pool, slotOf, delayed>>
         /\ walk'[w] = Idle /\ walk' \in [Walks -> WalkRecord] /\ ledger' = Zeroed(w)
<1>1. walk \in [Walks -> WalkRecord] /\ slotOf \in [Walks -> Slots \union {None}]
  BY TypesAre DEF LedgerTypeOK
<1>2. QED
  BY <1>1, IdleIs DEF Reclaim, Same

(* A session whose slot goes back to the pool.                             *)
LEMMA ReleaseSlotEffect ==
  ASSUME LedgerTypeOK, NEW w \in Walks, ReleaseSlot(w)
  PROVE  /\ walk[w].at = "dead" /\ Same(w) /\ UNCHANGED delayed
         /\ walk'[w].at = "closed" /\ walk'[w].granted = 0 /\ walk' \in [Walks -> WalkRecord] /\ ledger' = Zeroed(w)
         /\ slotOf'[w] = None /\ pool' = pool \cup ({slotOf[w]} \ {None})
         /\ slotOf' \in [Walks -> Slots \union {None}]
<1>1. walk \in [Walks -> WalkRecord] /\ slotOf \in [Walks -> Slots \union {None}]
  BY TypesAre DEF LedgerTypeOK
<1> DEFINE r == [Idle EXCEPT !.at = "closed"]
<1>2. r \in WalkRecord /\ r.at = "closed" /\ r.granted = 0
  BY DEF Idle, WalkRecord, Steps, Acquiring
<1> HIDE DEF r
<1>3. walk' = [walk EXCEPT ![w] = r] /\ slotOf' = [slotOf EXCEPT ![w] = None]
  BY DEF ReleaseSlot, r
<1>4. QED
  BY <1>1, <1>2, <1>3 DEF ReleaseSlot, Same

(* A session that gets a slot: walks that add up are marked.               *)
LEMMA AllocateEffect ==
  ASSUME LedgerTypeOK, NEW w \in Walks, Allocate(w)
  PROVE  /\ walk[w].at = "closed" /\ UNCHANGED delayed
         /\ walk'[w] = Idle /\ walk' \in [Walks -> WalkRecord]
         /\ \A v \in Walks : v # w =>
              /\ slotOf'[v] = slotOf[v]
              /\ walk'[v].at = walk[v].at /\ walk'[v].held = walk[v].held /\ walk'[v].granted = walk[v].granted
              /\ walk'[v].next = walk[v].next /\ walk'[v].sum = walk[v].sum
              /\ walk[v].shifted => walk'[v].shifted
         /\ \/ pool = {} /\ UNCHANGED <<ledger, pool, slotOf>> 
            \/ \E s \in pool :
                 /\ pool' = pool \ {s} /\ slotOf' = [slotOf EXCEPT ![w] = s] /\ ledger' = [ledger EXCEPT ![s] = 0]
                 /\ \A v \in Walks : v # w /\ walk[v].at = "read" /\ walk[v].next <= s => walk'[v].shifted
<1>1. walk \in [Walks -> WalkRecord] /\ slotOf \in [Walks -> Slots \union {None}]
  BY TypesAre DEF LedgerTypeOK
<1>2. CASE pool = {}
  <2>1. walk' = [walk EXCEPT ![w] = Idle] /\ UNCHANGED <<ledger, pool, slotOf, delayed>> /\ walk[w].at = "closed"
    BY <1>2 DEF Allocate
  <2>2. QED
    BY <1>1, <1>2, <2>1, IdleIs
<1>3. CASE pool # {}
  <2>1. PICK s \in pool : /\ pool' = pool \ {s} /\ slotOf' = [slotOf EXCEPT ![w] = s] /\ ledger' = [ledger EXCEPT ![s] = 0]
            /\ walk' = [v \in Walks |-> IF v = w THEN Idle
                                       ELSE [walk[v] EXCEPT !.shifted = @ \/ (walk[v].at = "read" /\ walk[v].next <= s)]]
    BY <1>3 DEF Allocate
  <2>2. UNCHANGED delayed /\ walk[w].at = "closed"
    BY DEF Allocate
  <2>3. walk'[w] = Idle
    BY <2>1
  <2>4. ASSUME NEW v \in Walks, v # w
        PROVE /\ walk'[v] \in WalkRecord
              /\ walk'[v].at = walk[v].at /\ walk'[v].held = walk[v].held /\ walk'[v].granted = walk[v].granted
              /\ walk'[v].next = walk[v].next /\ walk'[v].sum = walk[v].sum
              /\ walk[v].shifted => walk'[v].shifted
              /\ walk[v].at = "read" /\ walk[v].next <= s => walk'[v].shifted
    <3> DEFINE b == walk[v].shifted \/ (walk[v].at = "read" /\ walk[v].next <= s)
    <3>1. walk'[v] = [walk[v] EXCEPT !.shifted = b] /\ walk[v] \in WalkRecord
      BY <2>1, <2>4, <1>1
    <3>2. b \in BOOLEAN
      OBVIOUS
    <3>3. walk[v].shifted => b
      OBVIOUS
    <3>4. walk[v].at = "read" /\ walk[v].next <= s => b
      OBVIOUS
    <3> HIDE DEF b
    <3>6. walk'[v].shifted = b
      BY <3>1 DEF WalkRecord
    <3>7. /\ walk'[v] \in WalkRecord
          /\ walk'[v].at = walk[v].at /\ walk'[v].held = walk[v].held /\ walk'[v].granted = walk[v].granted
          /\ walk'[v].next = walk[v].next /\ walk'[v].sum = walk[v].sum
      BY <3>1, <3>2 DEF WalkRecord
    <3>5. QED
      BY <3>3, <3>4, <3>6, <3>7
  <2>5. walk' \in [Walks -> WalkRecord]
    <3>1. \A v \in Walks : walk'[v] \in WalkRecord
      BY <2>3, <2>4, IdleIs
    <3>2. DOMAIN walk' = Walks /\ walk' = [v \in Walks |-> walk'[v]]
      BY <2>1
    <3>3. QED
      BY <3>1, <3>2
  <2>6. \A v \in Walks : v # w => slotOf'[v] = slotOf[v]
    BY <2>1, <1>1
  <2>7. QED
    BY <2>1, <2>2, <2>3, <2>4, <2>5, <2>6
<1>4. QED
  BY <1>2, <1>3

(* A store buffer that drains moves no walk.                               *)
LEMMA DrainEffect ==
  ASSUME LedgerTypeOK, NEW w \in Walks, Drain(w)
  PROVE  delayed[w] # None /\ UNCHANGED <<pool, slotOf, walk>> /\ Same(w) /\ StoreFlushed(w, delayed[w])
  BY DEF Drain, Same

(* The walk w moves; a mark may be all that changes of the others.         *)
Still(w) ==
  \A v \in Walks : v # w =>
    /\ slotOf'[v] = slotOf[v] /\ walk'[v].at = walk[v].at
    /\ walk'[v].held = walk[v].held /\ walk'[v].granted = walk[v].granted
    /\ walk'[v].next = walk[v].next /\ walk'[v].sum = walk[v].sum

(* Every step is one of a walk.                                            *)
LEMMA StillStep ==
  ASSUME LedgerTypeOK, NEW w \in Walks, WalkStep(w)
  PROVE  Still(w)
<1>1. CASE Allocate(w)
  BY <1>1, AllocateEffect DEF Still
<1>2. CASE ReadSlot(w)
  BY <1>2 DEF Still, ReadSlot, LedgerTypeOK
<1>3. CASE Acquire(w) \/ Publish(w) \/ TakeBack(w) \/ Keep(w) \/ Drain(w) \/ Release(w) \/ Kill(w) \/ Reclaim(w) \/ ReleaseSlot(w)
  <2>1. Same(w)
    BY <1>3, AcquireEffect, PublishEffect, TakeBackEffect, KeepEffect, DrainEffect, ReleaseEffect, KillEffect, ReclaimEffect, ReleaseSlotEffect
  <2>2. QED
    BY <2>1 DEF Same, Still
<1>4. QED
  BY <1>1, <1>2, <1>3 DEF WalkStep

(* The numbers among the constants.                                        *)
LEMMA ConstantTypes ==
  ASSUME LedgerAssumption
  PROVE  Total \in Nat /\ Top \in Nat /\ \A w \in Walks : Want[w] \in Nat /\ Want[w] >= 1
  BY SlotsAre DEF LedgerAssumption

-------------------------------------------------------------------------------
(* The invariant of the array.                                             *)

(* What a walk has in its slot.                                            *)
Tokens(w) == IF Running(w) THEN InSlot(w) ELSE 0
(* What each walk has in slot s.                                           *)
Of(s) == [w \in Walks |-> IF slotOf[w] = s THEN Tokens(w) ELSE 0]
(* What the other walks of the slot of w have in it.                       *)
Others(w) == [v \in Walks |-> IF v # w /\ slotOf[v] = slotOf[w] THEN Tokens(v) ELSE 0]
(* Slot 0 is the server's; every other slot is free or that of one         *)
(* session, which has tokens only while it walks.                          *)
Owners ==
  /\ \A w \in Walks :
       /\ w \in InlineWalks => slotOf[w] = 0 /\ walk[w].at \notin {"closed", "dead"}
       /\ w \notin InlineWalks => slotOf[w] \in PoolSlots \cup {None}
       /\ slotOf[w] \notin pool
       /\ walk[w].at = "closed" => slotOf[w] = None
       /\ walk[w].at \in Acquiring => slotOf[w] # None
       /\ slotOf[w] = None \/ walk[w].at \in {"idle", "closed"} => walk[w].granted = 0
  /\ \A v, w \in Walks \ InlineWalks : v # w /\ slotOf[v] # None => slotOf[v] # slotOf[w]
(* The lease lock lets one walk of a slot acquire, and only that walk has  *)
(* a store that others do not see yet.                                     *)
Leases ==
  /\ \A v, w \in Walks : v # w /\ slotOf[v] = slotOf[w] => walk[v].at \notin Acquiring \/ walk[w].at \notin Acquiring
  /\ \A w \in Walks : delayed[w] # None =>
       walk[w].at \in Acquiring /\ Buffered /\ delayed[w] = walk[w].held + InSlot(w)
(* What an acquiring walk remembers is what the others of its slot have,   *)
(* and a slot with a living writer and no late store shows what its walks  *)
(* have.                                                                   *)
Exact ==
  /\ \A w \in Walks : walk[w].at \in Acquiring => walk[w].held = Sum(Others(w), Walks)
  /\ \A s \in Slots : (\A w \in Walks : slotOf[w] = s => walk[w].at # "dead" /\ delayed[w] = None) => ledger[s] = Sum(Of(s), Walks)
(* Others see at most what a late store will show.                         *)
Late ==
  /\ \A w \in Walks : delayed[w] # None => ledger[slotOf[w]] <= delayed[w]
(* A walk gets no more than it wants nor than the total, and never adds up *)
(* less than its own tokens once it has read its slot. What a dead worker  *)
(* left in its slot is no more than it wanted, and a walk that got less    *)
(* than it wanted had seen more than the total.                            *)
Shares ==
  \A w \in Walks :
    /\ walk[w].granted <= Want[w]
    /\ walk[w].at \in Acquiring => walk[w].granted + 1 <= Want[w]
    /\ walk[w].at = "dead" /\ slotOf[w] # None => ledger[slotOf[w]] <= Want[w]
    /\ walk[w].at = "read" => walk[w].next <= Top
    /\ walk[w].at = "decide" => walk[w].next = Top + 1
    /\ walk[w].granted <= Total
    /\ walk[w].at \in Pending /\ slotOf[w] < walk[w].next => InSlot(w) <= walk[w].sum
    /\ walk[w].at = "walking" /\ slotOf[w] # None /\ walk[w].granted < Want[w] =>
         walk[w].next = Top + 1 /\ walk[w].sum > Total

(* The invariant of the array.                                             *)
Inv == LedgerTypeOK /\ Owners /\ Leases /\ Exact /\ Late /\ Shares

(* The tokens of a walk are a number.                                      *)
LEMMA TokenTypes == LedgerTypeOK => \A w \in Walks : InSlot(w) \in Nat /\ Tokens(w) \in Nat /\ walk[w] \in WalkRecord
<1>1. ASSUME LedgerTypeOK, NEW w \in Walks PROVE walk[w] \in WalkRecord
  BY <1>1, TypesAre
<1>2. ASSUME LedgerTypeOK, NEW w \in Walks PROVE InSlot(w) \in Nat
  BY <1>1, <1>2 DEF InSlot, WalkRecord
<1>3. QED
  BY <1>1, <1>2 DEF Tokens

(* A step changes the tokens of its walk only.                             *)
LEMMA OtherTokens ==
  ASSUME NEW w \in Walks, Still(w), NEW v \in Walks, v # w
  PROVE  Tokens(v)' = Tokens(v) /\ InSlot(v)' = InSlot(v)
<1>1. walk'[v].at = walk[v].at /\ walk'[v].granted = walk[v].granted
  BY DEF Still
<1>2. QED
  BY <1>1 DEF Tokens, InSlot, Running

(* The sums of tokens are numbers.                                         *)
LEMMA OfTypes ==
  ASSUME LedgerAssumption, LedgerTypeOK
  PROVE  /\ \A s : \A v \in Walks : Of(s)[v] \in Nat
         /\ \A s : Sum(Of(s), Walks) \in Nat
         /\ \A w, v \in Walks : Others(w)[v] \in Nat
         /\ \A w \in Walks : Sum(Others(w), Walks) \in Nat
<1>0. IsFiniteSet(Walks)
  BY DEF LedgerAssumption
<1>1. ASSUME NEW s PROVE \A v \in Walks : Of(s)[v] \in Nat
  BY TokenTypes DEF Of
<1>2. ASSUME NEW s PROVE Sum(Of(s), Walks) \in Nat
  BY <1>0, <1>1, SumNat
<1>3. ASSUME NEW w \in Walks PROVE \A v \in Walks : Others(w)[v] \in Nat
  BY TokenTypes DEF Others
<1>4. ASSUME NEW w \in Walks PROVE Sum(Others(w), Walks) \in Nat
  BY <1>0, <1>3, SumNat
<1>5. QED
  BY <1>1, <1>2, <1>3, <1>4

(* How a step changes the sum of a slot.                                   *)
LEMMA OfChange ==
  ASSUME LedgerAssumption, LedgerTypeOK, LedgerTypeOK', NEW w \in Walks, Still(w), NEW s
  PROVE  Sum(Of(s)', Walks) = Sum(Of(s), Walks) - Of(s)[w] + Of(s)'[w]
<1> DEFINE f == Of(s)
           h == Of(s)'
<1>0. IsFiniteSet(Walks)
  BY DEF LedgerAssumption
<1>1. \A v \in Walks : f[v] \in Int /\ h[v] \in Int
  <2>1. \A v \in Walks : h[v] = IF slotOf'[v] = s THEN Tokens(v)' ELSE 0
    BY DEF Of
  <2>2. \A v \in Walks : Tokens(v)' \in Nat
    <3>1. walk' \in [Walks -> WalkRecord]
      BY DEF LedgerTypeOK, WalkRecord, Steps
    <3>2. ASSUME NEW v \in Walks PROVE Tokens(v)' \in Nat
      <4>1. walk'[v] \in WalkRecord
        BY <3>1
      <4>2. QED
        BY <4>1 DEF Tokens, InSlot, WalkRecord
    <3>3. QED
      BY <3>2
  <2>3. \A v \in Walks : f[v] \in Nat
    BY OfTypes
  <2> HIDE DEF f, h
  <2>4. QED
    BY <2>1, <2>2, <2>3
<1>2. \A v \in Walks \ {w} : f[v] = h[v]
  BY OtherTokens DEF Of, Still
<1> HIDE DEF f, h
<1>3. Sum(h, Walks) = Sum(f, Walks) - f[w] + h[w]
  BY <1>0, <1>1, <1>2, SumChanged
<1>4. QED
  BY <1>3 DEF f, h

(* The sum of the slot of w is that of the others and its own.             *)
LEMMA OwnShare ==
  ASSUME LedgerAssumption, LedgerTypeOK, NEW w \in Walks
  PROVE  Sum(Of(slotOf[w]), Walks) = Sum(Others(w), Walks) + Tokens(w)
<1> DEFINE f == Others(w)
           h == Of(slotOf[w])
<1>0. IsFiniteSet(Walks)
  BY DEF LedgerAssumption
<1>1. \A v \in Walks : f[v] \in Int /\ h[v] \in Int
  BY OfTypes
<1>2. \A v \in Walks \ {w} : f[v] = h[v]
  BY DEF Of, Others
<1>3. f[w] = 0 /\ h[w] = Tokens(w)
  BY DEF Of, Others
<1>5. Tokens(w) \in Int /\ Sum(Others(w), Walks) \in Int
  BY TokenTypes, OfTypes
<1> HIDE DEF f, h
<1>4. Sum(h, Walks) = Sum(f, Walks) - f[w] + h[w]
  BY <1>0, <1>1, <1>2, SumChanged
<1>6. QED
  BY <1>3, <1>4, <1>5 DEF f, h

(* When the sum of the others of a slot does not change.                   *)
LEMMA OthersKept ==
  ASSUME LedgerAssumption, NEW w \in Walks, Still(w), NEW u \in Walks,
         u = w => slotOf'[w] = slotOf[w],
         u # w => (slotOf[w] = slotOf[u] /\ slotOf'[w] = slotOf[u] /\ Tokens(w)' = Tokens(w))
                  \/ (slotOf[w] # slotOf[u] /\ slotOf'[w] # slotOf[u])
                  \/ (slotOf[w] # slotOf[u] /\ Tokens(w)' = 0)
                  \/ (slotOf'[w] # slotOf[u] /\ Tokens(w) = 0)
  PROVE  Sum(Others(u)', Walks) = Sum(Others(u), Walks)
<1>0. IsFiniteSet(Walks)
  BY DEF LedgerAssumption
<1>2. ASSUME NEW v \in Walks PROVE Others(u)[v] = Others(u)'[v]
  <2>1. v # w => Tokens(v)' = Tokens(v) /\ slotOf'[v] = slotOf[v]
    BY OtherTokens DEF Still
  <2>2. slotOf'[u] = slotOf[u]
    BY DEF Still
  <2>3. Others(u)[v] = (IF v # u /\ slotOf[v] = slotOf[u] THEN Tokens(v) ELSE 0)
    BY DEF Others
  <2>4. Others(u)'[v] = (IF v # u /\ slotOf'[v] = slotOf'[u] THEN Tokens(v)' ELSE 0)
    BY DEF Others
  <2>5. QED
    BY <2>1, <2>2, <2>3, <2>4
<1>3. QED
  BY <1>0, <1>2, SumSame

(* No session shares a slot with another walk.                             *)
LEMMA Alone ==
  ASSUME LedgerAssumption, Owners, NEW w \in Walks \ InlineWalks, slotOf[w] # None, NEW v \in Walks, v # w
  PROVE  slotOf[v] # slotOf[w]
  BY SlotsAre DEF Owners

(* No walk of the slot of w has a late store.                              *)
Settled(w) == \A v \in Walks : slotOf[v] = slotOf[w] => delayed[v] = None

(* Then the slot shows what its walks have.                                *)
LEMMA SettledShare ==
  ASSUME LedgerAssumption, LedgerTypeOK, Owners, Leases, Exact, NEW w \in Walks, walk[w].at # "dead", slotOf[w] # None, Settled(w)
  PROVE  ledger[slotOf[w]] = Sum(Others(w), Walks) + Tokens(w)
<1>1. slotOf[w] \in Slots
  BY DEF LedgerTypeOK
<1>2. \A v \in Walks : slotOf[v] = slotOf[w] => walk[v].at # "dead" /\ delayed[v] = None
  <2>1. ASSUME NEW v \in Walks, slotOf[v] = slotOf[w] PROVE walk[v].at # "dead"
    <3>1. CASE w \in InlineWalks
      BY <3>1, <2>1, SlotsAre DEF Owners
    <3>2. CASE w \notin InlineWalks
      BY <3>2, <2>1, Alone
    <3>3. QED
      BY <3>1, <3>2
  <2>2. QED
    BY <2>1 DEF Settled
<1>3. ledger[slotOf[w]] = Sum(Of(slotOf[w]), Walks)
  BY <1>1, <1>2 DEF Exact
<1>4. QED
  BY <1>3, OwnShare

(* The slot of an acquiring walk without a late store is settled.          *)
LEMMA AcquirerSettled ==
  ASSUME Leases, NEW w \in Walks, walk[w].at \in Acquiring, delayed[w] = None
  PROVE  Settled(w)
  BY DEF Settled, Leases

(* So is that of a walk whose lease lock is free.                          *)
LEMMA FreeSettled ==
  ASSUME Leases, NEW w \in Walks, walk[w].at \notin Acquiring, LeaseFree(w)
  PROVE  Settled(w)
  BY DEF Settled, Leases, LeaseFree

(* An acquiring walk sees in its own slot what it remembers and its own    *)
(* tokens.                                                                 *)
LEMMA OwnSeen ==
  ASSUME LedgerAssumption, LedgerTypeOK, Owners, Leases, Exact, NEW w \in Walks, walk[w].at \in Acquiring
  PROVE  Seen(w, slotOf[w]) = walk[w].held + InSlot(w)
<1>1. CASE delayed[w] # None
  BY <1>1 DEF Seen, Leases
<1>2. CASE delayed[w] = None
  <2>1. ledger[slotOf[w]] = Sum(Others(w), Walks) + Tokens(w)
    BY <1>2, AcquirerSettled, SettledShare DEF Owners, Acquiring
  <2>2. walk[w].held = Sum(Others(w), Walks)
    BY DEF Exact
  <2>3. Tokens(w) = InSlot(w)
    BY DEF Tokens, Running
  <2>4. QED
    BY <1>2, <2>1, <2>2, <2>3 DEF Seen
<1>3. QED
  BY <1>1, <1>2

(* What a walk sees is a number.                                           *)
LEMMA SeenTypes ==
  ASSUME LedgerAssumption, LedgerTypeOK, Owners, Shares, NEW w \in Walks
  PROVE  /\ walk[w].at = "read" => walk[w].next \in Slots /\ Seen(w, walk[w].next) \in Nat
         /\ slotOf[w] # None => Seen(w, slotOf[w]) \in Nat /\ ledger[slotOf[w]] \in Nat /\ slotOf[w] \in Slots
<1>1. ASSUME NEW s \in Slots PROVE Seen(w, s) \in Nat
  BY DEF Seen, LedgerTypeOK
<1>2. walk[w].at = "read" => walk[w].next \in Slots
  BY SlotsAre, TokenTypes DEF Shares, WalkRecord
<1>3. QED
  BY <1>1, <1>2 DEF LedgerTypeOK

-------------------------------------------------------------------------------
(* The steps and the array.                                                *)

(* A store keeps the types.                                                *)
LEMMA FlushTypes ==
  ASSUME LedgerTypeOK, NEW w \in Walks, NEW n \in Nat, StoreFlushed(w, n)
  PROVE  ledger' \in [Slots -> Nat] /\ delayed' \in [Walks -> Nat \union {None}]
  BY DEF StoreFlushed, LedgerTypeOK

(* So does one that may be late.                                           *)
LEMMA StoreTypes ==
  ASSUME LedgerTypeOK, NEW w \in Walks, NEW n \in Nat, Store(w, n)
  PROVE  ledger' \in [Slots -> Nat] /\ delayed' \in [Walks -> Nat \union {None}]
  BY DEF Store, LedgerTypeOK

(* A store that is seen at once.                                           *)
LEMMA FlushEffect ==
  ASSUME LedgerTypeOK, NEW w \in Walks, NEW n, StoreFlushed(w, n)
  PROVE  /\ slotOf[w] \in Slots => ledger'[slotOf[w]] = n
         /\ \A s \in Slots : s # slotOf[w] => ledger'[s] = ledger[s]
         /\ delayed'[w] = None
         /\ \A v \in Walks : v # w => delayed'[v] = delayed[v]
  BY DEF StoreFlushed, LedgerTypeOK

(* A store that may be late.                                               *)
LEMMA StoreEffect ==
  ASSUME LedgerTypeOK, NEW w \in Walks, NEW n, Store(w, n)
  PROVE  /\ \A s \in Slots : s # slotOf[w] => ledger'[s] = ledger[s]
         /\ \A v \in Walks : v # w => delayed'[v] = delayed[v]
         /\ \/ delayed'[w] = None /\ (slotOf[w] \in Slots => ledger'[slotOf[w]] = n)
            \/ Buffered /\ delayed'[w] = n /\ ledger' = ledger
  BY DEF Store, LedgerTypeOK

(* A walk that gives back its tokens leaves those of the others.           *)
LEMMA ReleasedAll ==
  ASSUME LedgerAssumption, Inv, NEW w \in Walks, walk[w].at = "walking", slotOf[w] # None, LeaseFree(w)
  PROVE  GivenBack(w) = Sum(Others(w), Walks) /\ GivenBack(w) \in Nat
<1>1. Settled(w)
  BY FreeSettled DEF Inv, Acquiring
<1>2. ledger[slotOf[w]] = Sum(Others(w), Walks) + Tokens(w)
  BY <1>1, SettledShare DEF Inv
<1>3. Tokens(w) = walk[w].granted /\ walk[w].granted \in Nat
  BY TokenTypes DEF Tokens, Running, InSlot, Inv, WalkRecord
<1>4. Sum(Others(w), Walks) \in Nat
  BY OfTypes DEF Inv
<1> DEFINE a == Sum(Others(w), Walks)
<1> HIDE DEF a
<1>5. ledger[slotOf[w]] - walk[w].granted = a /\ a \in Nat
  BY <1>2, <1>3, <1>4 DEF a
<1>6. Max({0, a}) = a
  BY <1>5, MaxOfTwo
<1>7. QED
  BY <1>5, <1>6 DEF GivenBack, a

(* A slot set to zero.                                                     *)
LEMMA ZeroTypes ==
  ASSUME LedgerTypeOK, NEW w \in Walks
  PROVE  Zeroed(w) \in [Slots -> Nat] /\ (\A s \in Slots : s # slotOf[w] => Zeroed(w)[s] = ledger[s])
         /\ (slotOf[w] # None => Zeroed(w)[slotOf[w]] = 0)
  BY DEF Zeroed, LedgerTypeOK

(* Every step keeps the types.                                             *)
LEMMA TypesKept ==
  ASSUME LedgerAssumption, Inv, NEW w \in Walks, WalkStep(w)
  PROVE  LedgerTypeOK'
<1>0. LedgerTypeOK /\ walk[w] \in WalkRecord
  BY TokenTypes DEF Inv
<1>1. /\ ledger \in [Slots -> Nat] /\ delayed \in [Walks -> Nat \union {None}] /\ pool \subseteq PoolSlots
      /\ slotOf \in [Walks -> Slots \union {None}]
  BY <1>0 DEF LedgerTypeOK
<1>2. SUFFICES /\ ledger' \in [Slots -> Nat] /\ delayed' \in [Walks -> Nat \union {None}] /\ pool' \subseteq PoolSlots
               /\ slotOf' \in [Walks -> Slots \union {None}] /\ walk' \in [Walks -> WalkRecord]
  BY DEF LedgerTypeOK, WalkRecord, Steps
<1>3. CASE Allocate(w)
  BY <1>0, <1>1, <1>3, AllocateEffect DEF Slots
<1>4. CASE Acquire(w)
  BY <1>0, <1>1, <1>4, AcquireEffect
<1>5. CASE Publish(w)
  <2>1. walk[w].held + walk[w].granted + 1 \in Nat
    BY <1>0 DEF WalkRecord
  <2>2. Store(w, walk[w].held + walk[w].granted + 1)
    BY <1>5 DEF Publish
  <2>3. QED
    BY <1>0, <1>1, <1>5, <2>1, <2>2, StoreTypes, PublishEffect
<1>6. CASE ReadSlot(w)
  <2>1. Seen(w, walk[w].next) \in Nat
    BY <1>6, SeenTypes DEF Inv, ReadSlot
  <2>2. QED
    BY <1>0, <1>1, <1>6, <2>1, ReadEffect
<1>7. CASE TakeBack(w)
  <2>1. walk[w].held + walk[w].granted \in Nat
    BY <1>0 DEF WalkRecord
  <2>2. QED
    BY <1>0, <1>1, <1>7, <2>1, FlushTypes, TakeBackEffect
<1>8. CASE Keep(w)
  <2>1. Seen(w, slotOf[w]) \in Nat
    <3>1. slotOf[w] # None
      BY <1>0, <1>8, KeepEffect DEF Inv, Owners, Acquiring
    <3>2. QED
      BY <3>1, SeenTypes DEF Inv
  <2>2. QED
    BY <1>0, <1>1, <1>8, <2>1, FlushTypes, KeepEffect
<1>9. CASE Drain(w)
  <2>1. delayed[w] \in Nat
    BY <1>0, <1>1, <1>9, DrainEffect
  <2>2. walk' = walk
    BY <1>0, <1>9, DrainEffect
  <2>3. QED
    BY <1>0, <1>1, <1>9, <2>1, <2>2, FlushTypes, DrainEffect, TypesAre
<1>10. CASE Release(w)
  <2>1. CASE slotOf[w] # None /\ walk[w].granted # 0
    <3>1. GivenBack(w) \in Nat
      BY <1>0, <1>10, <2>1, ReleaseEffect, ReleasedAll
    <3>2. QED
      BY <1>0, <1>1, <1>10, <2>1, <3>1, ReleaseEffect, FlushTypes
  <2>2. CASE slotOf[w] = None \/ walk[w].granted = 0
    BY <1>0, <1>1, <1>10, <2>2, ReleaseEffect
  <2>3. QED
    BY <2>1, <2>2
<1>11. CASE Kill(w)
  <2>1. CASE delayed[w] = None
    BY <1>0, <1>1, <1>11, <2>1, KillEffect
  <2>2. CASE delayed[w] # None
    <3>1. delayed[w] \in Nat
      BY <1>1, <2>2
    <3>2. QED
      BY <1>0, <1>1, <1>11, <2>2, <3>1, KillEffect, FlushTypes
  <2>3. QED
    BY <2>1, <2>2
<1>12. CASE Reclaim(w)
  BY <1>0, <1>1, <1>12, ReclaimEffect, ZeroTypes
<1>13. CASE ReleaseSlot(w)
  <2>1. slotOf[w] \in PoolSlots \cup {None}
    BY <1>0, <1>13, ReleaseSlotEffect DEF Inv, Owners
  <2>2. QED
    BY <1>0, <1>1, <1>13, <2>1, ReleaseSlotEffect, ZeroTypes
<1>14. QED
  BY <1>3, <1>4, <1>5, <1>6, <1>7, <1>8, <1>9, <1>10, <1>11, <1>12, <1>13 DEF WalkStep

(* A step changes the slot of its walk and the store of its walk only.     *)
LEMMA Elsewhere ==
  ASSUME LedgerAssumption, Inv, NEW w \in Walks, WalkStep(w)
  PROVE  /\ \A s \in Slots : s # slotOf[w] /\ s # slotOf'[w] => ledger'[s] = ledger[s]
         /\ \A v \in Walks : v # w => delayed'[v] = delayed[v]
<1>0. LedgerTypeOK
  BY DEF Inv
<1>1. CASE Allocate(w)
  <2>1. CASE pool = {}
    BY <1>0, <1>1, <2>1, AllocateEffect
  <2>2. CASE pool # {}
    <3>1. PICK s \in pool : slotOf' = [slotOf EXCEPT ![w] = s] /\ ledger' = [ledger EXCEPT ![s] = 0]
      BY <1>0, <1>1, <2>2, AllocateEffect
    <3>2. slotOf'[w] = s /\ delayed' = delayed
      BY <1>0, <1>1, <3>1, AllocateEffect DEF LedgerTypeOK
    <3>3. QED
      BY <1>0, <3>1, <3>2 DEF LedgerTypeOK
  <2>3. QED
    BY <2>1, <2>2
<1>2. CASE Acquire(w)
  BY <1>0, <1>2, AcquireEffect
<1>3. CASE Publish(w)
  BY <1>0, <1>3, StoreEffect DEF Publish
<1>4. CASE ReadSlot(w)
  BY <1>4 DEF ReadSlot
<1>5. CASE TakeBack(w)
  BY <1>0, <1>5, TakeBackEffect, FlushEffect
<1>6. CASE Keep(w)
  BY <1>0, <1>6, KeepEffect, FlushEffect
<1>7. CASE Drain(w)
  BY <1>0, <1>7, DrainEffect, FlushEffect
<1>8. CASE Release(w)
  BY <1>0, <1>8, ReleaseEffect, FlushEffect
<1>9. CASE Kill(w)
  BY <1>0, <1>9, KillEffect, FlushEffect
<1>10. CASE Reclaim(w)
  BY <1>0, <1>10, ReclaimEffect, ZeroTypes
<1>11. CASE ReleaseSlot(w)
  BY <1>0, <1>11, ReleaseSlotEffect, ZeroTypes
<1>12. QED
  BY <1>1, <1>2, <1>3, <1>4, <1>5, <1>6, <1>7, <1>8, <1>9, <1>10, <1>11 DEF WalkStep

(* A session gets a slot from the pool and gives it back when its worker   *)
(* is dead.                                                                *)
LEMMA SlotMoves ==
  ASSUME LedgerAssumption, Inv, NEW w \in Walks, WalkStep(w)
  PROVE  \/ slotOf'[w] = slotOf[w] /\ pool' = pool /\ slotOf' = slotOf
         \/ walk[w].at = "closed" /\ slotOf'[w] \in pool /\ slotOf[w] = None /\ pool' = pool \ {slotOf'[w]}
         \/ walk[w].at = "dead" /\ slotOf'[w] = None /\ pool' = pool \cup ({slotOf[w]} \ {None})
<1>0. LedgerTypeOK /\ slotOf \in [Walks -> Slots \union {None}]
  BY DEF Inv, LedgerTypeOK
<1>1. CASE Allocate(w)
  <2>1. CASE pool = {}
    BY <1>0, <1>1, <2>1, AllocateEffect
  <2>2. CASE pool # {}
    <3>1. PICK s \in pool : slotOf' = [slotOf EXCEPT ![w] = s] /\ pool' = pool \ {s} /\ walk[w].at = "closed"
      BY <1>0, <1>1, <2>2, AllocateEffect
    <3>2. slotOf'[w] = s
      BY <1>0, <3>1
    <3>3. QED
      BY <3>1, <3>2 DEF Inv, Owners
  <2>3. QED
    BY <2>1, <2>2
<1>2. CASE Acquire(w)
  BY <1>2 DEF Acquire
<1>3. CASE Publish(w)
  BY <1>3 DEF Publish
<1>4. CASE ReadSlot(w)
  BY <1>4 DEF ReadSlot
<1>5. CASE TakeBack(w)
  BY <1>5 DEF TakeBack
<1>6. CASE Keep(w)
  BY <1>6 DEF Keep
<1>7. CASE Drain(w)
  BY <1>7 DEF Drain
<1>8. CASE Release(w)
  BY <1>8 DEF Release
<1>9. CASE Kill(w)
  BY <1>9 DEF Kill
<1>10. CASE Reclaim(w)
  BY <1>10 DEF Reclaim
<1>11. CASE ReleaseSlot(w)
  BY <1>0, <1>11, ReleaseSlotEffect
<1>12. QED
  BY <1>1, <1>2, <1>3, <1>4, <1>5, <1>6, <1>7, <1>8, <1>9, <1>10, <1>11 DEF WalkStep

(* A step of another walk changes nothing for an acquiring walk: neither   *)
(* its slot, nor its store, nor what the others of its slot have.          *)
LEMMA Undisturbed ==
  ASSUME LedgerAssumption, Inv, NEW w \in Walks, WalkStep(w), NEW u \in Walks, u # w, walk[u].at \in Acquiring
  PROVE  /\ ledger'[slotOf[u]] = ledger[slotOf[u]] /\ delayed'[u] = delayed[u]
         /\ slotOf[w] = slotOf[u] => slotOf'[w] = slotOf[w] /\ Tokens(w)' = Tokens(w)
         /\ slotOf[w] # slotOf[u] => slotOf'[w] # slotOf[u]
<1>0. LedgerTypeOK /\ walk[w] \in WalkRecord
  BY TokenTypes DEF Inv
<1>1. slotOf[u] # None /\ slotOf[u] \in Slots /\ slotOf[u] \notin pool
  BY <1>0 DEF Inv, Owners, LedgerTypeOK
<1>2. CASE slotOf[w] # slotOf[u]
  <2>1. slotOf'[w] # slotOf[u]
    BY <1>1, <1>2, SlotMoves
  <2>2. QED
    BY <1>1, <1>2, <2>1, Elsewhere
<1>3. CASE slotOf[w] = slotOf[u]
  <2>1. walk[w].at \notin Acquiring
    BY <1>3 DEF Inv, Leases
  <2>2. w \in InlineWalks
    BY <1>1, <1>3, Alone DEF Inv
  <2>3. delayed[w] = None
    BY <2>1 DEF Inv, Leases
  <2>4. walk[w].at \notin {"closed", "dead"}
    BY <2>2 DEF Inv, Owners
  <2>5. ~ LeaseFree(w)
    BY <1>3 DEF LeaseFree
  <2>6. Release(w) /\ walk[w].granted = 0
    <3>1. ~ Allocate(w) /\ ~ Reclaim(w) /\ ~ ReleaseSlot(w) /\ ~ Kill(w)
      BY <2>2, <2>4 DEF Allocate, Reclaim, ReleaseSlot, Kill
    <3>2. ~ Publish(w) /\ ~ ReadSlot(w) /\ ~ TakeBack(w) /\ ~ Keep(w) /\ ~ Drain(w)
      BY <2>1, <2>3 DEF Publish, ReadSlot, TakeBack, Keep, Drain, Acquiring
    <3>3. ~ Acquire(w)
      BY <1>1, <1>3, <2>5 DEF Acquire
    <3>4. Release(w)
      BY <3>1, <3>2, <3>3 DEF WalkStep
    <3>5. QED
      BY <1>0, <1>1, <1>3, <2>5, <3>4, ReleaseEffect
  <2>7. UNCHANGED <<ledger, delayed, slotOf>> /\ walk'[w] = Idle /\ walk[w].at = "walking"
    BY <1>0, <2>6, ReleaseEffect
  <2>8. Tokens(w)' = 0 /\ Tokens(w) = 0
    BY <2>6, <2>7 DEF Tokens, Running, InSlot, Idle, Acquiring
  <2>9. QED
    BY <1>3, <2>7, <2>8
<1>4. QED
  BY <1>2, <1>3

(* Every step keeps the owners of the slots.                               *)
LEMMA OwnersKept ==
  ASSUME LedgerAssumption, Inv, NEW w \in Walks, WalkStep(w), LedgerTypeOK'
  PROVE  Owners'
<1>0. LedgerTypeOK /\ Still(w) /\ walk[w] \in WalkRecord /\ slotOf \in [Walks -> Slots \union {None}]
  BY TokenTypes, StillStep DEF Inv, LedgerTypeOK
<1>a. Owners
  BY DEF Inv
<1>b. None \notin PoolSlots /\ None \notin pool /\ pool \subseteq PoolSlots /\ 0 \notin PoolSlots
  BY <1>0, SlotsAre DEF LedgerTypeOK, Slots
<1>1. ASSUME NEW u \in Walks, u # w
      PROVE  /\ u \in InlineWalks => slotOf'[u] = 0 /\ walk'[u].at \notin {"closed", "dead"}
             /\ u \notin InlineWalks => slotOf'[u] \in PoolSlots \cup {None}
             /\ slotOf'[u] \notin pool'
             /\ walk'[u].at = "closed" => slotOf'[u] = None
             /\ walk'[u].at \in Acquiring => slotOf'[u] # None
             /\ slotOf'[u] = None \/ walk'[u].at \in {"idle", "closed"} => walk'[u].granted = 0
  <2>1. slotOf'[u] = slotOf[u] /\ walk'[u].at = walk[u].at /\ walk'[u].granted = walk[u].granted
    BY <1>0, <1>1 DEF Still
  <2>2. slotOf[u] \notin pool'
    <3>1. CASE walk[w].at = "dead" /\ pool' = pool \cup ({slotOf[w]} \ {None})
      <4>1. w \notin InlineWalks
        BY <1>a, <3>1 DEF Owners
      <4>2. slotOf[w] # None => slotOf[u] # slotOf[w]
        BY <4>1, <1>1, <1>a, Alone
      <4>3. QED
        BY <3>1, <4>2, <1>a DEF Owners
    <3>2. CASE pool' \subseteq pool
      BY <3>2, <1>a DEF Owners
    <3>3. QED
      BY <3>1, <3>2, SlotMoves
  <2>3. QED
    BY <2>1, <2>2, <1>a DEF Owners
<1>2. /\ w \in InlineWalks => slotOf'[w] = 0 /\ walk'[w].at \notin {"closed", "dead"}
      /\ w \notin InlineWalks => slotOf'[w] \in PoolSlots \cup {None}
      /\ slotOf'[w] \notin pool'
      /\ walk'[w].at = "closed" => slotOf'[w] = None
      /\ walk'[w].at \in Acquiring => slotOf'[w] # None
      /\ slotOf'[w] = None \/ walk'[w].at \in {"idle", "closed"} => walk'[w].granted = 0
  <2>1. slotOf'[w] \notin pool' /\ (w \in InlineWalks => slotOf'[w] = 0)
        /\ (w \notin InlineWalks => slotOf'[w] \in PoolSlots \cup {None})
    BY <1>a, <1>b, SlotMoves DEF Owners
  <2>2. /\ w \in InlineWalks => walk'[w].at \notin {"closed", "dead"}
        /\ walk'[w].at = "closed" => slotOf'[w] = None
        /\ walk'[w].at \in Acquiring => slotOf'[w] # None
        /\ slotOf'[w] = None \/ walk'[w].at \in {"idle", "closed"} => walk'[w].granted = 0
    <3>1. CASE Allocate(w)
      BY <1>0, <1>a, <3>1, AllocateEffect, IdleIs DEF Owners, Acquiring
    <3>2. CASE Acquire(w)
      BY <1>0, <1>a, <3>2, AcquireEffect DEF Owners, Acquiring
    <3>3. CASE Publish(w)
      BY <1>0, <1>a, <3>3, PublishEffect DEF Owners, Acquiring
    <3>4. CASE ReadSlot(w)
      <4>1. Seen(w, walk[w].next) \in Nat
        BY <3>4, SeenTypes DEF Inv, ReadSlot
      <4>2. QED
        BY <1>0, <1>a, <3>4, <4>1, ReadEffect DEF Owners, Acquiring
    <3>5. CASE TakeBack(w)
      BY <1>0, <1>a, <3>5, TakeBackEffect DEF Owners, Acquiring
    <3>6. CASE Keep(w)
      BY <1>0, <1>a, <3>6, KeepEffect DEF Owners, Acquiring
    <3>7. CASE Drain(w)
      BY <1>0, <1>a, <3>7, DrainEffect DEF Owners
    <3>8. CASE Release(w)
      BY <1>0, <1>a, <3>8, ReleaseEffect, IdleIs DEF Owners, Acquiring
    <3>9. CASE Kill(w)
      BY <1>0, <1>a, <3>9, KillEffect DEF Owners, Acquiring
    <3>10. CASE Reclaim(w)
      BY <1>0, <1>a, <3>10, ReclaimEffect, IdleIs DEF Owners, Acquiring
    <3>11. CASE ReleaseSlot(w)
      BY <1>0, <1>a, <3>11, ReleaseSlotEffect DEF Owners, Acquiring
    <3>12. QED
      BY <3>1, <3>2, <3>3, <3>4, <3>5, <3>6, <3>7, <3>8, <3>9, <3>10, <3>11 DEF WalkStep
  <2>3. QED
    BY <2>1, <2>2
<1>3. ASSUME NEW v \in Walks \ InlineWalks, NEW u \in Walks \ InlineWalks, v # u, slotOf'[v] # None
      PROVE  slotOf'[v] # slotOf'[u]
  <2>1. \A x \in Walks : x # w => slotOf'[x] = slotOf[x] /\ slotOf[x] \notin pool
    BY <1>0, <1>a DEF Still, Owners
  <2>2. slotOf'[w] = slotOf[w] \/ slotOf'[w] \in pool \/ slotOf'[w] = None
    BY SlotMoves
  <2>3. slotOf[v] = None \/ slotOf[v] # slotOf[u]
    BY <1>a, <1>3 DEF Owners
  <2>4. slotOf[u] = None \/ slotOf[v] # slotOf[u]
    BY <1>a, <1>3 DEF Owners
  <2>5. QED
    BY <1>3, <2>1, <2>2, <2>3, <2>4
<1>4. QED
  BY <1>1, <1>2, <1>3 DEF Owners

(* Every step keeps the lease locks.                                       *)
LEMMA LeasesKept ==
  ASSUME LedgerAssumption, Inv, NEW w \in Walks, WalkStep(w), LedgerTypeOK'
  PROVE  Leases'
<1>0. LedgerTypeOK /\ Still(w) /\ walk[w] \in WalkRecord /\ slotOf \in [Walks -> Slots \union {None}]
  BY TokenTypes, StillStep DEF Inv, LedgerTypeOK
<1>a. Leases /\ Owners
  BY DEF Inv
<1>1. walk'[w].at \in Acquiring =>
        /\ slotOf'[w] = slotOf[w]
        /\ walk[w].at \in Acquiring \/ (walk[w].at \notin Acquiring /\ LeaseFree(w))
  <2>1. CASE Allocate(w) \/ Release(w) \/ Reclaim(w)
    BY <1>0, <2>1, AllocateEffect, ReleaseEffect, ReclaimEffect, IdleIs DEF Acquiring
  <2>2. CASE Kill(w) \/ ReleaseSlot(w)
    BY <1>0, <2>2, KillEffect, ReleaseSlotEffect DEF Acquiring
  <2>3. CASE Acquire(w)
    BY <1>0, <2>3, AcquireEffect DEF Acquiring
  <2>4. CASE Publish(w) \/ ReadSlot(w) \/ TakeBack(w) \/ Keep(w)
    BY <2>4 DEF Publish, ReadSlot, TakeBack, Keep, Acquiring
  <2>5. CASE Drain(w)
    BY <2>5 DEF Drain, Leases, Inv
  <2>6. QED
    BY <2>1, <2>2, <2>3, <2>4, <2>5 DEF WalkStep
<1>2. ASSUME NEW v \in Walks, v # w, slotOf'[v] = slotOf'[w], walk'[w].at \in Acquiring PROVE walk'[v].at \notin Acquiring
  <2>1. slotOf[v] = slotOf[w] /\ walk'[v].at = walk[v].at
    BY <1>0, <1>1, <1>2 DEF Still
  <2>2. QED
    BY <1>1, <1>2, <1>a, <2>1 DEF Leases, LeaseFree
<1>3. ASSUME NEW v \in Walks, NEW u \in Walks, v # u, slotOf'[v] = slotOf'[u]
      PROVE  walk'[v].at \notin Acquiring \/ walk'[u].at \notin Acquiring
  <2>1. CASE v = w \/ u = w
    BY <1>2, <1>3, <2>1
  <2>2. CASE v # w /\ u # w
    BY <1>0, <1>a, <1>3, <2>2 DEF Still, Leases
  <2>3. QED
    BY <2>1, <2>2
<1>4. ASSUME NEW v \in Walks, delayed'[v] # None
      PROVE  walk'[v].at \in Acquiring /\ Buffered /\ delayed'[v] = walk'[v].held + InSlot(v)'
  <2>1. CASE v # w
    <3>1. delayed'[v] = delayed[v] /\ InSlot(v)' = InSlot(v)
      BY <1>0, <2>1, Elsewhere, OtherTokens
    <3>2. QED
      BY <1>0, <1>a, <1>4, <2>1, <3>1 DEF Still, Leases
  <2>2. CASE v = w
    <3>1. CASE Allocate(w) \/ Acquire(w) \/ Reclaim(w) \/ ReleaseSlot(w) \/ Release(w)
      <4>1. delayed'[w] = None
        <5>1. delayed[w] = None
          BY <1>0, <1>a, <3>1, AllocateEffect, AcquireEffect, ReclaimEffect, ReleaseSlotEffect, ReleaseEffect DEF Leases, Acquiring
        <5>2. QED
          BY <1>0, <3>1, <5>1, AllocateEffect, AcquireEffect, ReclaimEffect, ReleaseSlotEffect, ReleaseEffect, FlushEffect
      <4>2. QED
        BY <4>1, <1>4, <2>2
    <3>2. CASE TakeBack(w) \/ Drain(w) \/ Kill(w)
      <4>1. delayed'[w] = None
        BY <1>0, <3>2, TakeBackEffect, DrainEffect, KillEffect, FlushEffect
      <4>2. QED
        BY <4>1, <1>4, <2>2
    <3>3. CASE Publish(w)
      <4>1. delayed'[w] = walk[w].held + walk[w].granted + 1 /\ Buffered
        BY <1>0, <1>4, <2>2, <3>3, StoreEffect DEF Publish
      <4>2. InSlot(w)' = walk[w].granted + 1 /\ walk'[w].held = walk[w].held /\ walk'[w].at \in Acquiring
        BY <1>0, <3>3, PublishEffect DEF InSlot, Acquiring
      <4>3. QED
        BY <1>0, <2>2, <4>1, <4>2 DEF WalkRecord
    <3>4. CASE ReadSlot(w)
      <4>1. Seen(w, walk[w].next) \in Nat
        BY <3>4, SeenTypes DEF Inv, ReadSlot
      <4>2. InSlot(w)' = InSlot(w) /\ walk'[w].held = walk[w].held /\ walk'[w].at \in Acquiring /\ delayed' = delayed
        BY <1>0, <3>4, <4>1, ReadEffect DEF InSlot, Acquiring
      <4>3. QED
        BY <1>a, <1>4, <2>2, <4>2 DEF Leases
    <3>5. CASE Keep(w)
      <4>1. CASE More(w)
        <5>1. InSlot(w)' = InSlot(w) /\ walk'[w].held = walk[w].held /\ walk'[w].at \in Acquiring /\ delayed' = delayed
          BY <1>0, <3>5, <4>1, KeepEffect DEF InSlot, Acquiring, WalkRecord
        <5>2. QED
          BY <1>a, <1>4, <2>2, <5>1 DEF Leases
      <4>2. CASE ~ More(w)
        BY <1>0, <1>4, <2>2, <3>5, <4>2, KeepEffect, FlushEffect
      <4>3. QED
        BY <4>1, <4>2
    <3>6. QED
      BY <3>1, <3>2, <3>3, <3>4, <3>5 DEF WalkStep
  <2>3. QED
    BY <2>1, <2>2
<1>5. QED
  BY <1>3, <1>4 DEF Leases

(* A walk that acquires after a step did before it, or starts to with the  *)
(* lease lock free.                                                        *)
LEMMA StaysAcquiring ==
  ASSUME LedgerAssumption, Inv, NEW w \in Walks, WalkStep(w), walk'[w].at \in Acquiring
  PROVE  /\ slotOf' = slotOf
         /\ \/ walk[w].at \in Acquiring /\ walk'[w].held = walk[w].held
            \/ Acquire(w) /\ walk[w].at = "idle" /\ LeaseFree(w) /\ slotOf[w] # None /\ walk'[w].held = ledger[slotOf[w]]
<1>0. LedgerTypeOK /\ walk[w] \in WalkRecord
  BY TokenTypes DEF Inv
<1>1. ~ Allocate(w) /\ ~ Release(w) /\ ~ Reclaim(w)
  BY <1>0, AllocateEffect, ReleaseEffect, ReclaimEffect, IdleIs DEF Acquiring
<1>2. ~ Kill(w) /\ ~ ReleaseSlot(w)
  BY <1>0, KillEffect, ReleaseSlotEffect DEF Acquiring
<1>3. CASE Acquire(w)
  BY <1>0, <1>3, AcquireEffect DEF Acquiring
<1>4. CASE Publish(w)
  BY <1>0, <1>4, PublishEffect DEF Acquiring
<1>5. CASE ReadSlot(w)
  <2>1. Seen(w, walk[w].next) \in Nat
    BY <1>5, SeenTypes DEF Inv, ReadSlot
  <2>2. QED
    BY <1>0, <1>5, <2>1, ReadEffect DEF Acquiring
<1>6. CASE TakeBack(w)
  BY <1>0, <1>6, TakeBackEffect DEF Acquiring
<1>7. CASE Keep(w)
  BY <1>0, <1>7, KeepEffect DEF Acquiring
<1>8. CASE Drain(w)
  BY <1>0, <1>8, DrainEffect DEF Leases, Inv
<1>9. QED
  BY <1>1, <1>2, <1>3, <1>4, <1>5, <1>6, <1>7, <1>8 DEF WalkStep

(* What an acquiring walk remembers stays true.                            *)
LEMMA HeldKept ==
  ASSUME LedgerAssumption, Inv, NEW w \in Walks, WalkStep(w), NEW u \in Walks, walk'[u].at \in Acquiring
  PROVE  walk'[u].held = Sum(Others(u)', Walks)
<1>0. LedgerTypeOK /\ Still(w) /\ walk[w] \in WalkRecord
  BY TokenTypes, StillStep DEF Inv
<1>1. CASE u # w
  <2>1. walk[u].at \in Acquiring /\ walk'[u].held = walk[u].held
    BY <1>0, <1>1 DEF Still
  <2>2. Sum(Others(u)', Walks) = Sum(Others(u), Walks)
    <3>1. \/ slotOf[w] = slotOf[u] /\ slotOf'[w] = slotOf[u] /\ Tokens(w)' = Tokens(w)
          \/ slotOf[w] # slotOf[u] /\ slotOf'[w] # slotOf[u]
      BY <1>1, <2>1, Undisturbed
    <3>2. QED
      BY <1>0, <1>1, <3>1, OthersKept
  <2>3. QED
    BY <2>1, <2>2 DEF Inv, Exact
<1>2. CASE u = w
  <2>1. slotOf'[w] = slotOf[w]
    BY <1>2, StaysAcquiring
  <2>2. Sum(Others(w)', Walks) = Sum(Others(w), Walks)
    BY <1>0, <2>1, OthersKept
  <2>3. CASE walk[w].at \in Acquiring /\ walk'[w].held = walk[w].held
    BY <1>2, <2>2, <2>3 DEF Inv, Exact
  <2>4. CASE walk[w].at = "idle" /\ LeaseFree(w) /\ slotOf[w] # None /\ walk'[w].held = ledger[slotOf[w]]
    <3>1. Settled(w)
      BY <2>4, FreeSettled DEF Inv, Acquiring
    <3>2. ledger[slotOf[w]] = Sum(Others(w), Walks) + Tokens(w)
      BY <2>4, <3>1, SettledShare DEF Inv
    <3>3. Tokens(w) = 0 /\ Sum(Others(w), Walks) \in Nat
      BY <1>0, <2>4, OfTypes DEF Tokens, Running, Acquiring
    <3>4. QED
      BY <1>2, <2>2, <2>4, <3>2, <3>3
  <2>5. QED
    BY <1>2, <2>3, <2>4, StaysAcquiring
<1>3. QED
  BY <1>1, <1>2

(* In the slot of a session nobody else has anything.                      *)
LEMMA AloneShare ==
  ASSUME LedgerAssumption, Inv, NEW w \in Walks \ InlineWalks, slotOf[w] # None
  PROVE  Sum(Others(w), Walks) = 0 /\ Sum(Of(slotOf[w]), Walks) = Tokens(w)
<1>0. LedgerTypeOK /\ Owners /\ w \in Walks /\ IsFiniteSet(Walks)
  BY DEF Inv, LedgerAssumption
<1>1. \A v \in Walks : Others(w)[v] = 0
  BY <1>0, Alone DEF Others
<1>2. Sum(Others(w), Walks) = 0
  BY <1>0, <1>1, SumZero
<1>3. Sum(Of(slotOf[w]), Walks) = Sum(Others(w), Walks) + Tokens(w) /\ Tokens(w) \in Nat
  BY <1>0, OwnShare, TokenTypes
<1>4. QED
  BY <1>2, <1>3

(* A walk that keeps its slot leaves in it what the walks of the slot      *)
(* have.                                                                   *)
LEMMA OwnKept ==
  ASSUME LedgerAssumption, Inv, NEW w \in Walks, WalkStep(w), slotOf[w] # None, slotOf'[w] = slotOf[w],
         walk'[w].at # "dead", Settled(w)', LedgerTypeOK'
  PROVE  ledger'[slotOf[w]] = Sum(Others(w)', Walks) + Tokens(w)'
<1>0. LedgerTypeOK /\ Still(w) /\ walk[w] \in WalkRecord /\ slotOf[w] \in Slots
  BY TokenTypes, StillStep DEF Inv, LedgerTypeOK
<1>1. Sum(Others(w)', Walks) = Sum(Others(w), Walks) /\ Sum(Others(w), Walks) \in Nat
  BY <1>0, OthersKept, OfTypes DEF Inv
<1>2. \A v \in Walks : v # w => (slotOf[v] = slotOf[w] => delayed[v] = None)
  BY <1>0, Elsewhere DEF Settled, Still
<1>3. delayed'[w] = None
  BY DEF Settled
<1>5. walk[w].at \in Acquiring => walk[w].held = Sum(Others(w), Walks)
  BY DEF Inv, Exact
<1>6. delayed[w] = None /\ walk[w].at # "dead" => ledger[slotOf[w]] = Sum(Others(w), Walks) + Tokens(w)
  <2>1. delayed[w] = None => Settled(w)
    BY <1>2 DEF Settled
  <2>2. QED
    BY <2>1, SettledShare DEF Inv
<1>7. CASE UNCHANGED <<ledger, delayed>> /\ walk[w].at # "dead" /\ Tokens(w)' = Tokens(w)
  BY <1>1, <1>3, <1>6, <1>7
<1>8. CASE walk[w].at \in Acquiring /\ ledger'[slotOf[w]] = walk[w].held + Tokens(w)'
  BY <1>1, <1>5, <1>8
<1>9. CASE Allocate(w)
  <2>1. pool = {}
    BY <1>9, <1>0, SlotMoves, AllocateEffect DEF Inv, Owners, LedgerTypeOK
  <2>2. QED
    BY <1>0, <1>9, <2>1, AllocateEffect DEF Inv, Owners
<1>10. CASE Acquire(w)
  <2>1. Tokens(w)' = Tokens(w) /\ walk[w].at # "dead" /\ UNCHANGED <<ledger, delayed>>
    BY <1>0, <1>10, AcquireEffect DEF Tokens, Running, InSlot, Acquiring
  <2>2. QED
    BY <1>7, <2>1
<1>11. CASE Publish(w)
  <2>1. ledger'[slotOf[w]] = walk[w].held + walk[w].granted + 1
    <3>1. walk[w].held + walk[w].granted + 1 # None
      BY <1>0 DEF WalkRecord, None
    <3>2. QED
      BY <1>0, <1>3, <1>11, <3>1, StoreEffect DEF Publish
  <2>2. Tokens(w)' = walk[w].granted + 1 /\ walk[w].at \in Acquiring
    BY <1>0, <1>11, PublishEffect DEF Tokens, Running, InSlot, Acquiring
  <2>3. QED
    BY <1>0, <1>8, <2>1, <2>2 DEF WalkRecord
<1>12. CASE ReadSlot(w)
  <2>1. Seen(w, walk[w].next) \in Nat
    BY <1>12, SeenTypes DEF Inv, ReadSlot
  <2>2. Tokens(w)' = Tokens(w) /\ walk[w].at # "dead" /\ UNCHANGED <<ledger, delayed>>
    BY <1>0, <1>12, <2>1, ReadEffect DEF Tokens, Running, InSlot, Acquiring
  <2>3. QED
    BY <1>7, <2>2
<1>13. CASE TakeBack(w)
  <2>1. ledger'[slotOf[w]] = walk[w].held + walk[w].granted
    BY <1>0, <1>13, TakeBackEffect, FlushEffect
  <2>2. Tokens(w)' = walk[w].granted /\ walk[w].at \in Acquiring
    <3>1. walk'[w].at = "walking" /\ walk'[w].granted = walk[w].granted /\ walk[w].at = "decide" /\ walk[w].granted \in Nat
      BY <1>0, <1>13, TakeBackEffect DEF WalkRecord
    <3>2. QED
      BY <3>1 DEF Tokens, Running, InSlot, Acquiring
  <2>3. QED
    BY <1>8, <2>1, <2>2
<1>14. CASE Keep(w)
  <2>1. walk'[w].at \in {"publish", "walking"} /\ walk'[w].granted = walk[w].granted + 1 /\ walk[w].at = "decide" /\ walk[w].granted \in Nat
    BY <1>0, <1>14, KeepEffect DEF WalkRecord
  <2>2. Tokens(w)' = walk[w].granted + 1 /\ Tokens(w) = walk[w].granted + 1 /\ InSlot(w) = walk[w].granted + 1
    BY <2>1 DEF Tokens, Running, InSlot, Acquiring
  <2>3. CASE More(w)
    BY <1>0, <1>7, <1>14, <2>1, <2>2, <2>3, KeepEffect
  <2>4. CASE ~ More(w)
    <3>1. Seen(w, slotOf[w]) = walk[w].held + InSlot(w)
      BY <2>1, OwnSeen DEF Inv, Acquiring
    <3>2. ledger'[slotOf[w]] = Seen(w, slotOf[w])
      BY <1>0, <1>14, <2>4, KeepEffect, FlushEffect
    <3>3. QED
      BY <1>8, <2>1, <2>2, <3>1, <3>2 DEF Acquiring
  <2>5. QED
    BY <2>3, <2>4
<1>15. CASE Drain(w)
  <2>1. walk[w].at \in Acquiring /\ delayed[w] = walk[w].held + InSlot(w)
    BY <1>0, <1>15, DrainEffect DEF Inv, Leases
  <2>2. ledger'[slotOf[w]] = delayed[w] /\ Tokens(w)' = InSlot(w)
    BY <1>0, <1>15, <2>1, DrainEffect, FlushEffect DEF Tokens, Running, InSlot
  <2>3. QED
    BY <1>8, <2>1, <2>2
<1>16. CASE Release(w)
  <2>1. Tokens(w)' = 0
    BY <1>0, <1>16, ReleaseEffect, IdleIs DEF Tokens, Running, Acquiring
  <2>2. CASE walk[w].granted = 0
    <3>1. Tokens(w) = 0 /\ walk[w].at # "dead" /\ UNCHANGED <<ledger, delayed>>
      BY <1>0, <1>16, <2>2, ReleaseEffect DEF Tokens, Running, InSlot
    <3>2. QED
      BY <1>7, <2>1, <3>1
  <2>3. CASE walk[w].granted # 0
    <3>1. LeaseFree(w) /\ StoreFlushed(w, GivenBack(w)) /\ walk[w].at = "walking"
      BY <1>0, <1>16, <2>3, ReleaseEffect
    <3>2. GivenBack(w) = Sum(Others(w), Walks)
      BY <3>1, ReleasedAll
    <3>3. ledger'[slotOf[w]] = GivenBack(w)
      BY <1>0, <3>1, FlushEffect
    <3>4. QED
      BY <1>1, <2>1, <3>2, <3>3
  <2>4. QED
    BY <2>2, <2>3
<1>17. CASE Kill(w)
  BY <1>0, <1>17, KillEffect
<1>18. CASE Reclaim(w)
  <2>1. w \notin InlineWalks
    BY <1>0, <1>18, ReclaimEffect DEF Inv, Owners
  <2>2. Sum(Others(w), Walks) = 0
    BY <2>1, AloneShare
  <2>3. Tokens(w)' = 0
    BY <1>0, <1>18, ReclaimEffect, IdleIs DEF Tokens, Running, Acquiring
  <2>4. ledger'[slotOf[w]] = 0
    BY <1>0, <1>18, ReclaimEffect, ZeroTypes
  <2>5. QED
    BY <1>1, <2>2, <2>3, <2>4
<1>19. CASE ReleaseSlot(w)
  BY <1>0, <1>19, ReleaseSlotEffect
<1>20. QED
  BY <1>9, <1>10, <1>11, <1>12, <1>13, <1>14, <1>15, <1>16, <1>17, <1>18, <1>19 DEF WalkStep

(* In a free slot nobody has anything.                                     *)
LEMMA FreeSlotsEmpty ==
  ASSUME LedgerAssumption, Inv, NEW s, \A v \in Walks : slotOf[v] # s
  PROVE  Sum(Of(s), Walks) = 0
  BY SumZero DEF Of, LedgerAssumption

(* Every step keeps the slots exact.                                       *)
LEMMA ExactKept ==
  ASSUME LedgerAssumption, Inv, NEW w \in Walks, WalkStep(w), LedgerTypeOK'
  PROVE  Exact'
<1>0. LedgerTypeOK /\ Still(w) /\ walk[w] \in WalkRecord /\ slotOf \in [Walks -> Slots \cup {None}] /\ None \notin Slots
  BY TokenTypes, StillStep, SlotsAre DEF Inv, LedgerTypeOK
<1>1. ASSUME NEW s \in Slots, \A v \in Walks : slotOf'[v] = s => walk'[v].at # "dead" /\ delayed'[v] = None
      PROVE  ledger'[s] = Sum(Of(s)', Walks)
  <2>1. Sum(Of(s)', Walks) = Sum(Of(s), Walks) - Of(s)[w] + Of(s)'[w]
    BY <1>0, OfChange
  <2>2. Sum(Of(s), Walks) \in Nat
    BY <1>0, OfTypes
  <2>3. CASE s # slotOf[w] /\ s # slotOf'[w]
    <3>1. Of(s)[w] = 0 /\ Of(s)'[w] = 0
      BY <2>3 DEF Of
    <3>2. ledger'[s] = ledger[s]
      BY <2>3, Elsewhere
    <3>3. \A v \in Walks : slotOf[v] = s => walk[v].at # "dead" /\ delayed[v] = None
      BY <1>0, <1>1, <2>3, Elsewhere DEF Still
    <3>4. ledger[s] = Sum(Of(s), Walks)
      BY <3>3 DEF Inv, Exact
    <3>5. QED
      BY <2>1, <2>2, <3>1, <3>2, <3>4
  <2>4. CASE s = slotOf[w] /\ s = slotOf'[w]
    <3>1. Settled(w)' /\ walk'[w].at # "dead" /\ slotOf[w] # None
      BY <1>0, <1>1, <2>4 DEF Settled
    <3>2. ledger'[s] = Sum(Others(w)', Walks) + Tokens(w)'
      BY <2>4, <3>1, OwnKept
    <3>3. Sum(Others(w)', Walks) = Sum(Others(w), Walks)
      BY <1>0, <2>4, OthersKept
    <3>4. Sum(Of(s), Walks) = Sum(Others(w), Walks) + Tokens(w)
      BY <1>0, <2>4, OwnShare
    <3>5. Of(s)[w] = Tokens(w) /\ Of(s)'[w] = Tokens(w)'
      BY <2>4 DEF Of
    <3>6. Tokens(w) \in Nat /\ Sum(Others(w), Walks) \in Nat
      BY <1>0, TokenTypes, OfTypes
    <3>7. QED
      BY <2>1, <3>2, <3>3, <3>4, <3>5, <3>6
  <2>5. CASE s = slotOf[w] /\ s # slotOf'[w]
    <3>1. walk[w].at = "dead" /\ slotOf'[w] = None /\ slotOf[w] # None
      BY <1>0, <2>5, SlotMoves
    <3>2. w \notin InlineWalks
      BY <3>1 DEF Inv, Owners
    <3>3. Sum(Of(s), Walks) = Tokens(w) /\ Tokens(w) = 0
      BY <2>5, <3>1, <3>2, AloneShare DEF Tokens, Running, Acquiring
    <3>4. Of(s)[w] = 0 /\ Of(s)'[w] = 0
      BY <2>5, <3>3 DEF Of
    <3>5. ReleaseSlot(w)
      <4>1. ~ Reclaim(w)
        BY <2>5 DEF Reclaim
      <4>2. QED
        BY <3>1, <4>1 DEF WalkStep, Allocate, Acquire, Publish, ReadSlot, TakeBack, Keep, Drain, Release, Kill, Inv, Leases, Acquiring
    <3>6. ledger'[s] = 0
      BY <1>0, <2>5, <3>1, <3>5, ReleaseSlotEffect, ZeroTypes
    <3>7. QED
      BY <2>1, <3>3, <3>4, <3>6
  <2>6. CASE s # slotOf[w] /\ s = slotOf'[w]
    <3>1. walk[w].at = "closed" /\ s \in pool
      BY <1>0, <2>6, SlotMoves
    <3>2. Sum(Of(s), Walks) = 0
      BY <3>1, FreeSlotsEmpty DEF Inv, Owners
    <3>3. Allocate(w)
      BY <3>1 DEF WalkStep, Reclaim, Acquire, Publish, ReadSlot, TakeBack, Keep, Drain, Release, Kill, ReleaseSlot, Inv, Leases, Acquiring
    <3>4. PICK t \in pool : slotOf' = [slotOf EXCEPT ![w] = t] /\ ledger' = [ledger EXCEPT ![t] = 0]
      BY <1>0, <3>1, <3>3, AllocateEffect
    <3>5. t = s /\ ledger'[s] = 0
      BY <1>0, <2>6, <3>4 DEF LedgerTypeOK
    <3>6. Of(s)[w] = 0 /\ Of(s)'[w] = 0
      <4>1. Tokens(w)' = 0
        BY <1>0, <3>3, AllocateEffect, IdleIs DEF Tokens, Running, Acquiring
      <4>2. QED
        BY <2>6, <4>1 DEF Of
    <3>7. QED
      BY <2>1, <3>2, <3>5, <3>6
  <2>7. QED
    BY <2>3, <2>4, <2>5, <2>6
<1>2. QED
  BY <1>1, HeldKept DEF Exact

(* Others see in the slot of an acquiring walk no more than it has.        *)
LEMMA OwnAtMost ==
  ASSUME LedgerAssumption, Inv, NEW w \in Walks, walk[w].at \in Acquiring
  PROVE  ledger[slotOf[w]] <= walk[w].held + InSlot(w) /\ slotOf[w] \in Slots
<1>0. slotOf[w] \in Slots /\ slotOf[w] # None
  BY DEF Inv, LedgerTypeOK, Owners
<1>1. CASE delayed[w] # None
  BY <1>0, <1>1 DEF Inv, Late, Leases
<1>2. CASE delayed[w] = None
  <2>1. Seen(w, slotOf[w]) = walk[w].held + InSlot(w) /\ Seen(w, slotOf[w]) = ledger[slotOf[w]]
    BY <1>2, OwnSeen DEF Inv, Seen
  <2>2. ledger[slotOf[w]] \in Nat
    BY <1>0 DEF Inv, LedgerTypeOK
  <2>3. QED
    BY <1>0, <2>1, <2>2
<1>3. QED
  BY <1>1, <1>2

(* Every step keeps what is seen late below what it will be.               *)
LEMMA LateKept ==
  ASSUME LedgerAssumption, Inv, NEW w \in Walks, WalkStep(w), Leases'
  PROVE  Late'
<1>0. LedgerTypeOK /\ Still(w) /\ walk[w] \in WalkRecord
  BY TokenTypes, StillStep DEF Inv
<1>1. ASSUME NEW u \in Walks, delayed'[u] # None PROVE ledger'[slotOf'[u]] <= delayed'[u]
  <2>1. CASE u # w
    <3>1. delayed[u] # None /\ slotOf'[u] = slotOf[u]
      BY <1>0, <1>1, <2>1, Elsewhere DEF Still
    <3>2. ledger[slotOf[u]] <= delayed[u] /\ walk[u].at \in Acquiring
      BY <3>1 DEF Inv, Leases, Late
    <3>3. QED
      BY <2>1, <3>1, <3>2, Undisturbed
  <2>2. CASE u = w
    <3>1. walk'[w].at \in Acquiring
      BY <1>1, <2>2 DEF Leases
    <3>2. slotOf' = slotOf
      BY <3>1, StaysAcquiring
    <3>3. CASE UNCHANGED <<ledger, delayed>>
      BY <1>1, <2>2, <3>2, <3>3 DEF Inv, Late
    <3>4. CASE Publish(w)
      <4>1. delayed'[w] = walk[w].held + walk[w].granted + 1 /\ ledger' = ledger
        BY <1>0, <1>1, <2>2, <3>4, StoreEffect DEF Publish
      <4>2. ledger[slotOf[w]] <= walk[w].held + InSlot(w) /\ slotOf[w] \in Slots
        BY <3>4, OwnAtMost DEF Publish, Acquiring
      <4>3. InSlot(w) = walk[w].granted /\ walk[w].granted \in Nat /\ walk[w].held \in Nat
        BY <1>0, <3>4 DEF InSlot, Publish, WalkRecord
      <4>4. ledger[slotOf[w]] \in Nat
        BY <1>0, <4>2 DEF LedgerTypeOK
      <4>5. QED
        BY <2>2, <3>2, <4>1, <4>2, <4>3, <4>4
    <3>5. CASE TakeBack(w) \/ Drain(w) \/ (Keep(w) /\ ~ More(w)) \/ (Kill(w) /\ delayed[w] # None)
      <4>1. delayed'[w] = None
        BY <1>0, <3>5, TakeBackEffect, DrainEffect, KeepEffect, KillEffect, FlushEffect
      <4>2. QED
        BY <4>1, <1>1, <2>2
    <3>6. ~ Publish(w) /\ ~ (TakeBack(w) \/ Drain(w) \/ (Keep(w) /\ ~ More(w)) \/ (Kill(w) /\ delayed[w] # None)) => UNCHANGED <<ledger, delayed>>
      <4>1. ~ Kill(w) /\ ~ Release(w) /\ ~ Reclaim(w) /\ ~ Allocate(w) /\ ~ ReleaseSlot(w)
        BY <1>0, <3>1, KillEffect, ReleaseEffect, ReclaimEffect, AllocateEffect, ReleaseSlotEffect, IdleIs DEF Acquiring
      <4>2. Acquire(w) \/ ReadSlot(w) => UNCHANGED <<ledger, delayed>>
        BY DEF Acquire, ReadSlot
      <4>3. Keep(w) /\ More(w) => UNCHANGED <<ledger, delayed>>
        BY <1>0, KeepEffect
      <4>4. QED
        BY <4>1, <4>2, <4>3 DEF WalkStep
    <3>7. QED
      BY <3>3, <3>4, <3>5, <3>6
  <2>3. QED
    BY <2>1, <2>2
<1>2. QED
  BY <1>1 DEF Late

(* What Shares says of a walk,                                             *)
ShareOf(u) ==
  /\ walk[u].granted <= Want[u]
  /\ walk[u].at \in Acquiring => walk[u].granted + 1 <= Want[u]
  /\ walk[u].at = "read" => walk[u].next <= Top
  /\ walk[u].at = "decide" => walk[u].next = Top + 1
  /\ walk[u].granted <= Total
  /\ walk[u].at \in Pending /\ slotOf[u] < walk[u].next => InSlot(u) <= walk[u].sum
  /\ walk[u].at = "walking" /\ slotOf[u] # None /\ walk[u].granted < Want[u] =>
       walk[u].next = Top + 1 /\ walk[u].sum > Total
(* and of the slot of a dead worker.                                       *)
DeadShare(u) == walk[u].at = "dead" /\ slotOf[u] # None => ledger[slotOf[u]] <= Want[u]
(* The two are all of Shares.                                              *)
LEMMA SharesAre == Shares <=> \A u \in Walks : ShareOf(u) /\ DeadShare(u)
  BY DEF Shares, ShareOf, DeadShare

(* A walk stays within what it wants and the total: what it counts         *)
(* includes its own slot, so a token that would be over the total is taken *)
(* back.                                                                   *)
LEMMA OwnShareKept ==
  ASSUME LedgerAssumption, Inv, NEW w \in Walks, WalkStep(w)
  PROVE  ShareOf(w)'
<1>0. LedgerTypeOK /\ walk[w] \in WalkRecord /\ ShareOf(w) /\ slotOf[w] \in Slots \cup {None}
  BY TokenTypes, SharesAre DEF Inv, LedgerTypeOK
<1>t. /\ Total \in Nat /\ Top \in Nat /\ Want[w] \in Nat /\ Want[w] >= 1 /\ walk[w].granted \in Nat
      /\ walk[w].next \in Nat /\ walk[w].sum \in Nat /\ walk[w].held \in Nat /\ InSlot(w) \in Nat
  BY <1>0, TokenTypes, ConstantTypes DEF WalkRecord
<1>i. ASSUME walk'[w].granted = 0, walk'[w].at \in {"idle", "closed", "publish"} PROVE ShareOf(w)'
  BY <1>t, <1>i DEF ShareOf, Acquiring, Pending
<1>1. CASE Allocate(w) \/ Release(w) \/ Reclaim(w) \/ ReleaseSlot(w)
  BY <1>0, <1>1, <1>i, AllocateEffect, ReleaseEffect, ReclaimEffect, ReleaseSlotEffect, IdleIs
<1>2. CASE Acquire(w)
  <2>1. CASE slotOf[w] = None
    <3>1. walk'[w].at = "walking" /\ walk'[w].granted = walk[w].granted /\ slotOf'[w] = None
      BY <1>0, <1>2, <2>1, AcquireEffect
    <3>2. QED
      BY <1>0, <3>1 DEF ShareOf, Acquiring, Pending
  <2>2. CASE slotOf[w] # None
    BY <1>0, <1>2, <1>i, <2>2, AcquireEffect
  <2>3. QED
    BY <2>1, <2>2
<1>3. CASE Publish(w)
  <2>1. /\ walk[w].at = "publish" /\ walk'[w].at = "read" /\ walk'[w].granted = walk[w].granted /\ walk'[w].next = 0
        /\ slotOf'[w] = slotOf[w]
    BY <1>0, <1>3, PublishEffect
  <2>2. slotOf[w] \in Nat
    BY <1>0, <2>1, SlotsAre DEF Inv, Owners, Acquiring
  <2>3. QED
    BY <1>0, <1>t, <2>1, <2>2 DEF ShareOf, Acquiring, Pending
<1>4. CASE ReadSlot(w)
  <2>1. walk[w].at = "read" /\ Seen(w, walk[w].next) \in Nat /\ walk[w].next \in Slots
    BY <1>4, SeenTypes DEF Inv, ReadSlot
  <2>2. /\ walk'[w].at = (IF walk[w].next = Top THEN "decide" ELSE "read")
        /\ walk'[w].granted = walk[w].granted /\ walk'[w].next = walk[w].next + 1 /\ walk'[w].sum = walk[w].sum + Seen(w, walk[w].next)
        /\ slotOf'[w] = slotOf[w]
    BY <1>0, <1>4, <2>1, ReadEffect
  <2>3. InSlot(w)' = InSlot(w) /\ InSlot(w) = walk[w].granted + 1
    BY <2>1, <2>2 DEF InSlot
  <2>4. Seen(w, slotOf[w]) = walk[w].held + InSlot(w)
    BY <2>1, OwnSeen DEF Inv, Acquiring
  <2>5. slotOf[w] < walk[w].next + 1 => InSlot(w) <= walk[w].sum + Seen(w, walk[w].next)
    <3>1. slotOf[w] \in Int
      BY <1>0, SlotsAre DEF None
    <3>2. CASE slotOf[w] < walk[w].next
      BY <1>0, <1>t, <2>1, <3>2 DEF ShareOf, Pending
    <3>3. CASE slotOf[w] = walk[w].next
      BY <1>t, <2>1, <2>4, <3>3
    <3>4. QED
      BY <1>t, <3>1, <3>2, <3>3
  <2>6. walk[w].next <= Top
    BY <1>0, <2>1 DEF ShareOf
  <2>7. QED
    BY <1>0, <1>t, <2>1, <2>2, <2>3, <2>5, <2>6 DEF ShareOf, Acquiring, Pending
<1>5. CASE TakeBack(w)
  <2>1. /\ walk[w].at = "decide" /\ walk'[w].at = "walking" /\ walk'[w].granted = walk[w].granted /\ walk'[w].next = walk[w].next
        /\ walk'[w].sum = walk[w].sum /\ walk[w].sum > Total
    BY <1>0, <1>5, TakeBackEffect
  <2>2. QED
    BY <1>0, <2>1 DEF ShareOf, Acquiring, Pending
<1>6. CASE Keep(w)
  <2>1. /\ walk[w].at = "decide" /\ walk'[w].at = (IF More(w) THEN "publish" ELSE "walking")
        /\ walk'[w].granted = walk[w].granted + 1 /\ ~ (walk[w].sum > Total)
    BY <1>0, <1>6, KeepEffect
  <2>2. walk[w].next = Top + 1 /\ slotOf[w] < walk[w].next
    BY <1>0, <1>t, <2>1, SlotsAre DEF ShareOf, None
  <2>3. InSlot(w) = walk[w].granted + 1 /\ InSlot(w) <= walk[w].sum
    BY <1>0, <2>1, <2>2 DEF ShareOf, Pending, InSlot
  <2>4. walk[w].granted + 1 <= Total /\ walk[w].granted + 1 <= Want[w]
    BY <1>0, <1>t, <2>1, <2>3 DEF ShareOf, Acquiring
  <2>5. CASE More(w)
    BY <1>t, <2>1, <2>4, <2>5 DEF ShareOf, Acquiring, Pending, More
  <2>6. CASE ~ More(w)
    BY <1>t, <2>1, <2>4, <2>6 DEF ShareOf, Acquiring, Pending, More
  <2>7. QED
    BY <2>5, <2>6
<1>7. CASE Drain(w)
  <2>1. walk' = walk /\ slotOf' = slotOf
    BY <1>0, <1>7, DrainEffect
  <2>2. QED
    BY <1>0, <2>1 DEF ShareOf, InSlot
<1>8. CASE Kill(w)
  <2>1. walk'[w].at = "dead" /\ walk'[w].granted = walk[w].granted
    BY <1>0, <1>8, KillEffect
  <2>2. QED
    BY <1>0, <2>1 DEF ShareOf, Acquiring, Pending
<1>9. QED
  BY <1>1, <1>2, <1>3, <1>4, <1>5, <1>6, <1>7, <1>8 DEF WalkStep

(* A worker that dies leaves no more in its slot than its walk asked for.  *)
LEMMA OwnDeadKept ==
  ASSUME LedgerAssumption, Inv, NEW w \in Walks, WalkStep(w)
  PROVE  DeadShare(w)'
<1>0. LedgerTypeOK /\ walk[w] \in WalkRecord /\ ShareOf(w) /\ DeadShare(w)
  BY TokenTypes, SharesAre DEF Inv
<1>t. /\ Want[w] \in Nat /\ walk[w].granted \in Nat /\ walk[w].held \in Nat /\ InSlot(w) \in Nat
  BY <1>0, TokenTypes, ConstantTypes DEF WalkRecord
<1>1. CASE Kill(w) /\ slotOf[w] # None
  <2>1. w \notin InlineWalks /\ slotOf'[w] = slotOf[w]
    BY <1>0, <1>1, KillEffect
  <2>2. Sum(Others(w), Walks) = 0
    BY <1>1, <2>1, AloneShare
  <2>3. slotOf[w] \in Slots
    BY <1>0, <1>1 DEF LedgerTypeOK
  <2>4. ledger[slotOf[w]] \in Nat
    BY <1>0, <2>3 DEF LedgerTypeOK
  <2>5. CASE walk[w].at \in Acquiring
    <3>1. walk[w].held = 0
      BY <2>2, <2>5 DEF Inv, Exact
    <3>2. InSlot(w) <= Want[w]
      BY <1>0, <1>t, <2>5 DEF ShareOf, InSlot
    <3>3. ledger[slotOf[w]] <= walk[w].held + InSlot(w)
      BY <2>5, OwnAtMost
    <3>4. ledger'[slotOf[w]] <= Want[w]
      <4>1. CASE delayed[w] = None
        BY <1>0, <1>1, <1>t, <2>4, <3>1, <3>2, <3>3, <4>1, KillEffect
      <4>2. CASE delayed[w] # None
        <5>1. ledger'[slotOf[w]] = delayed[w]
          BY <1>0, <1>1, <2>3, <4>2, KillEffect, FlushEffect
        <5>2. delayed[w] = walk[w].held + InSlot(w)
          BY <4>2 DEF Inv, Leases
        <5>3. QED
          BY <1>t, <3>1, <3>2, <5>1, <5>2
      <4>3. QED
        BY <4>1, <4>2
    <3>5. QED
      BY <2>1, <3>4 DEF DeadShare
  <2>6. CASE walk[w].at \notin Acquiring
    <3>1. delayed[w] = None
      BY <2>6 DEF Inv, Leases
    <3>2. Settled(w)
      <4>1. \A v \in Walks : slotOf[v] = slotOf[w] => v = w
        BY <1>1, <2>1, Alone DEF Inv
      <4>2. QED
        BY <3>1, <4>1 DEF Settled
    <3>3. ledger[slotOf[w]] = Sum(Others(w), Walks) + Tokens(w)
      BY <1>0, <1>1, <3>2, KillEffect, SettledShare DEF Inv
    <3>4. Tokens(w) <= Want[w] /\ Tokens(w) \in Nat
      BY <1>0, <1>t, <2>6 DEF ShareOf, Tokens, Running, InSlot, Acquiring
    <3>5. ledger' = ledger
      BY <1>0, <1>1, <3>1, KillEffect
    <3>6. QED
      BY <2>1, <2>2, <3>3, <3>4, <3>5 DEF DeadShare
  <2>7. QED
    BY <2>5, <2>6
<1>2. CASE Kill(w) /\ slotOf[w] = None
  BY <1>0, <1>2, KillEffect DEF DeadShare
<1>3. CASE Drain(w)
  BY <1>0, <1>3, DrainEffect DEF DeadShare, Inv, Leases, Acquiring
<1>4. CASE Allocate(w) \/ Release(w) \/ Reclaim(w) \/ ReleaseSlot(w)
  BY <1>0, <1>4, AllocateEffect, ReleaseEffect, ReclaimEffect, ReleaseSlotEffect, IdleIs DEF DeadShare
<1>5. CASE Acquire(w) \/ Publish(w) \/ TakeBack(w) \/ Keep(w)
  BY <1>0, <1>5, AcquireEffect, PublishEffect, TakeBackEffect, KeepEffect DEF DeadShare
<1>6. CASE ReadSlot(w)
  <2>1. Seen(w, walk[w].next) \in Nat
    BY <1>6, SeenTypes DEF Inv, ReadSlot
  <2>2. QED
    BY <1>0, <1>6, <2>1, ReadEffect DEF DeadShare
<1>7. QED
  BY <1>1, <1>2, <1>3, <1>4, <1>5, <1>6 DEF WalkStep

(* Every step keeps the shares.                                            *)
LEMMA SharesKept ==
  ASSUME LedgerAssumption, Inv, NEW w \in Walks, WalkStep(w)
  PROVE  Shares'
<1>0. LedgerTypeOK /\ Still(w) /\ \A u \in Walks : ShareOf(u) /\ DeadShare(u)
  BY StillStep, SharesAre DEF Inv
<1>1. ASSUME NEW u \in Walks, u # w PROVE ShareOf(u)' /\ DeadShare(u)'
  <2>1. /\ slotOf'[u] = slotOf[u] /\ walk'[u].at = walk[u].at /\ walk'[u].granted = walk[u].granted
        /\ walk'[u].next = walk[u].next /\ walk'[u].sum = walk[u].sum /\ InSlot(u)' = InSlot(u)
    BY <1>0, <1>1, OtherTokens DEF Still
  <2>2. ShareOf(u)'
    BY <1>0, <2>1 DEF ShareOf
  <2>3. ASSUME walk[u].at = "dead", slotOf[u] # None PROVE ledger'[slotOf[u]] = ledger[slotOf[u]]
    <3>1. u \notin InlineWalks /\ slotOf[u] \in Slots /\ slotOf[u] \notin pool
      BY <2>3 DEF Inv, Owners, LedgerTypeOK
    <3>2. slotOf[w] # slotOf[u]
      BY <1>1, <2>3, <3>1, Alone DEF Inv
    <3>3. slotOf'[w] # slotOf[u]
      BY <2>3, <3>1, <3>2, SlotMoves
    <3>4. QED
      BY <3>1, <3>2, <3>3, Elsewhere
  <2>4. DeadShare(u)'
    BY <1>0, <2>1, <2>3 DEF DeadShare
  <2>5. QED
    BY <2>2, <2>4
<1>2. \A u \in Walks : ShareOf(u)' /\ DeadShare(u)'
  BY <1>1, OwnShareKept, OwnDeadKept
<1>3. QED
  BY <1>2 DEF Shares, ShareOf, DeadShare

(* Every step keeps the invariant of the array.                            *)
LEMMA InvKept == ASSUME LedgerAssumption, Inv, Next PROVE Inv'
<1>1. PICK w \in Walks : WalkStep(w)
  BY DEF Next
<1>2. LedgerTypeOK'
  BY <1>1, TypesKept
<1>3. Owners' /\ Leases' /\ Exact' /\ Shares'
  BY <1>1, <1>2, OwnersKept, LeasesKept, ExactKept, SharesKept
<1>4. Late'
  BY <1>1, <1>3, LateKept
<1>5. QED
  BY <1>2, <1>3, <1>4 DEF Inv

-------------------------------------------------------------------------------
(* Nothing over the budget. A walk that decides may not have seen the last *)
(* tokens of others, so no bound on what one walk counts is inductive.     *)
(* What is: of any set A of walks that have published and not decided,     *)
(* were each to keep its token, the result would be within the total, or   *)
(* one of them counts at least what the slots it has read would then show. *)
(* A step takes a token only if that walk is not it.                       *)

(* The tokens a walk was granted.                                          *)
Kept(w) == IF Running(w) THEN walk[w].granted ELSE 0
(* With the token it would keep as one of A.                               *)
Claim(A, w) == Kept(w) + IF w \in A THEN 1 ELSE 0
(* These, for every walk.                                                  *)
Claims(A) == [w \in Walks |-> Claim(A, w)]
(* These, in the first n slots.                                            *)
Below(A, n) == [w \in Walks |-> IF slotOf[w] \in 0..(n - 1) THEN Claim(A, w) ELSE 0]
(* These, in slot s.                                                       *)
InOne(A, s) == [w \in Walks |-> IF slotOf[w] = s THEN Claim(A, w) ELSE 0]
(* The walks that have published and not decided.                          *)
Adding == {w \in Walks : walk[w].at \in Pending}
(* What holds of each such set.                                            *)
CoveredBy(A) == \/ Sum(Claims(A), Walks) <= Total
                \/ \E w \in A : Sum(Below(A, walk[w].next), Walks) <= walk[w].sum
(* That no keeping is over the total.                                      *)
Covered == ~Buffered => \A A \in SUBSET Adding : CoveredBy(A)

(* The claims are numbers.                                                 *)
LEMMA ClaimTypes ==
  ASSUME LedgerAssumption, LedgerTypeOK
  PROVE  /\ \A A : \A w \in Walks : Claim(A, w) \in Nat /\ Claims(A)[w] = Claim(A, w)
         /\ \A A : Sum(Claims(A), Walks) \in Nat
         /\ \A A, n : \A w \in Walks : Below(A, n)[w] \in Nat
         /\ \A A, n : Sum(Below(A, n), Walks) \in Nat
         /\ \A A, n : \A w \in Walks : InOne(A, n)[w] \in Nat
         /\ \A A, n : Sum(InOne(A, n), Walks) \in Nat
<1>0. IsFiniteSet(Walks)
  BY DEF LedgerAssumption
<1>1. ASSUME NEW A, NEW w \in Walks PROVE Claim(A, w) \in Nat /\ Claims(A)[w] = Claim(A, w)
  <2>1. walk[w].granted \in Nat
    BY TokenTypes DEF WalkRecord
  <2>2. QED
    BY <2>1 DEF Claim, Claims, Kept
<1>2. ASSUME NEW A PROVE Sum(Claims(A), Walks) \in Nat
  BY <1>0, <1>1, SumNat
<1>3. ASSUME NEW A, NEW n, NEW w \in Walks PROVE Below(A, n)[w] \in Nat /\ InOne(A, n)[w] \in Nat
  BY <1>1 DEF Below, InOne
<1>4. ASSUME NEW A, NEW n PROVE Sum(Below(A, n), Walks) \in Nat
  BY <1>0, <1>3, SumNat
<1>5. ASSUME NEW A, NEW n PROVE Sum(InOne(A, n), Walks) \in Nat
  BY <1>0, <1>3, SumNat
<1>6. QED
  BY <1>1, <1>2, <1>3, <1>4, <1>5

(* Without store buffers a slot shows at least what its walks claim.       *)
LEMMA SlotCovers ==
  ASSUME LedgerAssumption, Inv, ~Buffered, NEW A \in SUBSET Adding, NEW s \in Slots
  PROVE  Sum(InOne(A, s), Walks) <= ledger[s]
<1>0. LedgerTypeOK /\ IsFiniteSet(Walks) /\ (\A v \in Walks : delayed[v] = None) /\ ledger[s] \in Nat
  BY DEF Inv, Leases, LedgerAssumption, LedgerTypeOK
<1>1. CASE \E v \in Walks : slotOf[v] = s /\ walk[v].at = "dead"
  <2>1. PICK v \in Walks : slotOf[v] = s /\ walk[v].at = "dead"
    BY <1>1
  <2>2. v \notin InlineWalks /\ slotOf[v] # None
    BY <2>1, SlotsAre DEF Inv, Owners
  <2>3. ASSUME NEW u \in Walks PROVE InOne(A, s)[u] = 0
    <3>1. CASE u = v
      BY <2>1, <3>1 DEF InOne, Claim, Kept, Running, Adding, Pending, Acquiring
    <3>2. CASE u # v
      BY <2>1, <2>2, <3>2, Alone DEF InOne, Inv
    <3>3. QED
      BY <3>1, <3>2
  <2>4. Sum(InOne(A, s), Walks) = 0
    BY <1>0, <2>3, SumZero
  <2>5. QED
    BY <1>0, <2>4
<1>2. CASE ~ \E v \in Walks : slotOf[v] = s /\ walk[v].at = "dead"
  <2>1. ledger[s] = Sum(Of(s), Walks)
    BY <1>0, <1>2 DEF Inv, Exact
  <2>2. ASSUME NEW u \in Walks PROVE InOne(A, s)[u] \in Int /\ Of(s)[u] \in Int /\ InOne(A, s)[u] <= Of(s)[u]
    <3>1. InOne(A, s)[u] \in Nat /\ Of(s)[u] \in Nat
      BY <1>0, ClaimTypes, OfTypes
    <3>2. Claim(A, u) <= Tokens(u)
      <4>1. walk[u].granted \in Nat
        BY <1>0, TokenTypes DEF WalkRecord
      <4>2. u \in A => Running(u) /\ walk[u].at \in {"read", "decide"}
        BY DEF Adding, Pending, Running, Acquiring
      <4>3. QED
        BY <4>1, <4>2 DEF Claim, Kept, Tokens, InSlot
    <3>3. QED
      BY <3>1, <3>2 DEF InOne, Of
  <2>3. Sum(InOne(A, s), Walks) <= Sum(Of(s), Walks)
    BY <1>0, <2>2, SumAtMost
  <2>4. QED
    BY <2>1, <2>3
<1>3. QED
  BY <1>1, <1>2

(* One more slot.                                                          *)
LEMMA BelowGrows ==
  ASSUME LedgerAssumption, LedgerTypeOK, NEW A, NEW n \in Nat
  PROVE  Sum(Below(A, n + 1), Walks) = Sum(Below(A, n), Walks) + Sum(InOne(A, n), Walks)
<1>0. IsFiniteSet(Walks)
  BY DEF LedgerAssumption
<1>1. ASSUME NEW v \in Walks
      PROVE  /\ Below(A, n)[v] \in Int /\ InOne(A, n)[v] \in Int
             /\ Below(A, n + 1)[v] = Below(A, n)[v] + InOne(A, n)[v]
  <2>1. Below(A, n)[v] \in Nat /\ InOne(A, n)[v] \in Nat /\ Claim(A, v) \in Nat
    BY ClaimTypes
  <2>2. slotOf[v] \in 0..(n + 1 - 1) <=> slotOf[v] \in 0..(n - 1) \/ slotOf[v] = n
    OBVIOUS
  <2>3. ~ (slotOf[v] \in 0..(n - 1) /\ slotOf[v] = n)
    OBVIOUS
  <2>4. QED
    BY <2>1, <2>2, <2>3 DEF Below, InOne
<1>2. QED
  BY <1>0, <1>1, SumOfSums

(* A step that takes no token and keeps the walks of A where they are.     *)
LEMMA CoveredStays ==
  ASSUME LedgerAssumption, LedgerTypeOK, LedgerTypeOK', NEW A, A \subseteq Walks, CoveredBy(A),
         NEW w \in Walks, Still(w), Claim(A, w)' <= Claim(A, w), slotOf'[w] = slotOf[w] \/ Claim(A, w)' = 0,
         w \in A => walk'[w].next = walk[w].next /\ walk'[w].sum = walk[w].sum
  PROVE  CoveredBy(A)'
<1>0. IsFiniteSet(Walks)
  BY DEF LedgerAssumption
<1>1. ASSUME NEW v \in Walks
      PROVE  /\ Claim(A, v)' \in Nat /\ Claim(A, v) \in Nat /\ Claim(A, v)' <= Claim(A, v)
             /\ slotOf'[v] = slotOf[v] \/ Claim(A, v)' = 0
  <2>1. Claim(A, v) \in Nat
    BY ClaimTypes
  <2>2. Claim(A, v)' \in Nat
    <3>1. walk' \in [Walks -> WalkRecord]
      BY DEF LedgerTypeOK, WalkRecord, Steps
    <3>2. walk'[v].granted \in Nat
      BY <3>1 DEF WalkRecord
    <3>3. QED
      BY <3>2 DEF Claim, Kept
  <2>3. v # w => Claim(A, v)' = Claim(A, v) /\ slotOf'[v] = slotOf[v]
    BY DEF Still, Claim, Kept, Running
  <2>4. QED
    BY <2>1, <2>2, <2>3
<1>2. Sum(Claims(A)', Walks) <= Sum(Claims(A), Walks)
  <2>1. \A v \in Walks : Claims(A)'[v] \in Int /\ Claims(A)[v] \in Int /\ Claims(A)'[v] <= Claims(A)[v]
    BY <1>1 DEF Claims
  <2>2. QED
    BY <1>0, <2>1, SumAtMost
<1>3. ASSUME NEW n PROVE Sum(Below(A, n)', Walks) <= Sum(Below(A, n), Walks)
  <2>1. \A v \in Walks : Below(A, n)'[v] \in Int /\ Below(A, n)[v] \in Int /\ Below(A, n)'[v] <= Below(A, n)[v]
    BY <1>1 DEF Below
  <2>2. QED
    BY <1>0, <2>1, SumAtMost
<1>4. Sum(Claims(A), Walks) \in Int /\ Sum(Claims(A)', Walks) \in Int
  <2>1. \A v \in Walks : Claims(A)'[v] \in Int /\ Claims(A)[v] \in Int
    BY <1>1 DEF Claims
  <2>2. QED
    BY <1>0, <2>1, SumInt
<1>5. CASE Sum(Claims(A), Walks) <= Total
  BY <1>2, <1>4, <1>5, ConstantTypes DEF CoveredBy
<1>6. CASE \E v \in A : Sum(Below(A, walk[v].next), Walks) <= walk[v].sum
  <2>1. PICK v \in A : Sum(Below(A, walk[v].next), Walks) <= walk[v].sum
    BY <1>6
  <2>2. walk'[v].next = walk[v].next /\ walk'[v].sum = walk[v].sum /\ v \in Walks
    BY DEF Still
  <2>9. PICK n : n = walk[v].next
    OBVIOUS
  <2>3. Sum(Below(A, n)', Walks) <= Sum(Below(A, n), Walks)
    BY <1>3
  <2>4. Sum(Below(A, n), Walks) \in Int /\ walk[v].sum \in Int
    BY <2>2, ClaimTypes, TokenTypes DEF WalkRecord
  <2>5. Sum(Below(A, n)', Walks) \in Int
    <3>1. \A u \in Walks : Below(A, n)'[u] \in Int
      BY <1>1 DEF Below
    <3>2. QED
      BY <1>0, <3>1, SumInt
  <2>6. Sum(Below(A, n)', Walks) <= walk[v].sum
    BY <2>1, <2>3, <2>4, <2>5, <2>9
  <2>7. Below(A, n)' = Below(A, walk[v].next)'
    BY <2>2, <2>9 DEF Below
  <2>8. QED
    BY <2>2, <2>6, <2>7 DEF CoveredBy
<1>7. QED
  BY <1>5, <1>6 DEF CoveredBy

(* The other walks of A were adding up before the step.                    *)
LEMMA OthersAdding ==
  ASSUME NEW w \in Walks, Still(w), NEW A \in SUBSET (Adding')
  PROVE  A \subseteq Walks /\ (w \notin A => A \in SUBSET Adding) /\ A \cup {w} \subseteq Adding \cup {w}
  BY DEF Still, Adding

(* Every step keeps the bound. Keeping a token is the step the invariant   *)
(* is for: A with the walk that keeps was covered, and had that walk been  *)
(* the one that counts enough, it would have counted more than the total.  *)
LEMMA CoveredKept ==
  ASSUME LedgerAssumption, Inv, LedgerTypeOK', NEW w \in Walks, WalkStep(w), Covered
  PROVE  Covered'
<1>0. LedgerTypeOK /\ Still(w) /\ walk[w] \in WalkRecord /\ IsFiniteSet(Walks)
  BY TokenTypes, StillStep DEF Inv, LedgerAssumption
<1>t. /\ walk[w].granted \in Nat /\ walk[w].next \in Nat /\ walk[w].sum \in Nat /\ Total \in Nat /\ Top \in Nat
  BY <1>0, ConstantTypes DEF WalkRecord
<1>1. SUFFICES ASSUME ~Buffered, NEW A \in SUBSET (Adding') PROVE CoveredBy(A)'
  BY DEF Covered
<1>2. A \subseteq Walks /\ (w \notin A => A \in SUBSET Adding)
  BY <1>0, OthersAdding
<1>a. A \in SUBSET Adding => CoveredBy(A)
  BY <1>1 DEF Covered
<1>b. w \in A => walk'[w].at \in Pending
  BY DEF Adding
<1>3. CASE w \notin A /\ Kept(w)' <= Kept(w) /\ (slotOf'[w] = slotOf[w] \/ Kept(w)' = 0)
  <2>1. CoveredBy(A)
    BY <1>2, <1>3, <1>a
  <2>2. Claim(A, w)' = Kept(w)' /\ Claim(A, w) = Kept(w)
    <3>1. Kept(w) \in Nat
      BY <1>t DEF Kept
    <3>2. walk' \in [Walks -> WalkRecord]
      BY DEF LedgerTypeOK, WalkRecord, Steps
    <3>3. walk'[w] \in WalkRecord
      BY <3>2
    <3>4. Kept(w)' \in Nat
      BY <3>3 DEF Kept, WalkRecord
    <3>5. QED
      BY <1>3, <3>1, <3>4 DEF Claim
  <2>3. QED
    BY <1>0, <1>2, <1>3, <2>1, <2>2, CoveredStays
<1>4. CASE Allocate(w) \/ Reclaim(w) \/ ReleaseSlot(w) \/ Release(w) \/ Kill(w)
  <2>1. walk'[w].at \in {"idle", "closed", "dead"}
    BY <1>0, <1>4, AllocateEffect, ReclaimEffect, ReleaseSlotEffect, ReleaseEffect, KillEffect, IdleIs
  <2>2. Kept(w)' = 0 /\ w \notin A
    BY <1>b, <2>1 DEF Kept, Running, Acquiring, Pending
  <2>3. Kept(w) \in Nat
    BY <1>t DEF Kept
  <2>4. QED
    BY <1>3, <2>2, <2>3
<1>5. CASE Acquire(w)
  <2>1. walk'[w].at \in {"walking", "publish"} /\ walk'[w].granted = 0 /\ slotOf'[w] = slotOf[w]
    BY <1>0, <1>5, AcquireEffect DEF Inv, Owners
  <2>2. Kept(w)' = 0 /\ w \notin A
    BY <1>b, <2>1 DEF Kept, Running, Acquiring, Pending
  <2>3. Kept(w) \in Nat
    BY <1>t DEF Kept
  <2>4. QED
    BY <1>3, <2>1, <2>2, <2>3
<1>6. CASE TakeBack(w)
  <2>1. walk'[w].at = "walking" /\ walk'[w].granted = walk[w].granted /\ slotOf'[w] = slotOf[w] /\ walk[w].at = "decide"
    BY <1>0, <1>6, TakeBackEffect
  <2>2. Kept(w)' = Kept(w) /\ w \notin A
    BY <1>b, <2>1 DEF Kept, Running, Acquiring, Pending
  <2>3. Kept(w) \in Nat
    BY <1>t DEF Kept
  <2>4. QED
    BY <1>3, <2>1, <2>2, <2>3
<1>7. CASE Drain(w)
  <2>1. walk' = walk /\ slotOf' = slotOf
    BY <1>0, <1>7, DrainEffect
  <2>2. Claim(A, w)' = Claim(A, w) /\ Claim(A, w) \in Nat /\ A \in SUBSET Adding
    BY <1>0, <2>1, ClaimTypes DEF Claim, Kept, Running, Adding
  <2>3. QED
    BY <1>0, <1>2, <1>a, <2>1, <2>2, CoveredStays
<1>8. CASE Publish(w)
  <2>1. /\ walk[w].at = "publish" /\ walk'[w].at = "read" /\ walk'[w].granted = walk[w].granted /\ walk'[w].next = 0 /\ walk'[w].sum = 0
        /\ slotOf'[w] = slotOf[w]
    BY <1>0, <1>8, PublishEffect
  <2>2. CASE w \notin A
    <3>1. Kept(w)' = Kept(w)
      BY <2>1 DEF Kept, Running, Acquiring
    <3>2. Kept(w) \in Nat
      BY <1>t DEF Kept
    <3>3. QED
      BY <1>3, <2>1, <2>2, <3>1, <3>2
  <2>3. CASE w \in A
    <3>1. \A v \in Walks : Below(A, walk[w].next)'[v] = 0
      <4>1. 0..(walk'[w].next - 1) = {}
        BY <2>1
      <4>2. QED
        BY <4>1 DEF Below
    <3>2. Sum(Below(A, walk[w].next)', Walks) = 0
      BY <1>0, <3>1, SumZero
    <3>3. QED
      BY <2>1, <2>3, <3>2 DEF CoveredBy
  <2>4. QED
    BY <2>2, <2>3
<1>9. CASE ReadSlot(w)
  <2>1. walk[w].at = "read" /\ Seen(w, walk[w].next) \in Nat /\ walk[w].next \in Slots
    BY <1>9, SeenTypes DEF Inv, ReadSlot
  <2>2. /\ walk'[w].at = (IF walk[w].next = Top THEN "decide" ELSE "read")
        /\ walk'[w].granted = walk[w].granted /\ walk'[w].next = walk[w].next + 1 /\ walk'[w].sum = walk[w].sum + Seen(w, walk[w].next)
        /\ slotOf' = slotOf
    BY <1>0, <1>9, <2>1, ReadEffect
  <2>3. A \in SUBSET Adding
    BY <1>0, <2>1 DEF Adding, Pending, Still
  <2>4. \A v \in Walks : Claim(A, v)' = Claim(A, v)
    <3>1. Claim(A, w)' = Claim(A, w)
      BY <2>1, <2>2 DEF Claim, Kept, Running, Acquiring
    <3>2. ASSUME NEW v \in Walks, v # w PROVE Claim(A, v)' = Claim(A, v)
      BY <1>0, <3>2 DEF Still, Claim, Kept, Running
    <3>3. QED
      BY <3>1, <3>2
  <2>5. Claims(A)' = Claims(A) /\ \A n : Below(A, n)' = Below(A, n)
    <3>1. Claims(A)' = Claims(A)
      BY <2>4 DEF Claims
    <3>2. ASSUME NEW n PROVE Below(A, n)' = Below(A, n)
      BY <2>2, <2>4 DEF Below
    <3>3. QED
      BY <3>1, <3>2
  <2>6. CASE Sum(Claims(A), Walks) <= Total
    BY <2>5, <2>6 DEF CoveredBy
  <2>7. ASSUME NEW v \in A, Sum(Below(A, walk[v].next), Walks) <= walk[v].sum PROVE CoveredBy(A)'
    <3>1. v \in Walks
      BY <1>2
    <3>2. PICK n : n = walk[v].next
      OBVIOUS
    <3>3. CASE v # w
      <4>1. walk'[v].next = n /\ walk'[v].sum = walk[v].sum
        BY <1>0, <3>1, <3>2, <3>3 DEF Still
      <4>2. Below(A, walk[v].next)' = Below(A, n)'
        BY <4>1 DEF Below
      <4>3. QED
        BY <2>5, <2>7, <3>2, <4>1, <4>2 DEF CoveredBy
    <3>4. CASE v = w
      <4>1. n \in Nat /\ n \in Slots /\ walk'[w].next = n + 1
        BY <1>t, <2>1, <2>2, <3>2, <3>4
      <4>2. Sum(Below(A, n + 1), Walks) = Sum(Below(A, n), Walks) + Sum(InOne(A, n), Walks)
        BY <1>0, <4>1, BelowGrows
      <4>3. Sum(InOne(A, n), Walks) <= ledger[n]
        BY <1>1, <2>3, <4>1, SlotCovers
      <4>4. Seen(w, walk[w].next) = ledger[n]
        BY <1>1, <3>2, <3>4 DEF Seen, Inv, Leases
      <4>5. Sum(Below(A, n), Walks) \in Nat /\ Sum(InOne(A, n), Walks) \in Nat /\ ledger[n] \in Nat
        BY <1>0, <4>1, ClaimTypes DEF LedgerTypeOK
      <4>6. Sum(Below(A, n + 1), Walks) <= walk'[w].sum
        BY <1>t, <2>2, <2>7, <3>2, <3>4, <4>2, <4>3, <4>4, <4>5
      <4>7. Below(A, walk[w].next)' = Below(A, n + 1)
        <5>1. Below(A, walk[w].next)' = Below(A, n + 1)'
          BY <4>1 DEF Below
        <5>2. QED
          BY <2>5, <5>1
      <4>8. QED
        BY <2>7, <3>4, <4>6, <4>7 DEF CoveredBy
    <3>5. QED
      BY <3>3, <3>4
  <2>8. QED
    BY <1>a, <2>3, <2>6, <2>7 DEF CoveredBy
<1>10. CASE Keep(w)
  <2>1. /\ walk[w].at = "decide" /\ walk'[w].at \in {"publish", "walking"} /\ slotOf' = slotOf
        /\ walk'[w].granted = walk[w].granted + 1 /\ ~ (walk[w].sum > Total)
    BY <1>0, <1>10, KeepEffect
  <2>2. w \notin A
    BY <1>b, <2>1 DEF Pending
  <2>3. PICK B : B = A \cup {w}
    OBVIOUS
  <2>4. B \in SUBSET Adding
    BY <1>2, <2>1, <2>2, <2>3 DEF Adding, Pending
  <2>5. CoveredBy(B)
    BY <1>1, <2>4 DEF Covered
  <2>6. \A v \in Walks : Claim(A, v)' = Claim(B, v)
    <3>1. Claim(A, w)' = Claim(B, w)
      <4>1. Kept(w)' = walk[w].granted + 1 /\ Kept(w) = walk[w].granted
        BY <2>1 DEF Kept, Running, Acquiring
      <4>2. QED
        BY <1>t, <2>2, <2>3, <4>1 DEF Claim
    <3>2. ASSUME NEW v \in Walks, v # w PROVE Claim(A, v)' = Claim(B, v)
      BY <1>0, <2>3, <3>2 DEF Still, Claim, Kept, Running
    <3>3. QED
      BY <3>1, <3>2
  <2>7. Claims(A)' = Claims(B)
    BY <2>6 DEF Claims
  <2>8. ASSUME NEW n PROVE Below(A, n)' = Below(B, n)
    BY <2>1, <2>6 DEF Below
  <2>9. CASE Sum(Claims(B), Walks) <= Total
    BY <2>7, <2>9 DEF CoveredBy
  <2>10. ASSUME NEW v \in B, Sum(Below(B, walk[v].next), Walks) <= walk[v].sum PROVE CoveredBy(A)'
    <3>1. v \in Walks
      BY <2>4 DEF Adding
    <3>2. PICK n : n = walk[v].next
      OBVIOUS
    <3>3. CASE v # w
      <4>1. walk'[v].next = n /\ walk'[v].sum = walk[v].sum /\ v \in A
        BY <1>0, <2>3, <3>1, <3>2, <3>3 DEF Still
      <4>2. Below(A, walk[v].next)' = Below(B, n)
        <5>1. Below(A, walk[v].next)' = Below(A, n)'
          BY <4>1 DEF Below
        <5>2. QED
          BY <2>8, <5>1
      <4>3. QED
        BY <2>10, <3>2, <4>1, <4>2 DEF CoveredBy
    <3>4. CASE v = w
      <4>1. n = Top + 1
        BY <2>1, <3>2, <3>4 DEF Inv, Shares
      <4>2. \A u \in Walks : Below(B, n)[u] = Claims(B)[u]
        <5>1. ASSUME NEW u \in Walks, slotOf[u] = None PROVE Claim(B, u) = 0
          BY <5>1, <2>4 DEF Claim, Kept, Inv, Owners, Adding, Pending, Acquiring
        <5>2. ASSUME NEW u \in Walks, slotOf[u] # None PROVE slotOf[u] \in 0..(n - 1)
          BY <1>0, <1>t, <4>1, <5>2, SlotsAre DEF LedgerTypeOK
        <5>3. QED
          BY <5>1, <5>2 DEF Below, Claims
      <4>3. Sum(Below(B, n), Walks) = Sum(Claims(B), Walks)
        BY <1>0, <4>2, SumSame
      <4>4. Sum(Claims(B), Walks) \in Nat
        BY <1>0, ClaimTypes
      <4>5. Sum(Claims(B), Walks) <= Total
        BY <1>t, <2>1, <2>10, <3>2, <3>4, <4>3, <4>4
      <4>6. QED
        BY <2>7, <4>5 DEF CoveredBy
    <3>5. QED
      BY <3>3, <3>4
  <2>11. QED
    BY <2>5, <2>9, <2>10 DEF CoveredBy
<1>11. QED
  BY <1>4, <1>5, <1>6, <1>7, <1>8, <1>9, <1>10 DEF WalkStep

-------------------------------------------------------------------------------
(* Not too few. The last of some walks to have read every slot has counted *)
(* what they all have, so if it took back a token, the budget was in use.  *)

(* Walks that have not got what they want, or may not.                     *)
Short == {w \in Walks : /\ slotOf[w] # None /\ ~ walk[w].shifted
                        /\ walk[w].at \in Pending \/ (walk[w].at = "walking" /\ walk[w].granted < Want[w])}

(* The most a walk of A, or another one, will have shown.                  *)
Share(A, w) == IF w \in A THEN walk[w].granted + 1 ELSE Want[w]
(* These, in the first n slots and for sessions without one.               *)
May(A, n) == [w \in Walks |-> IF slotOf[w] < n THEN Share(A, w) ELSE 0]
(* These, in slot s.                                                       *)
MayOne(A, s) == [w \in Walks |-> IF slotOf[w] = s THEN Share(A, w) ELSE 0]
(* One of A has counted no more than that.                                 *)
JustifiedBy(A) == \E w \in A : walk[w].sum <= Sum(May(A, walk[w].next), Walks)
(* So has one of any such set.                                             *)
Justified == \A A \in SUBSET Short : A = {} \/ JustifiedBy(A)

(* The shares are numbers.                                                 *)
LEMMA ShareTypes ==
  ASSUME LedgerAssumption, LedgerTypeOK
  PROVE  /\ \A A : \A w \in Walks : Share(A, w) \in Nat
         /\ \A A, n : \A w \in Walks : May(A, n)[w] \in Nat /\ MayOne(A, n)[w] \in Nat
         /\ \A A, n : Sum(May(A, n), Walks) \in Nat /\ Sum(MayOne(A, n), Walks) \in Nat
<1>0. IsFiniteSet(Walks)
  BY DEF LedgerAssumption
<1>1. ASSUME NEW A, NEW w \in Walks PROVE Share(A, w) \in Nat
  BY TokenTypes, ConstantTypes DEF Share, WalkRecord
<1>2. ASSUME NEW A, NEW n, NEW w \in Walks PROVE May(A, n)[w] \in Nat /\ MayOne(A, n)[w] \in Nat
  BY <1>1 DEF May, MayOne
<1>3. ASSUME NEW A, NEW n PROVE Sum(May(A, n), Walks) \in Nat /\ Sum(MayOne(A, n), Walks) \in Nat
  BY <1>0, <1>2, SumNat
<1>4. QED
  BY <1>1, <1>2, <1>3

(* While no owner of a slot is dead, a walk sees at most the tokens of the *)
(* slot.                                                                   *)
LEMMA SeenAtMost ==
  ASSUME LedgerAssumption, Inv, NEW w \in Walks, NEW s \in Slots,
         ~ \E v \in Walks : slotOf[v] = s /\ walk[v].at = "dead"
  PROVE  Seen(w, s) <= Sum(Of(s), Walks)
<1>0. LedgerTypeOK /\ ledger[s] \in Nat /\ Sum(Of(s), Walks) \in Nat
  BY OfTypes DEF Inv, LedgerTypeOK
<1>1. ASSUME NEW u \in Walks, slotOf[u] = s, delayed[u] # None
      PROVE  delayed[u] = Sum(Of(s), Walks) /\ ledger[s] <= delayed[u]
  <2>1. walk[u].at \in Acquiring /\ delayed[u] = walk[u].held + InSlot(u) /\ ledger[s] <= delayed[u]
    BY <1>1 DEF Inv, Leases, Late
  <2>2. walk[u].held = Sum(Others(u), Walks) /\ Tokens(u) = InSlot(u)
    BY <2>1 DEF Inv, Exact, Tokens, Running
  <2>3. Sum(Of(s), Walks) = Sum(Others(u), Walks) + Tokens(u)
    BY <1>0, <1>1, OwnShare
  <2>4. QED
    BY <2>1, <2>2, <2>3
<1>2. ledger[s] <= Sum(Of(s), Walks)
  <2>1. CASE \E u \in Walks : slotOf[u] = s /\ delayed[u] # None
    BY <1>1, <2>1
  <2>2. CASE ~ \E u \in Walks : slotOf[u] = s /\ delayed[u] # None
    <3>1. ledger[s] = Sum(Of(s), Walks)
      BY <2>2 DEF Inv, Exact
    <3>2. QED
      BY <1>0, <3>1
  <2>3. QED
    BY <2>1, <2>2
<1>3. CASE s = slotOf[w] /\ delayed[w] # None
  BY <1>0, <1>1, <1>3 DEF Seen
<1>4. CASE ~ (s = slotOf[w] /\ delayed[w] # None)
  BY <1>2, <1>4 DEF Seen
<1>5. QED
  BY <1>3, <1>4

(* A walk sees at most the shares of a slot.                               *)
LEMMA SlotJustified ==
  ASSUME LedgerAssumption, Inv, NEW w \in Walks, walk[w].at # "dead", NEW A \in SUBSET Short, NEW s \in Slots
  PROVE  Seen(w, s) <= Sum(MayOne(A, s), Walks)
<1>0. LedgerTypeOK /\ IsFiniteSet(Walks) /\ ledger[s] \in Nat /\ Seen(w, s) \in Nat
  BY DEF Inv, LedgerAssumption, LedgerTypeOK, Seen
<1>1. CASE \E v \in Walks : slotOf[v] = s /\ walk[v].at = "dead"
  <2>1. PICK v \in Walks : slotOf[v] = s /\ walk[v].at = "dead"
    BY <1>1
  <2>2. v \notin InlineWalks /\ slotOf[v] # None /\ v # w
    BY <2>1, SlotsAre DEF Inv, Owners
  <2>3. slotOf[w] # s
    BY <2>1, <2>2, Alone DEF Inv
  <2>4. Seen(w, s) = ledger[s] /\ ledger[s] <= Want[v]
    BY <2>1, <2>2, <2>3 DEF Seen, Inv, Shares
  <2>5. v \notin A
    BY <2>1 DEF Short, Pending
  <2>6. MayOne(A, s)[v] = Want[v]
    BY <2>1, <2>5 DEF MayOne, Share
  <2>7. MayOne(A, s)[v] <= Sum(MayOne(A, s), Walks)
    <3>1. \A u \in Walks : MayOne(A, s)[u] \in Nat
      BY <1>0, ShareTypes
    <3>2. QED
      BY <1>0, <3>1, SumNat
  <2>8. Sum(MayOne(A, s), Walks) \in Nat /\ Want[v] \in Nat
    BY <1>0, ShareTypes, ConstantTypes
  <2>9. QED
    BY <1>0, <2>4, <2>6, <2>7, <2>8
<1>2. CASE ~ \E v \in Walks : slotOf[v] = s /\ walk[v].at = "dead"
  <2>1. Seen(w, s) <= Sum(Of(s), Walks)
    BY <1>2, SeenAtMost
  <2>2. ASSUME NEW v \in Walks PROVE Of(s)[v] \in Int /\ MayOne(A, s)[v] \in Int /\ Of(s)[v] <= MayOne(A, s)[v]
    <3>1. Of(s)[v] \in Nat /\ MayOne(A, s)[v] \in Nat
      BY <1>0, OfTypes, ShareTypes
    <3>2. Tokens(v) <= Share(A, v)
      <4>1. walk[v].granted \in Nat /\ Want[v] \in Nat /\ walk[v].granted <= Want[v]
            /\ (walk[v].at \in Acquiring => walk[v].granted + 1 <= Want[v])
        BY <1>0, TokenTypes, ConstantTypes DEF WalkRecord, Inv, Shares
      <4>2. QED
        BY <4>1 DEF Share, Tokens, Running, InSlot, Acquiring
    <3>3. QED
      BY <3>1, <3>2 DEF Of, MayOne
  <2>3. Sum(Of(s), Walks) <= Sum(MayOne(A, s), Walks)
    BY <1>0, <2>2, SumAtMost
  <2>4. Sum(Of(s), Walks) \in Nat /\ Sum(MayOne(A, s), Walks) \in Nat
    BY <1>0, OfTypes, ShareTypes
  <2>5. QED
    BY <1>0, <2>1, <2>3, <2>4
<1>3. QED
  BY <1>1, <1>2

(* Slots are integers.                                                     *)
LEMMA SlotIsInt ==
  ASSUME LedgerAssumption, LedgerTypeOK
  PROVE  \A v \in Walks : slotOf[v] \in Int /\ slotOf[v] >= -1
  BY SlotsAre DEF LedgerTypeOK, None

(* One more slot.                                                          *)
LEMMA MayGrows ==
  ASSUME LedgerAssumption, LedgerTypeOK, NEW A, NEW n \in Nat
  PROVE  Sum(May(A, n + 1), Walks) = Sum(May(A, n), Walks) + Sum(MayOne(A, n), Walks)
<1>0. IsFiniteSet(Walks)
  BY DEF LedgerAssumption
<1>1. ASSUME NEW v \in Walks
      PROVE  /\ May(A, n)[v] \in Int /\ MayOne(A, n)[v] \in Int
             /\ May(A, n + 1)[v] = May(A, n)[v] + MayOne(A, n)[v]
  <2>1. May(A, n)[v] \in Nat /\ MayOne(A, n)[v] \in Nat /\ Share(A, v) \in Nat
    BY ShareTypes
  <2>2. slotOf[v] < n + 1 <=> slotOf[v] < n \/ slotOf[v] = n
    BY SlotIsInt
  <2>3. ~ (slotOf[v] < n /\ slotOf[v] = n)
    BY SlotIsInt
  <2>4. QED
    BY <2>1, <2>2, <2>3 DEF May, MayOne
<1>2. QED
  BY <1>0, <1>1, SumOfSums

(* A step that leaves the walks of A where they are and hides no slot from *)
(* them.                                                                   *)
LEMMA JustifiedStays ==
  ASSUME LedgerAssumption, LedgerTypeOK, LedgerTypeOK', NEW A, A \subseteq Walks, JustifiedBy(A),
         NEW w \in Walks, Still(w), Share(A, w)' = Share(A, w),
         w \in A => walk'[w].next = walk[w].next /\ walk'[w].sum = walk[w].sum,
         \A v \in A : slotOf[w] < walk[v].next => slotOf'[w] < walk[v].next
  PROVE  JustifiedBy(A)'
<1>0. IsFiniteSet(Walks)
  BY DEF LedgerAssumption
<1>1. PICK v \in A : walk[v].sum <= Sum(May(A, walk[v].next), Walks)
  BY DEF JustifiedBy
<1>2. v \in Walks /\ walk'[v].next = walk[v].next /\ walk'[v].sum = walk[v].sum /\ walk[v].sum \in Nat
  BY TokenTypes DEF Still, WalkRecord
<1>3. PICK n : n = walk[v].next
  OBVIOUS
<1>4. \A u \in Walks : Share(A, u)' = Share(A, u) /\ Share(A, u) \in Nat
  <2>1. ASSUME NEW u \in Walks, u # w PROVE Share(A, u)' = Share(A, u)
    BY <2>1 DEF Still, Share
  <2>2. QED
    BY <2>1, ShareTypes
<1>5. \A u \in Walks : slotOf[u] < n => slotOf'[u] < n
  BY <1>3 DEF Still
<1>6. \A u \in Walks : May(A, n)[u] \in Int /\ May(A, n)'[u] \in Int /\ May(A, n)[u] <= May(A, n)'[u]
  BY <1>4, <1>5 DEF May
<1>7. Sum(May(A, n), Walks) <= Sum(May(A, n)', Walks)
  BY <1>0, <1>6, SumAtMost
<1>8. Sum(May(A, n), Walks) \in Int /\ Sum(May(A, n)', Walks) \in Int
  BY <1>0, <1>6, SumInt
<1>9. May(A, walk[v].next)' = May(A, n)'
  BY <1>2, <1>3 DEF May
<1>10. walk[v].sum <= Sum(May(A, n)', Walks)
  BY <1>1, <1>2, <1>3, <1>7, <1>8
<1>11. QED
  BY <1>2, <1>9, <1>10 DEF JustifiedBy

(* A walk that was marked stays marked.                                    *)
LEMMA ShiftedStays ==
  ASSUME LedgerTypeOK, NEW w \in Walks, WalkStep(w)
  PROVE  \A v \in Walks : v # w /\ walk[v].shifted => walk'[v].shifted
<1>1. CASE Allocate(w)
  BY <1>1, AllocateEffect
<1>2. CASE ReadSlot(w)
  BY <1>2 DEF ReadSlot, LedgerTypeOK
<1>3. CASE Acquire(w) \/ Publish(w) \/ TakeBack(w) \/ Keep(w) \/ Drain(w) \/ Release(w) \/ Kill(w) \/ Reclaim(w) \/ ReleaseSlot(w)
  <2>1. Same(w)
    BY <1>3, AcquireEffect, PublishEffect, TakeBackEffect, KeepEffect, DrainEffect, ReleaseEffect, KillEffect, ReclaimEffect, ReleaseSlotEffect
  <2>2. QED
    BY <2>1 DEF Same
<1>4. QED
  BY <1>1, <1>2, <1>3 DEF WalkStep

(* Every step keeps it. A slot that passes to another session while a walk *)
(* adds up is why such a walk is marked.                                   *)
LEMMA JustifiedKept ==
  ASSUME LedgerAssumption, Inv, LedgerTypeOK', NEW w \in Walks, WalkStep(w), Justified
  PROVE  Justified'
<1>0. LedgerTypeOK /\ Still(w) /\ walk[w] \in WalkRecord /\ IsFiniteSet(Walks)
  BY TokenTypes, StillStep DEF Inv, LedgerAssumption
<1>t. /\ walk[w].granted \in Nat /\ walk[w].next \in Nat /\ walk[w].sum \in Nat /\ Want[w] \in Nat /\ Top \in Nat
  BY <1>0, ConstantTypes DEF WalkRecord
<1>1. SUFFICES ASSUME NEW A \in SUBSET (Short'), A # {} PROVE JustifiedBy(A)'
  BY DEF Justified
<1>2. A \subseteq Walks /\ A \ {w} \subseteq Short
  BY <1>0, ShiftedStays DEF Short, Still
<1>a. A \in SUBSET Short => JustifiedBy(A)
  BY <1>1 DEF Justified
<1>b. w \in A => /\ walk'[w].at \in Pending \/ (walk'[w].at = "walking" /\ walk'[w].granted < Want[w])
                 /\ slotOf'[w] # None /\ ~ walk'[w].shifted
  BY DEF Short
<1>3. CASE w \notin A /\ \A v \in A : slotOf[w] < walk[v].next => slotOf'[w] < walk[v].next
  <2>1. JustifiedBy(A)
    BY <1>2, <1>3, <1>a
  <2>2. Share(A, w)' = Share(A, w)
    BY <1>3 DEF Share
  <2>3. QED
    BY <1>0, <1>2, <1>3, <2>1, <2>2, JustifiedStays
<1>4. CASE Release(w) \/ Kill(w) \/ Reclaim(w)
  <2>1. walk'[w].at \in {"idle", "dead"} /\ slotOf'[w] = slotOf[w]
    BY <1>0, <1>4, ReclaimEffect, ReleaseEffect, KillEffect, IdleIs
  <2>2. w \notin A
    BY <1>b, <2>1 DEF Pending
  <2>3. QED
    BY <1>3, <2>1, <2>2
<1>5. CASE ReleaseSlot(w)
  <2>1. walk'[w].at = "closed" /\ slotOf'[w] = None
    BY <1>0, <1>5, ReleaseSlotEffect
  <2>2. w \notin A
    BY <1>b, <2>1 DEF Pending
  <2>3. \A v \in A : slotOf'[w] < walk[v].next
    BY <1>0, <1>2, <2>1, TokenTypes DEF WalkRecord, None
  <2>4. QED
    BY <1>3, <2>2, <2>3
<1>6. CASE Allocate(w)
  <2>1. walk'[w].at = "idle"
    BY <1>0, <1>6, AllocateEffect, IdleIs
  <2>2. w \notin A
    BY <1>b, <2>1 DEF Pending
  <2>3. CASE pool = {}
    BY <1>0, <1>3, <1>6, <2>2, <2>3, AllocateEffect
  <2>4. CASE pool # {}
    <3>1. PICK s \in pool : /\ slotOf' = [slotOf EXCEPT ![w] = s]
                            /\ \A v \in Walks : v # w /\ walk[v].at = "read" /\ walk[v].next <= s => walk'[v].shifted
      BY <1>0, <1>6, <2>4, AllocateEffect
    <3>2. slotOf'[w] = s /\ s \in Int /\ s <= Top
      BY <1>0, <3>1, SlotsAre DEF LedgerTypeOK
    <3>3. ASSUME NEW v \in A PROVE s < walk[v].next
      <4>1. v # w /\ v \in Walks /\ ~ walk'[v].shifted /\ v \in Short
        BY <1>2, <2>2 DEF Short
      <4>2. walk[v].next \in Nat
        BY <1>0, <4>1, TokenTypes DEF WalkRecord
      <4>3. CASE walk[v].at = "read"
        BY <3>1, <3>2, <4>1, <4>2, <4>3
      <4>4. CASE walk[v].at # "read"
        <5>1. walk[v].next = Top + 1
          BY <4>1, <4>4 DEF Short, Pending, Inv, Shares
        <5>2. QED
          BY <1>t, <3>2, <5>1
      <4>5. QED
        BY <4>3, <4>4
    <3>4. QED
      BY <1>3, <2>2, <3>2, <3>3
  <2>5. QED
    BY <2>3, <2>4
<1>7. CASE Acquire(w)
  <2>1. slotOf'[w] = slotOf[w] /\ (walk'[w].at = "publish" \/ slotOf[w] = None)
    BY <1>0, <1>7, AcquireEffect
  <2>2. w \notin A
    BY <1>b, <2>1 DEF Pending
  <2>3. QED
    BY <1>3, <2>1, <2>2
<1>8. CASE Keep(w)
  <2>1. /\ walk'[w].at = (IF More(w) THEN "publish" ELSE "walking") /\ slotOf'[w] = slotOf[w]
        /\ walk'[w].granted = walk[w].granted + 1
    BY <1>0, <1>8, KeepEffect
  <2>2. w \notin A
    BY <1>b, <1>t, <2>1 DEF Pending, More
  <2>3. QED
    BY <1>3, <2>1, <2>2
<1>9. CASE Drain(w)
  <2>1. walk' = walk /\ slotOf' = slotOf
    BY <1>0, <1>9, DrainEffect
  <2>2. A \in SUBSET Short /\ Share(A, w)' = Share(A, w)
    BY <2>1 DEF Short, Share
  <2>3. QED
    BY <1>0, <1>2, <1>a, <2>1, <2>2, JustifiedStays
<1>10. CASE TakeBack(w)
  <2>1. /\ walk[w].at = "decide" /\ walk'[w].granted = walk[w].granted /\ slotOf'[w] = slotOf[w]
        /\ walk'[w].next = walk[w].next /\ walk'[w].sum = walk[w].sum /\ walk'[w].shifted = walk[w].shifted
    BY <1>0, <1>10, TakeBackEffect
  <2>2. w \in A => w \in Short
    BY <1>b, <2>1 DEF Short, Pending
  <2>3. A \in SUBSET Short /\ Share(A, w)' = Share(A, w)
    BY <1>2, <2>1, <2>2 DEF Share
  <2>4. QED
    BY <1>0, <1>2, <1>a, <2>1, <2>3, JustifiedStays
<1>11. CASE Publish(w)
  <2>1. slotOf'[w] = slotOf[w] /\ walk'[w].sum = 0
    BY <1>0, <1>11, PublishEffect
  <2>2. CASE w \notin A
    BY <1>3, <2>1, <2>2
  <2>3. CASE w \in A
    <3>1. ASSUME NEW n PROVE Sum(May(A, n)', Walks) \in Nat
      <4>1. walk' \in [Walks -> WalkRecord]
        BY DEF LedgerTypeOK, WalkRecord, Steps
      <4>2. ASSUME NEW v \in Walks PROVE May(A, n)'[v] \in Nat
        <5>1. walk'[v].granted \in Nat /\ Want[v] \in Nat
          BY <4>1, ConstantTypes DEF WalkRecord
        <5>2. QED
          BY <5>1 DEF May, Share
      <4>3. QED
        BY <1>0, <4>2, SumNat
    <3>2. PICK n : n = walk'[w].next
      OBVIOUS
    <3>3. May(A, walk[w].next)' = May(A, n)'
      BY <3>2 DEF May
    <3>4. walk'[w].sum <= Sum(May(A, walk[w].next)', Walks)
      BY <2>1, <3>1, <3>3
    <3>5. QED
      BY <2>3, <3>4 DEF JustifiedBy
  <2>4. QED
    BY <2>2, <2>3
<1>12. CASE ReadSlot(w)
  <2>1. walk[w].at = "read" /\ Seen(w, walk[w].next) \in Nat /\ walk[w].next \in Slots
    BY <1>12, SeenTypes DEF Inv, ReadSlot
  <2>2. /\ walk'[w].granted = walk[w].granted /\ walk'[w].next = walk[w].next + 1 /\ walk'[w].sum = walk[w].sum + Seen(w, walk[w].next)
        /\ slotOf' = slotOf /\ walk'[w].shifted = walk[w].shifted
    BY <1>0, <1>12, <2>1, ReadEffect
  <2>3. w \in A => w \in Short
    BY <1>b, <2>1, <2>2 DEF Short, Pending
  <2>4. A \in SUBSET Short
    BY <1>2, <2>3
  <2>5. \A v \in Walks : Share(A, v)' = Share(A, v)
    BY <1>0, <2>2 DEF Still, Share
  <2>6. ASSUME NEW n PROVE May(A, n)' = May(A, n)
    BY <2>2, <2>5 DEF May
  <2>7. PICK v \in A : walk[v].sum <= Sum(May(A, walk[v].next), Walks)
    BY <1>a, <2>4 DEF JustifiedBy
  <2>8. PICK n : n = walk[v].next
    OBVIOUS
  <2>9. CASE v # w
    <3>1. walk'[v].next = n /\ walk'[v].sum = walk[v].sum
      BY <1>0, <1>2, <2>8, <2>9 DEF Still
    <3>2. May(A, walk[v].next)' = May(A, n)
      <4>1. May(A, walk[v].next)' = May(A, n)'
        BY <3>1 DEF May
      <4>2. QED
        BY <2>6, <4>1
    <3>3. QED
      BY <2>7, <2>8, <3>1, <3>2 DEF JustifiedBy
  <2>10. CASE v = w
    <3>1. n \in Nat /\ n \in Slots /\ walk'[w].next = n + 1
      BY <1>t, <2>1, <2>2, <2>8, <2>10
    <3>2. Sum(May(A, n + 1), Walks) = Sum(May(A, n), Walks) + Sum(MayOne(A, n), Walks)
      BY <1>0, <3>1, MayGrows
    <3>3. Seen(w, n) <= Sum(MayOne(A, n), Walks)
      BY <2>1, <2>4, <3>1, SlotJustified
    <3>4. Sum(May(A, n), Walks) \in Nat /\ Sum(MayOne(A, n), Walks) \in Nat /\ Seen(w, n) \in Nat
      BY <1>0, <2>1, <2>8, <2>10, ShareTypes
    <3>5. walk'[w].sum <= Sum(May(A, n + 1), Walks)
      BY <1>t, <2>2, <2>7, <2>8, <2>10, <3>2, <3>3, <3>4
    <3>6. May(A, walk[w].next)' = May(A, n + 1)
      <4>1. May(A, walk[w].next)' = May(A, n + 1)'
        BY <3>1 DEF May
      <4>2. QED
        BY <2>6, <4>1
    <3>7. QED
      BY <2>7, <2>10, <3>5, <3>6 DEF JustifiedBy
  <2>11. QED
    BY <2>9, <2>10
<1>13. QED
  BY <1>4, <1>5, <1>6, <1>7, <1>8, <1>9, <1>10, <1>11, <1>12 DEF WalkStep

-------------------------------------------------------------------------------
(* The documented properties.                                              *)

(* The sum in LedgerExact.                                                 *)
LEMMA ShareSummed ==
  ASSUME NEW s
  PROVE  MapThenSumSet(LAMBDA w : IF Running(w) THEN InSlot(w) ELSE 0, WalksOf(s)) = Sum(Of(s), WalksOf(s))
<1> DEFINE e(w) == IF Running(w) THEN InSlot(w) ELSE 0
           S == WalksOf(s)
           f == Of(s)
           E(g) == g = [t \in SUBSET S |-> IF t = {} THEN 0 ELSE e(Pick(t)) + g[t \ {Pick(t)}]]
<1>1. MapThenSumSet(e, S) = (CHOOSE g : E(g))[S]
  BY Zenon DEF MapThenSumSet, MapThenFoldSet, Pick
<1>2. \A w \in S : f[w] = e(w)
  BY DEF Of, Tokens, WalksOf
<1> HIDE DEF S, f, e
<1>3. ASSUME NEW t \in SUBSET S, t # {} PROVE f[Pick(t)] = e(Pick(t))
  BY <1>2, <1>3, PickIn
<1>4. ASSUME NEW g PROVE AddsUp(f, S, g) <=> E(g)
  BY <1>3 DEF AddsUp
<1> HIDE DEF E
<1>5. (CHOOSE g : AddsUp(f, S, g)) = (CHOOSE g : E(g))
  BY <1>4, Zenon
<1>6. MapThenSumSet(e, S) = Sum(f, S)
  BY <1>1, <1>5 DEF Sum
<1>7. QED
  BY <1>6 DEF e, S, f

(* The tokens of all walks.                                                *)
KeptBy == [w \in Walks |-> Kept(w)]

(* The sum in GrantBounds.                                                 *)
LEMMA GrantedSummed == Granted = Sum(KeptBy, Walks)
<1> DEFINE e(w) == IF Running(w) THEN walk[w].granted ELSE 0
           f == KeptBy
           E(g) == g = [t \in SUBSET Walks |-> IF t = {} THEN 0 ELSE e(Pick(t)) + g[t \ {Pick(t)}]]
<1>1. MapThenSumSet(e, Walks) = (CHOOSE g : E(g))[Walks]
  BY Zenon DEF MapThenSumSet, MapThenFoldSet, Pick
<1>2. \A w \in Walks : f[w] = e(w)
  BY DEF KeptBy, Kept
<1> HIDE DEF f, e
<1>3. ASSUME NEW t \in SUBSET Walks, t # {} PROVE f[Pick(t)] = e(Pick(t))
  BY <1>2, <1>3, PickIn
<1>4. ASSUME NEW g PROVE AddsUp(f, Walks, g) <=> E(g)
  BY <1>3 DEF AddsUp
<1> HIDE DEF E
<1>5. (CHOOSE g : AddsUp(f, Walks, g)) = (CHOOSE g : E(g))
  BY <1>4, Zenon
<1>6. MapThenSumSet(e, Walks) = Sum(f, Walks)
  BY <1>1, <1>5 DEF Sum
<1>7. QED
  BY <1>6 DEF e, f, Granted

(* The sum of what the walks want.                                         *)
LEMMA WantSummed == MapThenSumSet(LAMBDA w : Want[w], Walks) = Sum(Want, Walks)
  BY Zenon DEF MapThenSumSet, MapThenFoldSet, Sum, AddsUp, Pick

(* The slots are exact.                                                    *)
LEMMA ExactSafe == ASSUME LedgerAssumption, Inv PROVE LedgerExact
<1>0. LedgerTypeOK /\ IsFiniteSet(Walks)
  BY DEF Inv, LedgerAssumption
<1>1. ASSUME NEW s \in Slots, \A w \in WalksOf(s) : walk[w].at # "dead" /\ delayed[w] = None
      PROVE  ledger[s] = MapThenSumSet(LAMBDA w : IF Running(w) THEN InSlot(w) ELSE 0, WalksOf(s))
  <2>1. ledger[s] = Sum(Of(s), Walks)
    BY <1>1 DEF Inv, Exact, WalksOf
  <2>2. Sum(Of(s), Walks) = Sum(Of(s), WalksOf(s))
    <3>1. WalksOf(s) \in SUBSET Walks
      BY DEF WalksOf
    <3>2. \A w \in Walks : Of(s)[w] \in Int /\ (w \notin WalksOf(s) => Of(s)[w] = 0)
      BY <1>0, OfTypes DEF Of, WalksOf
    <3>3. QED
      BY <1>0, <3>1, <3>2, SumWithin
  <2>3. QED
    BY <2>1, <2>2, ShareSummed
<1>2. \A v, w \in Walks \ InlineWalks : v # w /\ slotOf[v] # None => slotOf[v] # slotOf[w]
  BY DEF Inv, Owners
<1>3. QED
  BY <1>1, <1>2 DEF LedgerExact

(* Tokens are numbers.                                                     *)
LEMMA KeptTypes ==
  ASSUME LedgerAssumption, LedgerTypeOK
  PROVE  /\ \A w \in Walks : Kept(w) \in Nat /\ KeptBy[w] = Kept(w)
         /\ Sum(KeptBy, Walks) \in Nat
<1>1. \A w \in Walks : Kept(w) \in Nat /\ KeptBy[w] = Kept(w)
  BY TokenTypes DEF Kept, KeptBy, WalkRecord
<1>2. QED
  BY <1>1, SumNat DEF LedgerAssumption

(* The documented upper bound.                                             *)
LEMMA NotTooMany ==
  ASSUME LedgerAssumption, Inv
  PROVE  Granted <= Total + Cardinality({w \in Walks : Running(w)}) * Min({MaxWant, Total})
<1>0. LedgerTypeOK /\ IsFiniteSet(Walks) /\ Total \in Nat /\ Walks # {}
  BY DEF Inv, LedgerAssumption
<1>1. PICK R : R = {w \in Walks : Running(w)}
  OBVIOUS
<1>2. R \in SUBSET Walks /\ IsFiniteSet(R)
  BY <1>0, <1>1, FS_Subset
<1>3. MaxWant \in Nat /\ \A w \in Walks : Want[w] <= MaxWant
  <2>1. PICK V : V = {Want[w] : w \in Walks}
    OBVIOUS
  <2>2. IsFiniteSet(V)
    <3>1. Want \in Surjection(Walks, V)
      BY <2>1 DEF LedgerAssumption, Surjection
    <3>2. QED
      BY <1>0, <3>1, FS_Surjection
  <2>3. V \subseteq Int /\ V # {} /\ V \subseteq Nat
    BY <1>0, <2>1, ConstantTypes
  <2>4. Max(V) \in V /\ \A y \in V : Max(V) >= y
    BY <2>2, <2>3, GreatestOf
  <2>5. MaxWant = Max(V)
    BY <2>1 DEF MaxWant
  <2>6. QED
    BY <2>1, <2>3, <2>4, <2>5
<1>4. PICK c \in Nat : c = Min({MaxWant, Total})
  BY <1>0, <1>3, MinOfTwo
<1>5. ASSUME NEW w \in R PROVE KeptBy[w] \in Int /\ KeptBy[w] <= c
  <2>1. w \in Walks /\ Running(w)
    BY <1>1
  <2>2. KeptBy[w] = walk[w].granted /\ KeptBy[w] \in Nat
    BY <1>0, <2>1, KeptTypes DEF Kept
  <2>3. walk[w].granted <= Want[w] /\ walk[w].granted <= Total
    BY <2>1 DEF Inv, Shares
  <2>4. Want[w] \in Nat /\ Want[w] <= MaxWant
    BY <1>3, <2>1, ConstantTypes
  <2>5. c = IF MaxWant < Total THEN MaxWant ELSE Total
    BY <1>0, <1>3, <1>4, MinOfTwo
  <2>6. QED
    BY <1>0, <1>3, <2>2, <2>3, <2>4, <2>5
<1>6. Sum(KeptBy, Walks) = Sum(KeptBy, R)
  <2>1. \A w \in Walks : KeptBy[w] \in Int /\ (w \notin R => KeptBy[w] = 0)
    BY <1>0, <1>1, KeptTypes DEF Kept
  <2>2. QED
    BY <1>0, <1>2, <2>1, SumWithin
<1>7. Sum(KeptBy, R) <= Cardinality(R) * c
  BY <1>2, <1>5, SumBound
<1>8. Cardinality(R) \in Nat
  BY <1>2, FS_CardinalityType
<1>9. PICK k \in Nat : k = Cardinality(R)
  BY <1>8
<1>10. k * c \in Int /\ Sum(KeptBy, Walks) \in Nat
  BY <1>0, KeptTypes
<1>11. Sum(KeptBy, Walks) <= Total + k * c
  BY <1>0, <1>6, <1>7, <1>9, <1>10
<1>12. QED
  BY <1>1, <1>4, <1>9, <1>11, GrantedSummed

(* Nothing over the budget where stores are seen in order.                 *)
LEMMA NoneOver ==
  ASSUME LedgerAssumption, Inv, Covered, ~Buffered
  PROVE  Granted <= Total
<1>1. CoveredBy({})
  BY DEF Covered
<1>2. \A w \in Walks : Claim({}, w) = Kept(w)
  BY KeptTypes DEF Claim, Inv
<1>3. Claims({}) = KeptBy
  BY <1>2 DEF Claims, KeptBy
<1>4. QED
  BY <1>1, <1>3, GrantedSummed DEF CoveredBy

(* The documented lower bound.                                             *)
LEMMA NotTooFew ==
  ASSUME LedgerAssumption, Inv, Justified,
         \A w \in Walks : walk[w].at = "walking" /\ slotOf[w] # None /\ ~ walk[w].shifted
  PROVE  Granted >= Min({Total, MapThenSumSet(LAMBDA w : Want[w], Walks)}) - Min({Total, Cardinality(Walks) - 1})
<1>0. LedgerTypeOK /\ IsFiniteSet(Walks) /\ Total \in Nat /\ Walks # {}
  BY DEF Inv, LedgerAssumption
<1>1. PICK k \in Nat \ {0} : k = Cardinality(Walks)
  BY <1>0, FS_CardinalityType, FS_EmptySet
<1>2. \A w \in Walks : /\ Kept(w) = walk[w].granted /\ walk[w].granted \in Nat /\ Want[w] \in Nat
                       /\ walk[w].granted <= Want[w]
  BY <1>0, KeptTypes, ConstantTypes DEF Kept, Running, Inv, Shares
<1>3. PICK a \in Nat : a = Sum(Want, Walks)
  BY <1>0, <1>2, SumNat
<1>4. PICK n \in Nat : n = Sum(KeptBy, Walks)
  BY <1>0, KeptTypes
<1>5. PICK A : A = {w \in Walks : walk[w].granted < Want[w]}
  OBVIOUS
<1>6. n = a \/ n >= Total + 1 - k
  <2>1. CASE A = {}
    <3>1. \A w \in Walks : KeptBy[w] = Want[w]
      BY <1>0, <1>2, <1>5, <2>1, KeptTypes
    <3>2. QED
      BY <1>0, <1>3, <1>4, <3>1, SumSame
  <2>2. CASE A # {}
    <3>1. A \in SUBSET Short
      BY <1>5 DEF Short
    <3>2. PICK w \in A : walk[w].sum <= Sum(May(A, walk[w].next), Walks)
      BY <2>2, <3>1 DEF Justified, JustifiedBy
    <3>3. w \in Walks /\ walk[w].next = Top + 1 /\ walk[w].sum > Total /\ walk[w].sum \in Nat
      BY <1>0, <1>5, TokenTypes DEF Inv, Shares, WalkRecord
    <3>4. PICK one : one = [v \in Walks |-> IF v \in A THEN 1 ELSE 0]
      OBVIOUS
    <3>5. ASSUME NEW v \in Walks
          PROVE  /\ KeptBy[v] \in Int /\ one[v] \in Int
                 /\ May(A, Top + 1)[v] = KeptBy[v] + one[v]
      <4>1. slotOf[v] < Top + 1
        BY <1>0, SlotsAre DEF LedgerTypeOK, None
      <4>2. May(A, Top + 1)[v] = Share(A, v) /\ KeptBy[v] = walk[v].granted
        BY <1>0, <1>2, <4>1, KeptTypes DEF May
      <4>3. QED
        BY <1>2, <1>5, <3>4, <4>2 DEF Share
    <3>6. Sum(May(A, Top + 1), Walks) = n + Sum(one, Walks)
      BY <1>0, <1>4, <3>5, SumOfSums
    <3>7. A \in SUBSET Walks /\ Sum(one, Walks) = Cardinality(A)
      BY <1>0, <1>5, <3>4, SumCount
    <3>8. Cardinality(A) \in Nat /\ Cardinality(A) <= k
      BY <1>0, <1>1, <3>7, FS_Subset, FS_CardinalityType
    <3>9. QED
      BY <1>0, <3>2, <3>3, <3>6, <3>7, <3>8
  <2>3. QED
    BY <2>1, <2>2
<1>7. MapThenSumSet(LAMBDA w : Want[w], Walks) = a
  BY <1>3, WantSummed
<1>8. Min({Total, a}) = (IF Total < a THEN Total ELSE a) /\ Min({Total, k - 1}) = (IF Total < k - 1 THEN Total ELSE k - 1)
  BY <1>0, MinOfTwo
<1>9. n >= Min({Total, a}) - Min({Total, k - 1})
  BY <1>0, <1>6, <1>8
<1>10. QED
  BY <1>1, <1>4, <1>7, <1>9, GrantedSummed

(* The inductive invariant.                                                *)
IInv == Inv /\ Covered /\ Justified

(* It holds at the start.                                                  *)
LEMMA InitIInv == ASSUME LedgerAssumption, Init PROVE IInv
<1>0. /\ IsFiniteSet(Walks) /\ InlineWalks \subseteq Walks /\ None \notin Slots /\ 0 \in Slots /\ Slots = PoolSlots \cup {0}
      /\ 0 \notin PoolSlots
  BY SlotsAre DEF LedgerAssumption, Slots
<1>1. /\ \A w \in Walks : walk[w].at \in {"idle", "closed"} /\ walk[w].granted = 0 /\ walk[w] \in WalkRecord
      /\ \A w \in Walks : w \in InlineWalks => slotOf[w] = 0 /\ walk[w].at = "idle"
      /\ \A w \in Walks : w \notin InlineWalks => slotOf[w] = None /\ walk[w].at = "closed"
      /\ \A w \in Walks : delayed[w] = None
      /\ pool = PoolSlots
      /\ \A s \in Slots : ledger[s] = 0
      /\ walk \in [Walks -> WalkRecord]
  BY DEF Init, Idle, WalkRecord, Steps, Acquiring
<1>2. LedgerTypeOK
  <2>1. ledger \in [Slots -> Nat] /\ delayed \in [Walks -> Nat \cup {None}] /\ slotOf \in [Walks -> Slots \cup {None}]
    BY <1>0 DEF Init
  <2>2. QED
    BY <1>1, <2>1 DEF LedgerTypeOK, WalkRecord, Steps
<1>3. Owners
  BY <1>0, <1>1 DEF Owners, Acquiring
<1>4. Leases /\ Late
  BY <1>1 DEF Leases, Late, Acquiring
<1>5. Exact
  <2>1. \A s \in Slots : Sum(Of(s), Walks) = 0
    <3>1. ASSUME NEW s \in Slots PROVE \A w \in Walks : Of(s)[w] = 0
      BY <1>1 DEF Of, Tokens, Running, Acquiring
    <3>2. QED
      BY <1>0, <3>1, SumZero
  <2>2. QED
    BY <1>1, <2>1 DEF Exact, Acquiring
<1>6. Shares
  BY <1>1, ConstantTypes DEF Shares, Acquiring, Pending
<1>7. Covered
  <2>1. ASSUME NEW A \in SUBSET Adding PROVE CoveredBy(A)
    <3>1. A = {}
      BY <1>1 DEF Adding, Pending
    <3>2. \A w \in Walks : Claims(A)[w] = 0
      BY <1>1, <3>1 DEF Claims, Claim, Kept, Running, Acquiring
    <3>3. Sum(Claims(A), Walks) = 0
      BY <1>0, <3>2, SumZero
    <3>4. QED
      BY <3>3, ConstantTypes DEF CoveredBy
  <2>2. QED
    BY <2>1 DEF Covered
<1>8. Justified
  <2>1. Short = {}
    BY <1>1 DEF Short, Pending
  <2>2. QED
    BY <2>1 DEF Justified
<1>9. QED
  BY <1>2, <1>3, <1>4, <1>5, <1>6, <1>7, <1>8 DEF IInv, Inv

(* It speaks of the variables only.                                        *)
LEMMA StutterIInv == ASSUME IInv, UNCHANGED ledgerVars PROVE IInv'
<1>1. ledger' = ledger /\ delayed' = delayed /\ pool' = pool /\ slotOf' = slotOf /\ walk' = walk
  BY DEF ledgerVars
<1>2. Inv'
  BY <1>1 DEF IInv, Inv, LedgerTypeOK, Owners, Leases, Exact, Late, Shares, Of, Others, Tokens, Running, InSlot
<1>3. Covered'
  BY <1>1 DEF IInv, Covered, CoveredBy, Adding, Claims, Below, Claim, Kept, Running
<1>4. Justified'
  BY <1>1 DEF IInv, Justified, JustifiedBy, Short, May, Share
<1>5. QED
  BY <1>2, <1>3, <1>4 DEF IInv

(* Every step keeps it.                                                    *)
LEMMA StepIInv == ASSUME LedgerAssumption, IInv, [Next]_ledgerVars PROVE IInv'
<1>1. CASE UNCHANGED ledgerVars
  BY <1>1, StutterIInv
<1>2. CASE Next
  <2>1. Inv'
    BY <1>2, InvKept DEF IInv
  <2>2. PICK w \in Walks : WalkStep(w)
    BY <1>2 DEF Next
  <2>3. LedgerTypeOK'
    BY <2>1 DEF Inv
  <2>4. Covered' /\ Justified'
    BY <2>2, <2>3, CoveredKept, JustifiedKept DEF IInv
  <2>5. QED
    BY <2>1, <2>4 DEF IInv
<1>3. QED
  BY <1>1, <1>2

(* What it says.                                                           *)
LEMMA Consequences == ASSUME LedgerAssumption, IInv PROVE LedgerTypeOK /\ LedgerExact /\ GrantBounds
<1>1. LedgerTypeOK /\ LedgerExact
  BY ExactSafe DEF IInv, Inv
<1>2. GrantBounds
  BY NotTooMany, NoneOver, NotTooFew DEF IInv, GrantBounds
<1>3. QED
  BY <1>1, <1>2

(* Whatever walks, kills and stores there are, no token of the scan budget *)
(* is lost or kept for ever, and the walks have no more and no fewer than  *)
(* the docstring of _scan_budget.py says (ScanLease, ScanLedger).          *)
THEOREM BudgetHonest == ASSUME LedgerAssumption PROVE Spec => [](LedgerTypeOK /\ LedgerExact /\ GrantBounds)
<1>1. Init => IInv
  BY InitIInv
<1>2. IInv /\ [Next]_ledgerVars => IInv'
  BY StepIInv
<1>3. IInv => LedgerTypeOK /\ LedgerExact /\ GrantBounds
  BY Consequences
<1>4. QED
  BY <1>1, <1>2, <1>3, PTL DEF Spec
===============================================================================
