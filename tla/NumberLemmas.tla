---------------------------- MODULE NumberLemmas ----------------------------
(***************************************************************************)
(* Induction over numbers, in a form that the provers can use. The          *)
(* library's induction theorems take the predicate as an operator, which    *)
(* cannot be instantiated; that every set of numbers has a least element    *)
(* follows from the well-foundedness of their order, which takes sets only. *)
(* An induction is then an argument about the least counterexample.         *)
(***************************************************************************)
EXTENDS Integers, FiniteSets, WellFoundedInduction, FiniteSetTheorems, TLAPS

\* The numbers' order, as the theorems on well-founded relations take it.
LessThan == {ss \in Nat \X Nat : ss[1] < ss[2]}

LEMMA LessThanIsWellFounded == IsWellFoundedOn(LessThan, Nat)
  BY NatLessThanWellFounded DEF LessThan, OpToRel

LEMMA LeastNumber ==
  ASSUME NEW S \in SUBSET Nat, S # {}
  PROVE  \E m \in S : \A n \in S : m <= n
<1>1. PICK m \in S : \A n \in S : ~(<<n, m>> \in LessThan)
  BY LessThanIsWellFounded, WFMin
<1>2. \A x, y \in Nat : x < y => <<x, y>> \in LessThan
  BY DEF LessThan
<1>3. \A n \in S : ~(n < m)
  BY <1>1, <1>2, Zenon
<1> QED BY <1>3

\* What holds of zero, and of each number up to a bound when of the one before, holds
\* up to the bound.
LEMMA UpTo ==
  ASSUME NEW n \in Nat, NEW T, 0 \in T,
         \A i \in 1 .. n : i - 1 \in T => i \in T
  PROVE  \A i \in 0 .. n : i \in T
<1> DEFINE Bad == {i \in Nat : i <= n /\ i \notin T}
<1>1. SUFFICES ASSUME Bad # {} PROVE FALSE
  OBVIOUS
<1>2. PICK m \in Bad : \A i \in Bad : m <= i
  BY <1>1, LeastNumber
<1>3. m \in 1 .. n /\ m - 1 \in Nat /\ m - 1 <= n /\ ~(m <= m - 1)
  BY <1>2
<1>4. m - 1 \notin Bad
  BY <1>2, <1>3
<1>5. m - 1 \in T
  BY <1>3, <1>4
<1> QED BY <1>2, <1>3, <1>5

\* There is a function that starts from a value and steps from each to the next.
Stepwise(f, n, S, base, step) ==
  /\ f \in [0 .. n -> S] /\ f[0] = base
  /\ \A i \in 1 .. n : f[i] = step[<<i, f[i - 1]>>]

LEMMA Recursion ==
  ASSUME NEW n \in Nat, NEW S, NEW base \in S, NEW step \in [Nat \X S -> S]
  PROVE  \E f : Stepwise(f, n, S, base, step)
<1> USE DEF Stepwise
<1> DEFINE Steps(k, f) == Stepwise(f, k, S, base, step)
           Bad == {k \in Nat : ~\E f : Steps(k, f)}
<1>1. SUFFICES ASSUME Bad # {} PROVE FALSE
  BY <1>1
<1>2. PICK k \in Bad : \A i \in Bad : k <= i
  BY <1>1, LeastNumber
<1>3. k # 0
  <2> DEFINE f == [i \in 0 .. 0 |-> base]
  <2>1. Steps(0, f)
    OBVIOUS
  <2> QED BY <1>2, <2>1
<1>4. k - 1 \in Nat /\ k - 1 \notin Bad
  BY <1>2, <1>3
<1>5. PICK f : Steps(k - 1, f)
  BY <1>4
<1> DEFINE g == [i \in 0 .. k |-> IF i = k THEN step[<<k, f[k - 1]>>] ELSE f[i]]
<1>6. f[k - 1] \in S /\ step[<<k, f[k - 1]>>] \in S
  BY <1>2, <1>4, <1>5
<1>7. g \in [0 .. k -> S] /\ g[0] = base
  BY <1>2, <1>3, <1>5, <1>6
<1>8. \A i \in 1 .. k : g[i] = step[<<i, g[i - 1]>>]
  <2> TAKE i \in 1 .. k
  <2>1. i - 1 \in 0 .. k /\ i - 1 # k /\ g[i - 1] = f[i - 1]
    BY <1>2
  <2>2. CASE i = k
    BY <1>2, <2>1, <2>2
  <2>3. CASE i # k
    BY <1>2, <1>5, <2>1, <2>3
  <2> QED BY <2>2, <2>3
<1>9. Steps(k, g)
  BY <1>7, <1>8
<1> QED BY <1>2, <1>9

\* The least counterexample has an element to spare.
LEMMA HighestNumber ==
  ASSUME NEW S \in SUBSET Int, S # {}, IsFiniteSet(S)
  PROVE  \E m \in S : \A n \in S : n <= m
<1> DEFINE Bounded(T) == \E m \in T : \A n \in T : n <= m
           Bad(T) == T \in SUBSET Int /\ IsFiniteSet(T) /\ T # {} /\ ~Bounded(T)
           Sizes == {n \in Nat : \E T \in SUBSET Int : Bad(T) /\ Cardinality(T) = n}
<1>1. SUFFICES ASSUME Sizes # {} PROVE FALSE
  <2>1. Bad(S) => Cardinality(S) \in Sizes
    BY FS_CardinalityType
  <2> QED BY <1>1, <2>1
<1>2. PICK n \in Sizes : \A k \in Sizes : n <= k
  BY <1>1, LeastNumber
<1>3. PICK T \in SUBSET Int : Bad(T) /\ Cardinality(T) = n
  BY <1>2
<1>4. PICK x \in T : TRUE
  BY <1>3
<1>5. IsFiniteSet(T \ {x}) /\ Cardinality(T \ {x}) = n - 1
  BY <1>3, FS_RemoveElement
<1>6. n \in Nat /\ n - 1 \in Nat /\ ~(n <= n - 1)
  BY <1>2, <1>5, FS_CardinalityType
<1>7. n - 1 \notin Sizes
  BY <1>2, <1>6
<1>8. CASE T \ {x} = {}
  <2>1. \A k \in T : k = x /\ k <= x
    BY <1>8
  <2> QED BY <1>3, <1>4, <2>1
<1>9. CASE T \ {x} # {}
  <2>1. PICK y \in T \ {x} : \A k \in T \ {x} : k <= y
    BY <1>3, <1>5, <1>6, <1>7, <1>9
  <2>2. CASE x <= y
    BY <1>3, <1>4, <2>1, <2>2
  <2>3. CASE ~(x <= y)
    <3>1. \A k \in T : k <= x
      BY <1>3, <1>4, <2>1, <2>3
    <3> QED BY <1>3, <1>4, <3>1
  <2> QED BY <2>2, <2>3
<1> QED BY <1>8, <1>9

\* What a function onto a set is defined on has at least as many elements.
LEMMA Onto ==
  ASSUME NEW S, IsFiniteSet(S), NEW T, NEW f \in [S -> T], \A t \in T : \E s \in S : f[s] = t
  PROVE  IsFiniteSet(T) /\ Cardinality(T) <= Cardinality(S)
<1>1. f \in Surjection(S, T)
  BY DEF Surjection
<1> QED BY <1>1, FS_Surjection

\* A strict order that decides between any two elements of a finite set counts them off:
\* the element with so many before it is there for each number, and nothing is left out.
Decides(R, S) ==
  /\ \A x \in S : <<x, x>> \notin R
  /\ \A x, y, z \in S : <<x, y>> \in R /\ <<y, z>> \in R => <<x, z>> \in R
  /\ \A x, y \in S : x = y \/ <<x, y>> \in R \/ <<y, x>> \in R
CountedOff(R, S) ==
  [i \in 1 .. Cardinality(S) |-> CHOOSE x \in S : Cardinality({y \in S : <<y, x>> \in R}) = i - 1]

LEMMA Ranked ==
  ASSUME NEW S, IsFiniteSet(S), NEW R, Decides(R, S)
  PROVE  /\ CountedOff(R, S) \in [1 .. Cardinality(S) -> S]
         /\ \A x \in S : \E i \in 1 .. Cardinality(S) : CountedOff(R, S)[i] = x
         /\ \A i, j \in 1 .. Cardinality(S) : i < j => <<CountedOff(R, S)[i], CountedOff(R, S)[j]>> \in R
<1> DEFINE f == CountedOff(R, S)
           n == Cardinality(S)
           Below(x) == {y \in S : <<y, x>> \in R}
           rank == [x \in S |-> Cardinality(Below(x))]
<1>1. n \in Nat
  BY FS_CardinalityType
<1>2. \A x \in S : IsFiniteSet(Below(x)) /\ Cardinality(Below(x)) \in 0 .. n - 1
  <2> SUFFICES ASSUME NEW x \in S
               PROVE  IsFiniteSet(Below(x)) /\ Cardinality(Below(x)) \in 0 .. n - 1
    OBVIOUS
  <2>1. x \notin Below(x) /\ Below(x) \in SUBSET S
    BY DEF Decides
  <2>2. IsFiniteSet(Below(x)) /\ Cardinality(Below(x)) <= n /\ (n = Cardinality(Below(x)) => S = Below(x))
    BY <2>1, FS_Subset
  <2>3. Cardinality(Below(x)) \in Nat
    BY <2>2, FS_CardinalityType
  <2> QED BY <1>1, <2>1, <2>2, <2>3
<1>3. ASSUME NEW x \in S, NEW y \in S, <<x, y>> \in R
      PROVE  Cardinality(Below(x)) < Cardinality(Below(y))
  <2>1. Below(x) \in SUBSET Below(y) /\ x \in Below(y) /\ x \notin Below(x)
    BY <1>3 DEF Decides
  <2>2. Cardinality(Below(x)) <= Cardinality(Below(y)) /\ (Cardinality(Below(y)) = Cardinality(Below(x)) => Below(y) = Below(x))
    BY <1>2, <2>1, FS_Subset
  <2>3. Cardinality(Below(x)) \in Int /\ Cardinality(Below(y)) \in Int
    <3>1. Cardinality(Below(x)) \in 0 .. n - 1 /\ Cardinality(Below(y)) \in 0 .. n - 1
      BY <1>2
    <3> HIDE DEF Below, n
    <3> QED BY <1>1, <3>1
  <2>4. Below(y) # Below(x)
    BY <2>1
  <2> HIDE DEF Below
  <2> QED BY <2>2, <2>3, <2>4
<1>4. rank \in Injection(S, 0 .. n - 1)
  <2>1. rank \in [S -> 0 .. n - 1]
    BY <1>2
  <2>2. \A x, y \in S : x = y \/ rank[x] < rank[y] \/ rank[y] < rank[x]
    <3> TAKE x, y \in S
    <3>1. <<x, y>> \in R => rank[x] < rank[y]
      BY <1>3
    <3>2. <<y, x>> \in R => rank[y] < rank[x]
      BY <1>3
    <3> QED BY <3>1, <3>2 DEF Decides
  <2>3. \A x, y \in S : rank[x] = rank[y] => x = y
    <3> TAKE x, y \in S
    <3>1. rank[x] \in Int /\ rank[y] \in Int
      BY <1>1, <2>1
    <3> HIDE DEF rank
    <3> QED BY <2>2, <3>1
  <2> HIDE DEF rank
  <2> QED BY <2>1, <2>3 DEF Injection, IsInjective
<1> HIDE DEF rank
<1>5. IsFiniteSet(0 .. n - 1) /\ Cardinality(0 .. n - 1) = n
  BY <1>1, FS_Interval
<1>6. rank \in Surjection(S, 0 .. n - 1)
  BY <1>4, <1>5, FS_Injection
<1>7. ASSUME NEW i \in 1 .. n
      PROVE  f[i] \in S /\ rank[f[i]] = i - 1
  <2>1. PICK x \in S : rank[x] = i - 1
    BY <1>1, <1>6 DEF Surjection
  <2>2. f[i] = CHOOSE y \in S : Cardinality(Below(y)) = i - 1
    BY <1>7 DEF CountedOff
  <2>3. Cardinality(Below(x)) = i - 1
    BY <2>1 DEF rank
  <2>4. f[i] \in S /\ Cardinality(Below(f[i])) = i - 1
    <3> HIDE DEF Below
    <3> QED BY <2>2, <2>3
  <2> QED BY <2>4 DEF rank
<1>8. f \in [1 .. n -> S]
  <2>1. \A i \in 1 .. n : f[i] \in S
    BY <1>7
  <2> QED BY <2>1 DEF CountedOff
<1> HIDE DEF f
<1>9. ASSUME NEW x \in S
      PROVE  \E i \in 1 .. n : f[i] = x
  <2>1. rank[x] \in 0 .. n - 1
    BY <1>4 DEF Injection
  <2>2. rank[x] + 1 \in 1 .. n /\ (rank[x] + 1) - 1 = rank[x]
    BY <1>1, <2>1
  <2>3. f[rank[x] + 1] \in S /\ rank[f[rank[x] + 1]] = rank[x]
    BY <1>7, <2>2
  <2>4. f[rank[x] + 1] = x
    BY <1>4, <2>3 DEF Injection, IsInjective
  <2> QED BY <2>2, <2>4
<1>10. ASSUME NEW i \in 1 .. n, NEW j \in 1 .. n, i < j
       PROVE  <<f[i], f[j]>> \in R
  <2>1. f[i] \in S /\ f[j] \in S /\ rank[f[i]] = i - 1 /\ rank[f[j]] = j - 1
    BY <1>7
  <2>2. <<f[j], f[i]>> \in R => rank[f[j]] < rank[f[i]]
    BY <1>3, <2>1 DEF rank
  <2>3. i - 1 < j - 1 /\ ~(j - 1 < i - 1) /\ i - 1 # j - 1
    BY <1>1, <1>10
  <2>4. f[i] # f[j] /\ <<f[j], f[i]>> \notin R
    BY <2>1, <2>2, <2>3
  <2> QED BY <2>1, <2>4 DEF Decides
<1> QED BY <1>8, <1>9, <1>10 DEF f
=============================================================================
