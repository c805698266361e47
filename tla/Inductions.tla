------------------------------ MODULE Inductions ----------------------------
(***************************************************************************)
(* Facts about induction that the proofs of several modules rest on.  They *)
(* are about sets and functions, not operators: a property is the set of   *)
(* what has it, a step of a fold is a function.                            *)
(***************************************************************************)
EXTENDS Naturals, Sequences, SequencesExt, FiniteSetTheorems, TLAPS

-----------------------------------------------------------------------------
(* Induction on numbers. *)

\* A set of naturals that is not empty has a least element.
LEMMA LeastNumber ==
    ASSUME NEW T \in SUBSET Nat, T # {}
    PROVE  \E x \in T : \A y \in T : ~(y < x)
<1> DEFINE R == OpToRel(<, Nat)
<1>1. IsWellFoundedOn(R, Nat)
  BY NatLessThanWellFounded
<1>2. \A x, y \in Nat : y < x => <<y, x>> \in R
  BY DEF OpToRel
<1> HIDE DEF R
<1>3. \E x \in T : \A y \in T : ~(<<y, x>> \in R)
  BY <1>1, WFMin
<1> QED BY <1>2, <1>3

\* What zero has, and every successor of a number that has it, all numbers have.
LEMMA SetInduction ==
    ASSUME NEW S, 0 \in S, \A n \in Nat : n \in S => n + 1 \in S
    PROVE  \A n \in Nat : n \in S
<1> DEFINE T == {n \in Nat : n \notin S}
<1> SUFFICES ASSUME T # {} PROVE FALSE
  OBVIOUS
<1>1. PICK x \in T : \A y \in T : ~(y < x)
  BY LeastNumber
<1>2. x - 1 \in Nat /\ (x - 1) + 1 = x
  BY <1>1
<1>3. x - 1 \in S
  BY <1>1, <1>2
<1> QED BY <1>1, <1>2, <1>3

\* The same up to a bound.
LEMMA BoundedInduction ==
    ASSUME NEW S, NEW n \in Nat, 0 \in S,
           \A k \in 1 .. n : k - 1 \in S => k \in S
    PROVE  \A k \in 0 .. n : k \in S
<1> DEFINE T == {k \in Nat : k <= n => k \in S}
<1>1. \A k \in Nat : k \in T => k + 1 \in T
  <2> SUFFICES ASSUME NEW k \in Nat, k \in T, k + 1 <= n PROVE k + 1 \in S
    OBVIOUS
  <2>1. k \in S /\ k + 1 \in 1 .. n /\ (k + 1) - 1 = k
    OBVIOUS
  <2> QED BY <2>1
<1>2. 0 \in T
  OBVIOUS
<1> HIDE DEF T
<1>3. \A k \in Nat : k \in T
  BY <1>1, <1>2, SetInduction
<1> QED BY <1>3 DEF T

\* Induction on the size of the subsets of a finite set.
LEMMA SubsetInduction ==
    ASSUME NEW D, IsFiniteSet(D), NEW P, {} \in P,
           \A s \in SUBSET D : (\A x \in s : s \ {x} \in P) => s \in P
    PROVE  \A s \in SUBSET D : s \in P
<1> DEFINE Q == {n \in Nat : \A s \in SUBSET D : Cardinality(s) = n => s \in P}
<1>1. \A s \in SUBSET D : IsFiniteSet(s) /\ Cardinality(s) \in Nat
  BY FS_Subset, FS_CardinalityType
<1>2. 0 \in Q
  <2> SUFFICES ASSUME NEW s \in SUBSET D, Cardinality(s) = 0 PROVE s \in P
    OBVIOUS
  <2> QED BY <1>1, FS_EmptySet
<1>3. \A n \in Nat : n \in Q => n + 1 \in Q
  <2> SUFFICES ASSUME NEW n \in Nat, n \in Q,
                      NEW s \in SUBSET D, Cardinality(s) = n + 1
               PROVE  s \in P
    OBVIOUS
  <2>1. ASSUME NEW x \in s PROVE s \ {x} \in P
    <3>1. Cardinality(s \ {x}) = n
      BY <1>1, FS_RemoveElement
    <3> QED BY <3>1
  <2> QED BY <2>1
<1> HIDE DEF Q
<1>4. \A n \in Nat : n \in Q
  BY <1>2, <1>3, SetInduction
<1> QED BY <1>1, <1>4 DEF Q

-----------------------------------------------------------------------------
(* Folds: the function by which MapThenFoldSet is defined exists. *)

\* The subsets of at most n elements.
Small(D, n) == {s \in SUBSET D : Cardinality(s) <= n}

\* A smaller bound leaves fewer of them; an element less is within a bound less.
LEMMA SmallSubsets ==
    ASSUME NEW D, IsFiniteSet(D), NEW n \in Nat, NEW s \in SUBSET D
    PROVE  /\ s \in Small(D, Cardinality(D))
           /\ s \in Small(D, 0) <=> s = {}
           /\ s \in Small(D, n) => s \in Small(D, n + 1)
           /\ s \in Small(D, n + 1) => \A x \in s : s \ {x} \in Small(D, n)
<1>1. IsFiniteSet(s) /\ Cardinality(s) \in Nat /\ Cardinality(s) <= Cardinality(D)
  BY FS_Subset, FS_CardinalityType
<1>2. s \in Small(D, 0) <=> s = {}
  BY <1>1, FS_EmptySet DEF Small
<1>3. ASSUME NEW x \in s PROVE Cardinality(s \ {x}) = Cardinality(s) - 1
  BY <1>1, FS_RemoveElement
<1> QED BY <1>1, <1>2, <1>3 DEF Small

\* What folding the finite set D takes: an order and a step among the values V.
Foldable(D, V, base, pick, step) ==
    /\ IsFiniteSet(D)
    /\ base \in V
    /\ \A s \in SUBSET D : s # {} => pick[s] \in s
    /\ \A v \in V, x \in D : step[<<v, x>>] \in V

\* The fold takes the elements of a set in the order of pick and combines them
\* by step.
IsFold(h, D, base, pick, step) ==
    \A s \in SUBSET D :
        h[s] = IF s = {} THEN base ELSE step[<<h[s \ {pick[s]}], pick[s]>>]

\* There is one.
LEMMA FoldExists ==
    ASSUME NEW D, NEW V, NEW base, NEW pick, NEW step,
           Foldable(D, V, base, pick, step)
    PROVE  \E h \in [SUBSET D -> V] : IsFold(h, D, base, pick, step)
<1> DEFINE Folds(h, s) ==
               h[s] = IF s = {} THEN base ELSE step[<<h[s \ {pick[s]}], pick[s]>>]
           Q == {n \in Nat : \E h \in [Small(D, n) -> V] : \A s \in Small(D, n) : Folds(h, s)}
<1> IsFiniteSet(D) /\ base \in V
  BY DEF Foldable
<1> \A s \in SUBSET D : s # {} => pick[s] \in s
  BY DEF Foldable
<1> \A v \in V, x \in D : step[<<v, x>>] \in V
  BY DEF Foldable
<1>1. \A n \in Nat : \A s \in Small(D, n) : s \in SUBSET D
  BY DEF Small
<1>2. 0 \in Q
  <2>1. \A s \in Small(D, 0) : s = {}
    BY <1>1, SmallSubsets
  <2> DEFINE h == [s \in Small(D, 0) |-> base]
  <2>2. h \in [Small(D, 0) -> V] /\ \A s \in Small(D, 0) : Folds(h, s)
    BY <2>1
  <2> QED BY <2>2
<1>3. ASSUME NEW n \in Nat, n \in Q PROVE n + 1 \in Q
  <2>1. PICK g \in [Small(D, n) -> V] : \A s \in Small(D, n) : Folds(g, s)
    BY <1>3
  <2> DEFINE h == [s \in Small(D, n + 1) |->
                     IF s = {} THEN base ELSE step[<<g[s \ {pick[s]}], pick[s]>>]]
  <2>2. ASSUME NEW s \in Small(D, n + 1), s # {}
        PROVE  s \ {pick[s]} \in Small(D, n) /\ pick[s] \in D
    <3>1. s \in SUBSET D
      BY <1>1
    <3>2. pick[s] \in s
      BY <3>1, <2>2
    <3> QED BY <3>1, <3>2, SmallSubsets
  <2>3. h \in [Small(D, n + 1) -> V]
    BY <2>2
  <2>4. ASSUME NEW s \in Small(D, n) PROVE s \in Small(D, n + 1) /\ h[s] = g[s]
    <3>1. s \in Small(D, n + 1)
      BY <1>1, SmallSubsets
    <3>2. Folds(g, s)
      BY <2>1
    <3> QED BY <3>1, <3>2
  <2>5. ASSUME NEW s \in Small(D, n + 1) PROVE Folds(h, s)
    <3>1. CASE s = {}
      BY <3>1
    <3>2. CASE s # {}
      BY <3>2, <2>2, <2>4
    <3> QED BY <3>1, <3>2
  <2>6. \E z \in [Small(D, n + 1) -> V] : \A s \in Small(D, n + 1) : Folds(z, s)
    <3> HIDE DEF h, Folds
    <3> QED BY <2>3, <2>5
  <2> HIDE DEF Folds
  <2> QED BY <2>6
<1>4. Cardinality(D) \in Q
  <2> HIDE DEF Q
  <2>1. \A n \in Nat : n \in Q
    BY <1>2, <1>3, SetInduction
  <2> QED BY <2>1, FS_CardinalityType
<1>5. SUBSET D = Small(D, Cardinality(D))
  <2>1. SUBSET D \subseteq Small(D, Cardinality(D))
    BY SmallSubsets, 0 \in Nat
  <2> QED BY <2>1 DEF Small
<1>6. PICK h \in [SUBSET D -> V] : \A s \in SUBSET D : Folds(h, s)
  BY <1>4, <1>5
<1> QED BY <1>6 DEF IsFold

-----------------------------------------------------------------------------
(* Sums. *)

\* A sum adds its terms one by one, in whatever order.
LEMMA SumAdds ==
    ASSUME NEW D, IsFiniteSet(D), NEW f \in [D -> Nat]
    PROVE  \E h \in [SUBSET D -> Nat] :
              /\ h[{}] = 0
              /\ \A s \in SUBSET D : \A x \in s : h[s] = f[x] + h[s \ {x}]
              /\ SumFunction(f) = h[D]
<1> DEFINE Adds(h) == h = [s \in SUBSET D |->
                IF s = {} THEN 0
                ELSE f[CHOOSE x \in s : TRUE] + h[s \ {CHOOSE x \in s : TRUE}]]
           sum == CHOOSE h : Adds(h)
<1>1. SumFunction(f) = sum[D]
  BY DEF SumFunction, SumFunctionOnSet, FoldFunctionOnSet, MapThenFoldSet
<1>2. \E h : Adds(h) /\ h \in [SUBSET D -> Nat]
  <2> DEFINE pick == [s \in SUBSET D |-> CHOOSE x \in s : TRUE]
             step == [vx \in Nat \X D |-> f[vx[2]] + vx[1]]
  <2>1. \A s \in SUBSET D : s # {} => pick[s] \in s
    OBVIOUS
  <2>2. \A v \in Nat, x \in D : step[<<v, x>>] = f[x] + v /\ step[<<v, x>>] \in Nat
    OBVIOUS
  <2>3. PICK h \in [SUBSET D -> Nat] : IsFold(h, D, 0, pick, step)
    <3> HIDE DEF step, pick
    <3>1. \A v \in Nat, x \in D : step[<<v, x>>] \in Nat
      BY <2>2
    <3>2. Foldable(D, Nat, 0, pick, step)
      BY <2>1, <3>1 DEF Foldable
    <3> QED BY <3>2, FoldExists
  <2>4. ASSUME NEW s \in SUBSET D
        PROVE  h[s] = IF s = {} THEN 0
                      ELSE f[CHOOSE x \in s : TRUE] + h[s \ {CHOOSE x \in s : TRUE}]
    <3>1. CASE s = {}
      BY <2>3, <3>1 DEF IsFold
    <3>2. CASE s # {}
      <4>1. pick[s] = CHOOSE x \in s : TRUE
        OBVIOUS
      <4> HIDE DEF step, pick
      <4>2. pick[s] \in D /\ s \ {pick[s]} \in SUBSET D
        BY <2>1, <3>2
      <4>3. h[s] = f[pick[s]] + h[s \ {pick[s]}]
        BY <2>2, <2>3, <3>2, <4>2 DEF IsFold
      <4> QED BY <4>1, <4>3, <3>2
    <3> QED BY <3>1, <3>2
  <2>5. Adds(h)
    BY <2>4
  <2> HIDE DEF Adds
  <2> QED BY <2>5
<1>3. Adds(sum)
  <2> HIDE DEF Adds
  <2> QED BY <1>2
<1>4. /\ sum[{}] = 0
      /\ \A s \in SUBSET D : s # {} =>
            \E y \in s : sum[s] = f[y] + sum[s \ {y}]
  <2> HIDE DEF sum
  <2> QED BY <1>3
<1> HIDE DEF sum, Adds
<1> DEFINE N == {s \in SUBSET D : sum[s] \in Nat}
           P == {s \in SUBSET D : \A x \in s : sum[s] = f[x] + sum[s \ {x}]}
<1>8. \A s \in SUBSET D : sum[s] \in Nat
  <2>1. {} \in N
    BY <1>4
  <2>2. ASSUME NEW s \in SUBSET D, \A x \in s : s \ {x} \in N PROVE s \in N
    <3>1. CASE s = {}
      BY <3>1, <2>1
    <3>2. CASE s # {}
      <4>1. PICK y \in s : sum[s] = f[y] + sum[s \ {y}]
        BY <3>2, <1>4
      <4>2. sum[s \ {y}] \in Nat /\ f[y] \in Nat
        BY <2>2
      <4> QED BY <4>1, <4>2
    <3> QED BY <3>1, <3>2
  <2> HIDE DEF N
  <2>3. \A s \in SUBSET D : s \in N
    BY <2>1, <2>2, SubsetInduction
  <2> QED BY <2>3 DEF N
<1>5. ASSUME NEW s \in SUBSET D, \A x \in s : s \ {x} \in P PROVE s \in P
  <2>1. CASE s = {}
    BY <2>1, <1>4
  <2>2. CASE s # {}
    <3>1. PICK y \in s : sum[s] = f[y] + sum[s \ {y}]
      BY <1>4, <2>2
    <3>4. ASSUME NEW x \in s PROVE sum[s] = f[x] + sum[s \ {x}]
      <4>1. CASE x = y
        BY <4>1, <3>1
      <4>2. CASE x # y
        <5>1. sum[s \ {y}] = f[x] + sum[(s \ {y}) \ {x}]
          BY <1>5, <4>2
        <5>2. sum[s \ {x}] = f[y] + sum[(s \ {x}) \ {y}]
          BY <1>5, <4>2
        <5>3. (s \ {y}) \ {x} = (s \ {x}) \ {y}
          OBVIOUS
        <5>4. sum[(s \ {x}) \ {y}] \in Nat
          BY <1>8
        <5>5. f[x] \in Nat /\ f[y] \in Nat
          OBVIOUS
        <5> QED BY <3>1, <5>1, <5>2, <5>3, <5>4, <5>5
      <4> QED BY <4>1, <4>2
    <3> QED BY <3>4
  <2> QED BY <2>1, <2>2
<1>6. \A s \in SUBSET D : s \in P
  <2>1. {} \in P
    BY <1>4
  <2> HIDE DEF P
  <2> QED BY <1>5, <2>1, SubsetInduction
<1>7. sum = [s \in SUBSET D |-> sum[s]]
  BY <1>3 DEF Adds
<1>9. sum \in [SUBSET D -> Nat]
  BY <1>7, <1>8
<1> QED BY <1>1, <1>4, <1>6, <1>9

\* A term of a sum stands apart from the others.
LEMMA SumSplits ==
    ASSUME NEW D, IsFiniteSet(D), NEW f \in [D -> Nat], NEW x \in D
    PROVE  /\ SumFunction([a \in D \ {x} |-> f[a]]) \in Nat
           /\ SumFunction(f) = f[x] + SumFunction([a \in D \ {x} |-> f[a]])
<1> DEFINE E == D \ {x}
           g == [a \in E |-> f[a]]
<1>1. PICK h \in [SUBSET D -> Nat] :
         /\ h[{}] = 0
         /\ \A s \in SUBSET D : \A y \in s : h[s] = f[y] + h[s \ {y}]
         /\ SumFunction(f) = h[D]
  BY SumAdds
<1>2. IsFiniteSet(E) /\ g \in [E -> Nat]
  BY FS_RemoveElement
<1>3. PICK k \in [SUBSET E -> Nat] :
         /\ k[{}] = 0
         /\ \A s \in SUBSET E : \A y \in s : k[s] = g[y] + k[s \ {y}]
         /\ SumFunction(g) = k[E]
  <2> HIDE DEF E, g
  <2> QED BY <1>2, SumAdds
<1> DEFINE P == {s \in SUBSET E : k[s] = h[s]}
<1>4. ASSUME NEW s \in SUBSET E, \A y \in s : s \ {y} \in P PROVE s \in P
  <2>1. CASE s = {}
    BY <2>1, <1>1, <1>3
  <2>2. ASSUME NEW y \in s PROVE k[s] = h[s]
    <3>1. k[s] = g[y] + k[s \ {y}] /\ k[s \ {y}] = h[s \ {y}] /\ g[y] = f[y]
      BY <1>3, <1>4
    <3>2. h[s] = f[y] + h[s \ {y}]
      BY <1>1
    <3> QED BY <3>1, <3>2
  <2> QED BY <2>1, <2>2
<1>5. E \in P
  <2>1. {} \in P
    BY <1>1, <1>3
  <2>2. \A s \in SUBSET E : s \in P
    <3> HIDE DEF P, E, g
    <3> QED BY <2>1, <1>2, <1>4, SubsetInduction
  <2> QED BY <2>2
<1>6. h[D] = f[x] + h[E]
  BY <1>1
<1> QED BY <1>1, <1>3, <1>5, <1>6

\* A sum of naturals is one.
LEMMA SumIsNat ==
    ASSUME NEW D, IsFiniteSet(D), NEW f \in [D -> Nat]
    PROVE  SumFunction(f) \in Nat
<1>1. PICK h \in [SUBSET D -> Nat] : SumFunction(f) = h[D]
  BY SumAdds
<1> QED BY <1>1

-----------------------------------------------------------------------------
(* Remainders. *)

\* A multiple of the modulus does not change a remainder.
LEMMA ModAdds ==
    ASSUME NEW W \in Nat \ {0}, NEW a \in Nat
    PROVE  (a + W) % W = a % W
<1>1. /\ a = W * (a \div W) + (a % W)
      /\ a + W = W * ((a + W) \div W) + ((a + W) % W)
  OBVIOUS
<1>2. /\ a % W \in 0 .. W - 1 /\ (a + W) % W \in 0 .. W - 1
      /\ a \div W \in Nat /\ (a + W) \div W \in Nat
  OBVIOUS
<1> DEFINE p == a \div W
           q == (a + W) \div W
<1>3. W * (p + 1) = W * p + W
  BY <1>2
<1>4. q < p + 1 => W * q <= W * p
  BY <1>2
<1>5. q > p + 1 => W * q >= W * (p + 1) + W
  BY <1>2
<1> HIDE DEF p, q
<1> QED BY <1>1, <1>2, <1>3, <1>4, <1>5 DEF p, q

\* The remainder of a sum of two words is the sum, or what exceeds the modulus.
LEMMA ModOfSum ==
    ASSUME NEW W \in Nat \ {0}, NEW a \in 0 .. W - 1, NEW b \in 0 .. W - 1
    PROVE  /\ a % W = a
           /\ a + b < W => (a + b) % W = a + b
           /\ a + b >= W => (a + b) % W = a + b - W
OBVIOUS

\* Any multiple of it.
LEMMA ModAddsMultiple ==
    ASSUME NEW W \in Nat \ {0}, NEW a \in Nat
    PROVE  \A j \in Nat : (a + j * W) % W = a % W
<1> DEFINE S == {j \in Nat : (a + j * W) % W = a % W}
<1>1. 0 \in S
  OBVIOUS
<1>2. ASSUME NEW j \in Nat, j \in S PROVE j + 1 \in S
  <2>1. j * W \in Nat /\ (j + 1) * W = j * W + W /\ a + j * W \in Nat
    OBVIOUS
  <2>2. ((a + j * W) + W) % W = (a + j * W) % W
    BY <2>1, ModAdds
  <2>3. a + (j + 1) * W = (a + j * W) + W
    BY <2>1
  <2> QED BY <1>2, <2>2, <2>3
<1> HIDE DEF S
<1>3. \A j \in Nat : j \in S
  BY <1>1, <1>2, SetInduction
<1> QED BY <1>3 DEF S

\* Counting in a word is counting.
LEMMA ModCounts ==
    ASSUME NEW W \in Nat \ {0}, NEW a \in Nat
    PROVE  ((a % W) + 1) % W = (a + 1) % W
<1> DEFINE q == a \div W
           r == a % W
<1>1. a = W * q + r /\ q \in Nat /\ r \in Nat
  OBVIOUS
<1> HIDE DEF q, r
<1>2. q * W = W * q /\ q * W \in Nat
  BY <1>1
<1>3. ((r + 1) + q * W) % W = (r + 1) % W
  <2>1. r + 1 \in Nat
    BY <1>1
  <2> QED BY <2>1, <1>1, ModAddsMultiple
<1>4. (r + 1) + q * W = a + 1
  BY <1>1, <1>2
<1> QED BY <1>3, <1>4 DEF r

-----------------------------------------------------------------------------
(* Folds of sequences. *)

\* A set of indices has a greatest one, unless it is empty.
LEMMA MaxOfSome ==
    ASSUME NEW n \in Nat
    PROVE  \A s \in SUBSET (1 .. n) : s # {} => Max(s) \in s
<1> SUFFICES ASSUME NEW s \in SUBSET (1 .. n), s # {} PROVE Max(s) \in s
  OBVIOUS
<1> DEFINE T == {n - i : i \in s}
<1>1. T \in SUBSET Nat /\ T # {}
  <2>1. \A i \in s : i \in 1 .. n /\ n - i \in Nat
    OBVIOUS
  <2> QED BY <2>1
<1>2. PICK x \in s : \A y \in s : ~(n - y < n - x)
  BY <1>1, LeastNumber
<1>3. \A y \in s : x >= y
  BY <1>2
<1> QED BY <1>3 DEF Max

\* FoldLeft takes the greatest index of a set, which leaves a prefix a prefix.
LEMMA PrefixIndices ==
    ASSUME NEW k \in Nat, k # 0
    PROVE  /\ Max(1 .. k) = k
           /\ (1 .. k) \ {k} = 1 .. k - 1
BY DEF Max
=============================================================================
