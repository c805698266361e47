---------------------------- MODULE Codec_proofs ----------------------------
(***************************************************************************)
(* What the codecs write is what they read, and no beginning of it is      *)
(* anything; what a connection's reader handles is then what was sent, and *)
(* what a miner seals is what a peer verifies.                             *)
(***************************************************************************)
EXTENDS Framing, Pow, Inductions

-----------------------------------------------------------------------------
(* Powers. *)

\* The powers of a number are a function: each is the one before it times the number.
LEMMA PowersExist ==
    ASSUME NEW b
    PROVE  \E f : f = [i \in Nat |-> IF i = 0 THEN 1 ELSE b * f[i - 1]]
<1> DEFINE Upto(n, r) ==
               /\ r = [i \in 0 .. n |-> r[i]]
               /\ \A i \in 0 .. n : r[i] = IF i = 0 THEN 1 ELSE b * r[i - 1]
           S == {n \in Nat : \E r : Upto(n, r)}
<1>1. 0 \in S
  <2>1. Upto(0, [i \in 0 .. 0 |-> 1])
    OBVIOUS
  <2> QED BY <2>1
<1>2. ASSUME NEW n \in Nat, n \in S PROVE n + 1 \in S
  <2>1. PICK r : Upto(n, r)
    BY <1>2
  <2> DEFINE q == [i \in 0 .. n + 1 |-> IF i <= n THEN r[i] ELSE b * r[n]]
  <2>2. Upto(n + 1, q)
    <3>1. \A i \in 0 .. n : q[i] = r[i]
      OBVIOUS
    <3>2. ASSUME NEW i \in 0 .. n + 1 PROVE q[i] = IF i = 0 THEN 1 ELSE b * q[i - 1]
      <4>1. CASE i = 0
        <5>1. 0 \in 0 .. n
          OBVIOUS
        <5> QED BY <5>1, <4>1, <3>1, <2>1
      <4>2. CASE i \in 1 .. n
        <5>1. i - 1 \in 0 .. n /\ i \in 0 .. n
          BY <4>2
        <5> QED BY <4>2, <5>1, <3>1, <2>1
      <4>3. CASE i = n + 1
        <5>1. i - 1 \in 0 .. n /\ i - 1 = n /\ ~(i <= n) /\ i # 0
          BY <4>3
        <5> QED BY <5>1, <3>1
      <4> QED BY <4>1, <4>2, <4>3
    <3>3. q = [i \in 0 .. n + 1 |-> q[i]]
      OBVIOUS
    <3> QED BY <3>2, <3>3
  <2> HIDE DEF Upto
  <2> QED BY <2>2
<1>3. \A n \in Nat : n \in S
  <2> HIDE DEF S
  <2> QED BY <1>1, <1>2, SetInduction
<1> DEFINE p == [n \in Nat |-> CHOOSE r : Upto(n, r)]
<1>4. \A n \in Nat : Upto(n, p[n])
  <2>1. ASSUME NEW n \in Nat PROVE Upto(n, CHOOSE r : Upto(n, r))
    <3>1. \E r : Upto(n, r)
      BY <1>3
    <3> HIDE DEF Upto
    <3> QED BY <3>1
  <2> HIDE DEF Upto
  <2> QED BY <2>1
<1> HIDE DEF p
<1>5. ASSUME NEW n \in Nat PROVE p[n + 1][n] = p[n][n]
  <2> DEFINE T == {i \in 0 .. n : p[n + 1][i] = p[n][i]}
  <2>1. Upto(n, p[n]) /\ Upto(n + 1, p[n + 1])
    BY <1>4
  <2>2. 0 \in T
    <3>1. 0 \in 0 .. n /\ 0 \in 0 .. n + 1
      OBVIOUS
    <3> QED BY <2>1, <3>1
  <2>3. ASSUME NEW i \in 1 .. n, i - 1 \in T PROVE i \in T
    <3>1. i \in 0 .. n /\ i \in 0 .. n + 1 /\ i # 0
      OBVIOUS
    <3> QED BY <2>1, <2>3, <3>1
  <2> HIDE DEF T
  <2>4. \A i \in 0 .. n : i \in T
    BY <2>2, <2>3, BoundedInduction
  <2> QED BY <2>4 DEF T
<1> DEFINE f == [n \in Nat |-> p[n][n]]
<1>6. ASSUME NEW i \in Nat PROVE f[i] = IF i = 0 THEN 1 ELSE b * f[i - 1]
  <2>1. CASE i = 0
    <3>1. Upto(0, p[0])
      <4> HIDE DEF Upto
      <4> QED BY <1>4, 0 \in Nat
    <3>2. 0 \in 0 .. 0
      OBVIOUS
    <3> QED BY <2>1, <3>1, <3>2
  <2>2. CASE i # 0
    <3>1. i - 1 \in Nat /\ (i - 1) + 1 = i
      BY <2>2
    <3>2. p[i][i] = b * p[i][i - 1]
      <4>1. i \in 0 .. i
        OBVIOUS
      <4> QED BY <4>1, <1>4, <2>2
    <3>3. p[i][i - 1] = p[i - 1][i - 1]
      BY <3>1, <1>5
    <3> QED BY <2>2, <3>1, <3>2, <3>3
  <2> QED BY <2>1, <2>2
<1>7. f = [i \in Nat |-> IF i = 0 THEN 1 ELSE b * f[i - 1]]
  <2>1. \A i \in Nat : f[i] = IF i = 0 THEN 1 ELSE b * f[i - 1]
    BY <1>6
  <2>2. f = [i \in Nat |-> f[i]]
    OBVIOUS
  <2> HIDE DEF f
  <2> QED BY <2>1, <2>2
<1> QED BY <1>7

\* The zeroth power is one, the next one a multiple.
LEMMA PowerIs ==
    ASSUME NEW b, NEW n \in Nat
    PROVE  Power(b, 0) = 1 /\ Power(b, n + 1) = b * Power(b, n)
<1> DEFINE Powers(f) == f = [i \in Nat |-> IF i = 0 THEN 1 ELSE b * f[i - 1]]
           power == CHOOSE f : Powers(f)
<1>1. \A k : Power(b, k) = power[k]
  BY DEF Power
<1>2. Powers(power)
  <2>1. \E f : Powers(f)
    BY PowersExist
  <2> HIDE DEF Powers
  <2> QED BY <2>1
<1> HIDE DEF power
<1>3. power[0] = 1
  BY <1>2
<1>4. power[n + 1] = b * power[n]
  <2>1. n + 1 \in Nat /\ n + 1 # 0 /\ (n + 1) - 1 = n
    OBVIOUS
  <2> DEFINE g == power
  <2>2. \A i \in Nat : power[i] = IF i = 0 THEN 1 ELSE b * power[i - 1]
    BY <1>2
  <2> HIDE DEF Powers
  <2> QED BY <2>1, <2>2
<1> QED BY <1>1, <1>3, <1>4

\* The powers of a number that is not zero are naturals that are not.
LEMMA PowerIsNat ==
    ASSUME NEW b \in Nat \ {0}, NEW n \in Nat
    PROVE  Power(b, n) \in Nat \ {0}
<1> DEFINE S == {k \in Nat : Power(b, k) \in Nat \ {0}}
<1>1. 0 \in S
  BY PowerIs
<1>2. ASSUME NEW k \in Nat, k \in S PROVE k + 1 \in S
  <2>1. Power(b, k + 1) = b * Power(b, k)
    BY PowerIs
  <2>2. \A x \in Nat \ {0}, y \in Nat \ {0} : x * y \in Nat \ {0}
    OBVIOUS
  <2> QED BY <1>2, <2>1, <2>2
<1> HIDE DEF S
<1>3. \A k \in Nat : k \in S
  BY <1>1, <1>2, SetInduction
<1> QED BY <1>3 DEF S

-----------------------------------------------------------------------------
(* Numbers. *)

\* A number is made of its quotient and its remainder.
LEMMA Divides ==
    ASSUME NEW d \in Nat \ {0}, NEW v \in Nat
    PROVE  v \div d \in Nat /\ v % d \in 0 .. d - 1 /\ v = (v % d) + d * (v \div d)
OBVIOUS

\* A quotient and a remainder are the only ones.
LEMMA DivisionIs ==
    ASSUME NEW d \in Nat \ {0}, NEW q \in Nat, NEW r \in Nat, r < d,
           NEW v \in Nat, v = d * q + r
    PROVE  v \div d = q /\ v % d = r
<1> DEFINE k == v \div d
           s == v % d
<1>1. k \in Nat /\ s \in Nat /\ s < d /\ v = d * k + s
  OBVIOUS
<1> HIDE DEF k, s
<1>2. CASE k < q
  <2>1. k + 1 <= q
    BY <1>1, <1>2
  <2>2. d * (k + 1) <= d * q /\ d * (k + 1) = d * k + d
    BY <2>1, <1>1
  <2> QED BY <2>2, <1>1
<1>3. CASE q < k
  <2>1. q + 1 <= k
    BY <1>1, <1>3
  <2>2. d * (q + 1) <= d * k /\ d * (q + 1) = d * q + d
    BY <2>1, <1>1
  <2> QED BY <2>2, <1>1
<1>4. CASE k = q
  BY <1>1, <1>4 DEF k, s
<1> QED BY <1>1, <1>2, <1>3, <1>4

\* Dividing twice is dividing by the product.
LEMMA DivisionTwice ==
    ASSUME NEW v \in Nat, NEW a \in Nat \ {0}, NEW b \in Nat \ {0}
    PROVE  v \div (a * b) = (v \div a) \div b
<1> DEFINE k == v \div a
           r == v % a
           q == k \div b
           s == k % b
<1>1. k \in Nat /\ r \in Nat /\ r < a /\ v = a * k + r
  OBVIOUS
<1> HIDE DEF k, r
<1>2. q \in Nat /\ s \in Nat /\ s < b /\ k = b * q + s
  BY <1>1
<1> HIDE DEF q, s
<1> DEFINE rest == a * s + r
<1>3. a * b \in Nat \ {0}
  OBVIOUS
<1>4. v = (a * b) * q + rest
  <2>1. a * k = a * (b * q) + a * s
    BY <1>2
  <2>2. a * (b * q) = (a * b) * q
    BY <1>2
  <2> QED BY <1>1, <1>2, <2>1, <2>2
<1>5. rest \in Nat /\ rest < a * b
  <2>1. s + 1 <= b
    BY <1>2
  <2>2. a * (s + 1) <= a * b
    BY <2>1, <1>2
  <2>3. a * (s + 1) = a * s + a /\ a * s \in Nat
    BY <1>2
  <2> QED BY <1>1, <2>2, <2>3, <1>3
<1> HIDE DEF rest
<1>6. v \div (a * b) = q
  BY <1>2, <1>3, <1>4, <1>5, DivisionIs
<1> QED BY <1>6 DEF q, k

Kinds == {"u8", "u16", "u32", "u64", "hash", "address"}

Numbers == {"u8", "u16", "u32", "u64"}

\* The widths and the base are numbers.
LEMMA WidthIs ==
    /\ Base \in Nat /\ Base > 1 /\ Base \in Nat \ {0}
    /\ \A kind \in Kinds : Width[kind] \in Nat \ {0}
    /\ \A n \in Nat : Power(Base, n) \in Nat \ {0}
BY CodecAssumption, PowerIsNat DEF Kinds

\* A number is written as as many bytes as it is wide: each is the remainder of what
\* the ones before it leave, and nothing is left at the end.
LEMMA DigitsAre ==
    ASSUME NEW kind \in Kinds, NEW v \in Values(kind)
    PROVE  LET w == Width[kind]
               le == LittleEndian(v, kind)
           IN  /\ le \in Seq(Byte) /\ Len(le) = w
               /\ v \in Nat
               /\ \E left \in [0 .. w -> Nat] :
                     /\ left[0] = v /\ left[w] = 0
                     /\ \A i \in 1 .. w : left[i - 1] = le[i] + Base * left[i]
<1> DEFINE w == Width[kind]
           le == LittleEndian(v, kind)
           left == [i \in 0 .. w |-> v \div Power(Base, i)]
<1>1. w \in Nat \ {0} /\ Base \in Nat /\ Base > 1 /\ \A n \in Nat : Power(Base, n) \in Nat \ {0}
  BY WidthIs
<1>2. v \in Nat /\ v < Power(Base, w)
  BY <1>1 DEF Values
<1> HIDE DEF w
<1>3. le = [i \in 1 .. w |-> (v \div Power(Base, i - 1)) % Base]
  BY DEF LittleEndian, w
<1>4. ASSUME NEW i \in 1 .. w
      PROVE  /\ le[i] = left[i - 1] % Base
             /\ left[i - 1] \in Nat
             /\ left[i] = left[i - 1] \div Base
  <2>1. i - 1 \in Nat /\ i - 1 \in 0 .. w /\ i \in 0 .. w /\ (i - 1) + 1 = i
    BY <1>1
  <2> DEFINE p == Power(Base, i - 1)
             k == v \div p
  <2>2. p \in Nat \ {0}
    BY <1>1, <2>1
  <2>3. Power(Base, i) = Base * p
    <3>1. Power(Base, (i - 1) + 1) = Base * Power(Base, i - 1)
      BY <2>1, PowerIs
    <3> QED BY <3>1, <2>1
  <2> HIDE DEF p
  <2>4. k \in Nat
    BY <1>2, <2>2
  <2>5. Base * p = p * Base
    BY <1>1, <2>2
  <2>6. v \div (p * Base) = (v \div p) \div Base
    BY <1>1, <1>2, <2>2, DivisionTwice
  <2>7. left[i - 1] = k /\ left[i] = v \div (p * Base)
    BY <2>1, <2>3, <2>5 DEF p
  <2>8. le[i] = k % Base
    BY <1>3 DEF p
  <2> QED BY <2>4, <2>6, <2>7, <2>8
<1>5. left[0] = v
  <2>1. Power(Base, 0) = 1 /\ 0 \in 0 .. w
    BY <1>1, PowerIs
  <2>2. v \div 1 = v
    BY <1>2
  <2> QED BY <2>1, <2>2
<1>6. left[w] = 0
  <2> DEFINE p == Power(Base, w)
  <2>1. p \in Nat \ {0} /\ v < p
    BY <1>1, <1>2
  <2>2. left[w] = v \div p
    BY <1>1
  <2> HIDE DEF p
  <2>3. v = p * 0 + v
    BY <2>1, <1>2
  <2> QED BY <2>1, <2>2, <2>3, <1>2, DivisionIs
<1>7. ASSUME NEW i \in 1 .. w
      PROVE  left[i] \in Nat /\ le[i] \in Byte /\ left[i - 1] = le[i] + Base * left[i]
  <2> DEFINE a == left[i - 1]
             digit == le[i]
             rest == left[i]
  <2>1. a \in Nat /\ digit = a % Base /\ rest = a \div Base
    BY <1>4
  <2> HIDE DEF a, digit, rest
  <2>2. a \div Base \in Nat /\ a % Base \in 0 .. Base - 1
        /\ a = (a % Base) + Base * (a \div Base)
    BY <2>1, WidthIs, Divides
  <2>3. rest \in Nat /\ digit \in 0 .. Base - 1 /\ a = digit + Base * rest
    BY <2>1, <2>2
  <2> QED BY <2>3 DEF a, digit, rest, Byte
<1>8. left \in [0 .. w -> Nat]
  <2>1. ASSUME NEW i \in 0 .. w PROVE left[i] \in Nat
    <3>1. CASE i = 0
      BY <3>1, <1>5, <1>2
    <3>2. CASE i # 0
      <4>1. i \in 1 .. w
        BY <3>2
      <4> QED BY <4>1, <1>7
    <3> QED BY <3>1, <3>2
  <2>2. left = [i \in 0 .. w |-> left[i]]
    OBVIOUS
  <2> HIDE DEF left
  <2> QED BY <2>1, <2>2
<1>9. le \in Seq(Byte) /\ Len(le) = w
  <2>1. le = [i \in 1 .. w |-> le[i]]
    BY <1>3
  <2> HIDE DEF le
  <2>2. le \in [1 .. w -> Byte]
    BY <1>7, <2>1
  <2> QED BY <1>1, <2>2
<1> HIDE DEF left, le
<1> QED BY <1>2, <1>5, <1>6, <1>7, <1>8, <1>9 DEF le, w

\* A set of indices has a least one, unless it is empty.
LEMMA MinOfSome ==
    ASSUME NEW n \in Nat
    PROVE  \A s \in SUBSET (1 .. n) : s # {} => Min(s) \in s
<1> SUFFICES ASSUME NEW s \in SUBSET (1 .. n), s # {} PROVE Min(s) \in s
  OBVIOUS
<1>1. s \in SUBSET Nat
  OBVIOUS
<1>2. PICK x \in s : \A y \in s : ~(y < x)
  BY <1>1, LeastNumber
<1>3. \A y \in s : x <= y
  BY <1>2
<1> QED BY <1>3 DEF Min

\* FoldRight takes the least index of a set, which leaves a suffix a suffix.
LEMMA SuffixIndices ==
    ASSUME NEW n \in Nat, NEW k \in 1 .. n
    PROVE  /\ Min(k .. n) = k
           /\ (k .. n) \ {k} = k + 1 .. n
BY DEF Min

\* A number is read from its last byte to its first.
LEMMA NumberOfIs ==
    ASSUME NEW s \in Seq(Byte)
    PROVE  \E high :
              /\ high[Len(s) + 1] = 0
              /\ \A i \in 1 .. Len(s) : high[i] = s[i] + Base * high[i + 1]
              /\ high[1] = NumberOf(s)
<1> DEFINE n == Len(s)
           D == 1 .. n
           Folds(h) == h = [t \in SUBSET D |->
                IF t = {} THEN 0 ELSE s[Min(t)] + Base * h[t \ {Min(t)}]]
           fold == CHOOSE h : Folds(h)
           high == [k \in 1 .. n + 1 |-> fold[k .. n]]
<1>1. NumberOf(s) = fold[D]
  <2>1. DOMAIN s = D
    OBVIOUS
  <2> QED BY <2>1 DEF NumberOf, FoldRight, MapThenFoldSet
<1>2. \E h : Folds(h)
  <2> DEFINE pick == [t \in SUBSET D |-> Min(t)]
             step == [vx \in Nat \X D |-> s[vx[2]] + Base * vx[1]]
  <2>1. \A t \in SUBSET D : t # {} => pick[t] \in t
    <3>1. n \in Nat
      OBVIOUS
    <3>2. \A t \in SUBSET D : t # {} => Min(t) \in t
      BY <3>1, MinOfSome
    <3> QED BY <3>2
  <2>2. ASSUME NEW v \in Nat, NEW x \in D
        PROVE  step[<<v, x>>] = s[x] + Base * v /\ step[<<v, x>>] \in Nat
    <3>1. s[x] \in Nat /\ Base \in Nat
      <4>1. s[x] \in Byte
        OBVIOUS
      <4> QED BY <4>1, WidthIs DEF Byte
    <3>2. step[<<v, x>>] = s[x] + Base * v
      OBVIOUS
    <3> HIDE DEF step
    <3> QED BY <3>1, <3>2
  <2>3. IsFiniteSet(D)
    BY FS_Interval
  <2>4. PICK h \in [SUBSET D -> Nat] : IsFold(h, D, 0, pick, step)
    <3> HIDE DEF step, pick, D
    <3>1. Foldable(D, Nat, 0, pick, step)
      BY <2>1, <2>2, <2>3 DEF Foldable
    <3> QED BY <3>1, FoldExists
  <2>5. ASSUME NEW t \in SUBSET D
        PROVE  h[t] = IF t = {} THEN 0 ELSE s[Min(t)] + Base * h[t \ {Min(t)}]
    <3>1. pick[t] = Min(t)
      OBVIOUS
    <3> HIDE DEF step, pick
    <3>2. CASE t = {}
      BY <3>2, <2>4 DEF IsFold
    <3>3. CASE t # {}
      <4>1. pick[t] \in D /\ h[t \ {pick[t]}] \in Nat
        BY <2>1, <3>3
      <4> QED BY <3>1, <3>3, <4>1, <2>2, <2>4 DEF IsFold
    <3> QED BY <3>2, <3>3
  <2>6. Folds(h)
    BY <2>5
  <2> HIDE DEF Folds
  <2> QED BY <2>6
<1>3. Folds(fold)
  <2> HIDE DEF Folds
  <2> QED BY <1>2
<1>4. fold[{}] = 0 /\ \A t \in SUBSET D : t # {} =>
         fold[t] = s[Min(t)] + Base * fold[t \ {Min(t)}]
  <2> HIDE DEF fold
  <2> QED BY <1>3
<1> HIDE DEF fold, Folds
<1>5. n \in Nat
  OBVIOUS
<1>6. high[n + 1] = 0 /\ high[1] = fold[D]
  <2>1. n + 1 .. n = {} /\ n + 1 \in 1 .. n + 1 /\ 1 \in 1 .. n + 1
    BY <1>5
  <2> QED BY <1>4, <2>1
<1>7. ASSUME NEW k \in 1 .. n PROVE high[k] = s[k] + Base * high[k + 1]
  <2>1. k .. n \in SUBSET D /\ k .. n # {} /\ k + 1 \in 1 .. n + 1 /\ k \in 1 .. n + 1
    <3>1. k \in k .. n
      BY <1>5
    <3>2. \A i \in k .. n : i \in D
      BY <1>5
    <3>3. k + 1 \in 1 .. n + 1 /\ k \in 1 .. n + 1
      BY <1>5
    <3> QED BY <3>1, <3>2, <3>3
  <2>2. Min(k .. n) = k /\ (k .. n) \ {k} = k + 1 .. n
    BY <1>5, SuffixIndices
  <2>3. fold[k .. n] = s[k] + Base * fold[k + 1 .. n]
    BY <1>4, <2>1, <2>2
  <2> QED BY <2>1, <2>3
<1> QED BY <1>1, <1>6, <1>7

\* A number is read as it was written.
LEMMA NumberIsRead ==
    ASSUME NEW kind \in Kinds, NEW v \in Values(kind)
    PROVE  NumberOf(LittleEndian(v, kind)) = v
<1> DEFINE w == Width[kind]
           le == LittleEndian(v, kind)
<1>1. le \in Seq(Byte) /\ Len(le) = w /\ w \in Nat
  BY DigitsAre, WidthIs
<1>2. PICK left \in [0 .. w -> Nat] :
         /\ left[0] = v /\ left[w] = 0
         /\ \A i \in 1 .. w : left[i - 1] = le[i] + Base * left[i]
  BY DigitsAre
<1>3. PICK high : /\ high[w + 1] = 0
                  /\ \A i \in 1 .. w : high[i] = le[i] + Base * high[i + 1]
                  /\ high[1] = NumberOf(le)
  <2> HIDE DEF le, w
  <2> QED BY <1>1, NumberOfIs
<1> HIDE DEF w, le
<1> DEFINE S == {j \in 0 .. w : high[w - j + 1] = left[w - j]}
<1>4. 0 \in S
  BY <1>1, <1>2, <1>3
<1>5. ASSUME NEW j \in 1 .. w, j - 1 \in S PROVE j \in S
  <2> DEFINE i == w - j + 1
  <2>1. i \in 1 .. w /\ w - (j - 1) = i /\ i - 1 = w - j
    BY <1>1
  <2>2. high[i + 1] = left[i]
    BY <1>5, <2>1
  <2>3. high[i] = left[i - 1]
    BY <1>2, <1>3, <2>1, <2>2
  <2> QED BY <1>1, <2>1, <2>3
<1>6. \A j \in 0 .. w : j \in S
  <2> HIDE DEF S
  <2> QED BY <1>1, <1>4, <1>5, BoundedInduction
<1>7. high[1] = left[0]
  <2>1. w \in 0 .. w /\ w - w = 0 /\ w - w + 1 = 1
    BY <1>1
  <2> QED BY <1>6, <2>1
<1> QED BY <1>2, <1>3, <1>7 DEF le

-----------------------------------------------------------------------------
(* Reading what was written.  The data read may end anywhere: as far as it *)
(* goes it is what was written, and what is read is the value if it goes   *)
(* far enough, and nothing otherwise.                                      *)

Agrees(data, at, written) ==
    \A i \in 1 .. Len(written) : at + i <= Len(data) => data[at + i] = written[i]

Yields(read, value, at, written, data) ==
    IF at + Len(written) <= Len(data) THEN read = Read(value, at + Len(written))
    ELSE ~read.ok

\* What agrees with a concatenation agrees with each part.
LEMMA AgreesWithParts ==
    ASSUME NEW data, NEW at \in Nat, NEW u \in Seq(Byte), NEW w \in Seq(Byte),
           Agrees(data, at, u \o w)
    PROVE  Agrees(data, at, u) /\ Agrees(data, at + Len(u), w)
<1>1. u \o w \in Seq(Byte) /\ Len(u \o w) = Len(u) + Len(w) /\ Len(u) \in Nat /\ Len(w) \in Nat
  OBVIOUS
<1>2. ASSUME NEW i \in 1 .. Len(u), at + i <= Len(data) PROVE data[at + i] = u[i]
  <2>1. i \in 1 .. Len(u \o w) /\ (u \o w)[i] = u[i]
    BY <1>1
  <2> QED BY <1>2, <2>1 DEF Agrees
<1>3. ASSUME NEW i \in 1 .. Len(w), (at + Len(u)) + i <= Len(data)
      PROVE  data[(at + Len(u)) + i] = w[i]
  <2>1. Len(u) + i \in 1 .. Len(u \o w) /\ (u \o w)[Len(u) + i] = w[i]
    BY <1>1
  <2>2. (at + Len(u)) + i = at + (Len(u) + i)
    BY <1>1
  <2> QED BY <1>3, <2>1, <2>2 DEF Agrees
<1> QED BY <1>2, <1>3 DEF Agrees

\* Bytes are taken as they were written.
LEMMA TakeYields ==
    ASSUME NEW data \in Seq(Byte), NEW at \in Nat, NEW w \in Seq(Byte),
           Agrees(data, at, w)
    PROVE  Yields(Take(data, at, Len(w)), w, at, w, data)
<1>1. Len(w) \in Nat /\ Len(data) \in Nat
  OBVIOUS
<1>2. CASE at + Len(w) <= Len(data)
  <2> DEFINE s == SubSeq(data, at + 1, at + Len(w))
  <2>1. s \in Seq(Byte) /\ Len(s) = Len(w) /\ \A i \in 1 .. Len(w) : s[i] = data[at + i]
    <3>1. \A i \in at + 1 .. at + Len(w) : i \in 1 .. Len(data)
      BY <1>1, <1>2
    <3>2. s = [i \in 1 .. Len(w) |-> data[at + i]]
      <4>1. (at + Len(w)) - (at + 1) + 1 = Len(w)
        BY <1>1
      <4>2. \A i \in 1 .. Len(w) : (at + 1) + i - 1 = at + i
        BY <1>1
      <4>3. s = [i \in 1 .. (at + Len(w)) - (at + 1) + 1 |-> data[(at + 1) + i - 1]]
        OBVIOUS
      <4> QED BY <4>1, <4>2, <4>3
    <3>3. \A i \in 1 .. Len(w) : data[at + i] \in Byte
      <4>1. \A i \in 1 .. Len(w) : at + i \in 1 .. Len(data)
        BY <1>1, <1>2
      <4> QED BY <4>1
    <3> HIDE DEF s
    <3>4. s \in [1 .. Len(w) -> Byte]
      BY <3>2, <3>3
    <3>5. s \in Seq(Byte) /\ Len(s) = Len(w)
      BY <3>4, <1>1
    <3> QED BY <3>2, <3>5
  <2> HIDE DEF s
  <2>2. \A i \in 1 .. Len(w) : s[i] = w[i]
    <3>1. ASSUME NEW i \in 1 .. Len(w) PROVE s[i] = w[i]
      <4>1. at + i <= Len(data)
        BY <1>1, <1>2
      <4> QED BY <4>1, <2>1 DEF Agrees
    <3> QED BY <3>1
  <2>3. s = w
    BY <2>1, <2>2
  <2>4. Take(data, at, Len(w)) = Read(s, at + Len(w))
    BY <1>1, <1>2 DEF Take, s
  <2> QED BY <1>2, <2>3, <2>4 DEF Yields
<1>3. CASE ~(at + Len(w) <= Len(data))
  BY <1>1, <1>3 DEF Take, Yields, Truncated
<1> QED BY <1>2, <1>3

\* So are numbers.
LEMMA NumberYields ==
    ASSUME NEW data \in Seq(Byte), NEW at \in Nat, NEW kind \in Kinds,
           NEW v \in Values(kind), Agrees(data, at, LittleEndian(v, kind))
    PROVE  Yields(ReadNumber(kind, data, at), v, at, LittleEndian(v, kind), data)
<1> DEFINE le == LittleEndian(v, kind)
           taken == Take(data, at, Width[kind])
<1>1. le \in Seq(Byte) /\ Len(le) = Width[kind] /\ NumberOf(le) = v
  BY DigitsAre, NumberIsRead
<1>2. Yields(taken, le, at, le, data)
  <2> HIDE DEF le
  <2> QED BY <1>1, TakeYields DEF le
<1>3. ReadNumber(kind, data, at) =
         IF taken.ok THEN Read(NumberOf(taken.value), taken.at) ELSE Truncated
  BY DEF ReadNumber
<1> HIDE DEF taken
<1>4. CASE at + Len(le) <= Len(data)
  <2>1. taken.ok /\ taken.value = le /\ taken.at = at + Len(le)
    <3>1. taken = Read(le, at + Len(le))
      BY <1>2, <1>4 DEF Yields
    <3> QED BY <3>1 DEF Read
  <2>2. ReadNumber(kind, data, at) = Read(v, at + Len(le))
    BY <1>1, <1>3, <2>1
  <2> QED BY <1>4, <2>2 DEF Yields
<1>5. CASE ~(at + Len(le) <= Len(data))
  <2>1. ReadNumber(kind, data, at) = Truncated
    BY <1>2, <1>3, <1>5 DEF Yields
  <2> QED BY <1>5, <2>1 DEF Yields, Truncated
<1> QED BY <1>4, <1>5

\* The values of a kind of number are naturals.
LEMMA ValuesAre ==
    ASSUME NEW kind \in Kinds, NEW v \in Values(kind)
    PROVE  v \in Nat
BY DigitsAre

\* So are bytes with their length before them.
LEMMA BytesYield ==
    ASSUME NEW data \in Seq(Byte), NEW at \in Nat, NEW kind \in DOMAIN LengthOf,
           NEW v, IsKind(v, kind), Agrees(data, at, WriteBytes(v, kind))
    PROVE  /\ WriteBytes(v, kind) \in Seq(Byte)
           /\ Yields(Sized(ReadNumber(LengthOf[kind], data, at), data), v, at,
                     WriteBytes(v, kind), data)
<1> DEFINE count == LengthOf[kind]
           le == LittleEndian(Len(v), count)
           size == ReadNumber(count, data, at)
<1>1. count \in Kinds /\ kind \notin Fixed
  BY DEF LengthOf, Kinds, Fixed
<1>2. v \in Seq(Byte) /\ Len(v) \in Values(count)
  BY <1>1 DEF IsKind
<1> HIDE DEF count
<1>3. le \in Seq(Byte) /\ Len(le) \in Nat
  BY <1>1, <1>2, DigitsAre, WidthIs
<1>4. WriteBytes(v, kind) = le \o v
  BY DEF WriteBytes, count
<1> HIDE DEF le
<1>5. Agrees(data, at, le) /\ Agrees(data, at + Len(le), v)
  BY <1>2, <1>3, <1>4, AgreesWithParts
<1>6. Yields(size, Len(v), at, le, data)
  BY <1>1, <1>2, <1>5, NumberYields DEF le
<1> HIDE DEF size
<1>7. /\ le \o v \in Seq(Byte) /\ Len(le \o v) = Len(le) + Len(v)
      /\ Len(v) \in Nat /\ Len(data) \in Nat
  BY <1>2, <1>3
<1>8. CASE at + Len(le) <= Len(data)
  <2>1. size.ok /\ size.at = at + Len(le) /\ size.value = Len(v)
    BY <1>6, <1>8 DEF Yields, Read
  <2>2. Sized(size, data) = Take(data, at + Len(le), Len(v))
    BY <2>1 DEF Sized
  <2>3. at + Len(le) \in Nat
    BY <1>3
  <2>4. Yields(Take(data, at + Len(le), Len(v)), v, at + Len(le), v, data)
    BY <1>2, <1>5, <2>3, TakeYields
  <2>5. (at + Len(le)) + Len(v) = at + Len(le \o v)
    BY <1>3, <1>7
  <2>6. Yields(Sized(size, data), v, at, le \o v, data)
    BY <2>2, <2>4, <2>5 DEF Yields
  <2> QED BY <1>4, <1>7, <2>6 DEF size, count
<1>9. CASE ~(at + Len(le) <= Len(data))
  <2>1. ~size.ok
    BY <1>6, <1>9 DEF Yields
  <2>2. ~Sized(size, data).ok
    BY <2>1 DEF Sized, Truncated
  <2>3. ~(at + Len(le \o v) <= Len(data))
    BY <1>3, <1>7, <1>9
  <2> QED BY <1>4, <1>7, <2>2, <2>3 DEF Yields, size, count
<1> QED BY <1>8, <1>9

\* So is a field of any kind.
LEMMA KindYields ==
    ASSUME NEW data \in Seq(Byte), NEW at \in Nat,
           NEW kind \in Kinds \cup DOMAIN LengthOf,
           NEW v, IsKind(v, kind), Agrees(data, at, Written(v, kind))
    PROVE  Yields(ReadKind(kind, data, at), v, at, Written(v, kind), data)
<1>1. CASE kind \in Fixed
  <2>1. v \in Seq(Byte) /\ Len(v) = Width[kind] /\ Written(v, kind) = v
    BY <1>1 DEF IsKind, Written
  <2>2. ReadKind(kind, data, at) = Take(data, at, Len(v))
    BY <1>1, <2>1 DEF ReadKind
  <2> QED BY <2>1, <2>2, TakeYields
<1>2. CASE kind \notin Fixed /\ kind \in DOMAIN LengthOf
  <2>1. Written(v, kind) = WriteBytes(v, kind)
    BY <1>2 DEF Written
  <2>2. ReadKind(kind, data, at) = Sized(ReadNumber(LengthOf[kind], data, at), data)
    BY <1>2 DEF ReadKind
  <2> QED BY <1>2, <2>1, <2>2, BytesYield
<1>3. CASE kind \notin Fixed /\ kind \notin DOMAIN LengthOf
  <2>1. Written(v, kind) = LittleEndian(v, kind) /\ kind \in Kinds /\ v \in Values(kind)
    BY <1>3 DEF Written, IsKind
  <2>2. ReadKind(kind, data, at) = ReadNumber(kind, data, at)
    BY <1>3 DEF ReadKind
  <2> QED BY <2>1, <2>2, NumberYields
<1> QED BY <1>1, <1>2, <1>3

\* A field is written as bytes.
LEMMA WrittenIs ==
    ASSUME NEW kind \in Kinds \cup DOMAIN LengthOf, NEW v, IsKind(v, kind)
    PROVE  Written(v, kind) \in Seq(Byte)
<1>1. CASE kind \in Fixed
  BY <1>1 DEF IsKind, Written
<1>2. CASE kind \notin Fixed /\ kind \in DOMAIN LengthOf
  <2>1. v \in Seq(Byte) /\ Len(v) \in Values(LengthOf[kind]) /\ LengthOf[kind] \in Kinds
    BY <1>2 DEF IsKind, LengthOf, Kinds
  <2>2. LittleEndian(Len(v), LengthOf[kind]) \in Seq(Byte)
    BY <2>1, DigitsAre
  <2> QED BY <1>2, <2>1, <2>2 DEF Written, WriteBytes
<1>3. CASE kind \notin Fixed /\ kind \notin DOMAIN LengthOf
  BY <1>3, DigitsAre DEF Written, IsKind
<1> QED BY <1>1, <1>2, <1>3

-----------------------------------------------------------------------------
(* Records and lists, one field or item after the other. *)

\* What is written one after the other.
LEMMA Flattens ==
    ASSUME NEW ws \in Seq(Seq(Byte))
    PROVE  \E run \in [0 .. Len(ws) -> Seq(Byte)] :
              /\ run[0] = <<>>
              /\ \A k \in 1 .. Len(ws) : run[k] = run[k - 1] \o ws[k]
              /\ run[Len(ws)] = FlattenSeq(ws)
<1> DEFINE n == Len(ws)
           Bytes == Seq(Byte)
           Upto(m, r) == /\ r \in [0 .. m -> Bytes]
                         /\ r[0] = <<>>
                         /\ \A i \in 1 .. m : r[i] = r[i - 1] \o ws[i]
           S == {m \in 0 .. n : \E r : Upto(m, r)}
<1>1. n \in Nat /\ <<>> \in Bytes /\ \A i \in 1 .. n : ws[i] \in Bytes
  OBVIOUS
<1>2. \A a, b \in Bytes : a \o b \in Bytes
  OBVIOUS
<1>3. \A b \in Bytes : <<>> \o b = b
  OBVIOUS
<1> HIDE DEF Bytes, n
<1>4. 0 \in S
  <2>1. Upto(0, [i \in 0 .. 0 |-> <<>>])
    BY <1>1
  <2> HIDE DEF Upto
  <2> QED BY <2>1, <1>1
<1>5. ASSUME NEW m \in 1 .. n, m - 1 \in S PROVE m \in S
  <2>1. PICK r : Upto(m - 1, r)
    BY <1>5
  <2> DEFINE q == [i \in 0 .. m |-> IF i <= m - 1 THEN r[i] ELSE r[m - 1] \o ws[m]]
  <2>2. m - 1 \in Nat /\ m - 1 \in 0 .. m - 1 /\ m \in Nat
    BY <1>1
  <2>3. r[m - 1] \o ws[m] \in Bytes
    BY <2>1, <2>2, <1>1, <1>2
  <2>4. \A i \in 0 .. m - 1 : q[i] = r[i] /\ q[i] \in Bytes
    BY <2>1, <2>2
  <2>5. q[m] = r[m - 1] \o ws[m]
    <3>1. m \in 0 .. m /\ ~(m <= m - 1)
      BY <2>2
    <3> QED BY <3>1
  <2>6. q \in [0 .. m -> Bytes]
    BY <2>1, <2>2, <2>3
  <2> HIDE DEF q
  <2>7. ASSUME NEW i \in 1 .. m PROVE q[i] = q[i - 1] \o ws[i]
    <3>1. CASE i = m
      BY <3>1, <2>2, <2>4, <2>5
    <3>2. CASE i # m
      <4>1. i \in 1 .. m - 1 /\ i - 1 \in 0 .. m - 1 /\ i \in 0 .. m - 1
        BY <3>2, <2>2
      <4> QED BY <4>1, <2>1, <2>4
    <3> QED BY <3>1, <3>2
  <2>8. q[0] = <<>>
    BY <2>1, <2>2, <2>4
  <2>9. Upto(m, q)
    BY <2>6, <2>7, <2>8
  <2> HIDE DEF Upto
  <2> QED BY <2>9, <1>1
<1>6. PICK run : Upto(n, run)
  <2>1. \A m \in 0 .. n : m \in S
    <3> HIDE DEF S
    <3> QED BY <1>1, <1>4, <1>5, BoundedInduction
  <2>2. n \in 0 .. n
    BY <1>1
  <2> HIDE DEF Upto
  <2> QED BY <2>1, <2>2
<1>7. CASE n = 0
  <2>1. FlattenSeq(ws) = <<>>
    <3>1. ws = <<>>
      BY <1>7 DEF n
    <3> QED BY <3>1, <1>7 DEF FlattenSeq, n
  <2> QED BY <1>6, <1>7, <2>1 DEF n, Bytes
<1>8. CASE n # 0
  <2> DEFINE Flat(f) == f = [i \in 1 .. n |-> IF i = 1 THEN ws[i] ELSE f[i - 1] \o ws[i]]
             flat == CHOOSE f : Flat(f)
  <2>1. FlattenSeq(ws) = flat[n]
    BY <1>8 DEF FlattenSeq, n
  <2>2. \E f : Flat(f)
    <3> DEFINE f == [i \in 1 .. n |-> run[i]]
    <3>1. ASSUME NEW i \in 1 .. n PROVE f[i] = IF i = 1 THEN ws[i] ELSE f[i - 1] \o ws[i]
      <4>1. CASE i = 1
        <5>1. run[i] = run[i - 1] \o ws[i] /\ run[0] = <<>> /\ ws[i] \in Bytes
          BY <1>1, <1>6
        <5>2. i - 1 = 0
          BY <4>1
        <5> QED BY <4>1, <5>1, <5>2, <1>3
      <4>2. CASE i # 1
        <5>1. i - 1 \in 1 .. n
          BY <4>2, <1>1
        <5> QED BY <4>2, <5>1, <1>6
      <4> QED BY <4>1, <4>2
    <3>2. f = [i \in 1 .. n |-> f[i]]
      OBVIOUS
    <3> HIDE DEF f
    <3>3. f = [i \in 1 .. n |-> IF i = 1 THEN ws[i] ELSE f[i - 1] \o ws[i]]
      BY <3>1, <3>2
    <3> QED BY <3>3
  <2>3. Flat(flat)
    <3> HIDE DEF Flat
    <3> QED BY <2>2
  <2> HIDE DEF flat
  <2>4. \A i \in 1 .. n : flat[i] = IF i = 1 THEN ws[i] ELSE flat[i - 1] \o ws[i]
    BY <2>3
  <2> DEFINE T == {i \in 0 .. n : i # 0 => flat[i] = run[i]}
  <2>5. 0 \in T
    BY <1>1
  <2>6. ASSUME NEW i \in 1 .. n, i - 1 \in T PROVE i \in T
    <3>1. CASE i = 1
      <4>1. run[i] = run[i - 1] \o ws[i] /\ run[0] = <<>> /\ ws[i] \in Bytes
        BY <1>1, <1>6
      <4>2. flat[i] = ws[i] /\ i - 1 = 0
        BY <3>1, <2>4
      <4>3. flat[i] = run[i]
        BY <4>1, <4>2, <1>3
      <4> QED BY <4>3
    <3>2. CASE i # 1
      <4>1. i - 1 # 0 /\ flat[i - 1] = run[i - 1]
        BY <3>2, <2>6
      <4>2. flat[i] = flat[i - 1] \o ws[i] /\ run[i] = run[i - 1] \o ws[i]
        BY <3>2, <2>4, <1>6
      <4>3. flat[i] = run[i]
        BY <4>1, <4>2
      <4> QED BY <4>3
    <3> QED BY <3>1, <3>2
  <2>7. \A i \in 0 .. n : i \in T
    <3> HIDE DEF T
    <3> QED BY <1>1, <2>5, <2>6, BoundedInduction
  <2>8. flat[n] = run[n]
    BY <1>1, <1>8, <2>7
  <2> QED BY <1>6, <2>1, <2>8 DEF n, Bytes
<1> QED BY <1>7, <1>8

\* How far each of them goes, for data that agrees with the whole.
LEMMA FlatPartsAgree ==
    ASSUME NEW ws \in Seq(Seq(Byte)), NEW run \in [0 .. Len(ws) -> Seq(Byte)],
           \A k \in 1 .. Len(ws) : run[k] = run[k - 1] \o ws[k],
           NEW data, NEW at \in Nat, Agrees(data, at, run[Len(ws)])
    PROVE  \A k \in 1 .. Len(ws) :
              /\ Agrees(data, at + Len(run[k - 1]), ws[k])
              /\ Len(run[k]) = Len(run[k - 1]) + Len(ws[k])
              /\ Len(run[k - 1]) \in Nat /\ Len(ws[k]) \in Nat /\ ws[k] \in Seq(Byte)
<1> DEFINE n == Len(ws)
           S == {j \in 0 .. n : Agrees(data, at, run[n - j])}
<1>1. n \in Nat
  OBVIOUS
<1>2. ASSUME NEW k \in 1 .. n
      PROVE  /\ run[k - 1] \in Seq(Byte) /\ ws[k] \in Seq(Byte)
             /\ run[k] = run[k - 1] \o ws[k]
             /\ Len(run[k]) = Len(run[k - 1]) + Len(ws[k])
             /\ Len(run[k - 1]) \in Nat /\ Len(ws[k]) \in Nat
  <2>1. k - 1 \in 0 .. n
    BY <1>1
  <2>2. run[k - 1] \in Seq(Byte)
    BY <2>1
  <2>3. ws[k] \in Seq(Byte)
    OBVIOUS
  <2>4. run[k] = run[k - 1] \o ws[k]
    OBVIOUS
  <2> QED BY <2>2, <2>3, <2>4
<1>3. 0 \in S
  BY <1>1
<1>4. ASSUME NEW j \in 1 .. n, j - 1 \in S PROVE j \in S
  <2> DEFINE k == n - j + 1
  <2>1. k \in 1 .. n /\ n - (j - 1) = k /\ n - j = k - 1
    BY <1>1
  <2>2. Agrees(data, at, run[k - 1] \o ws[k])
    BY <1>2, <1>4, <2>1
  <2>3. Agrees(data, at, run[k - 1])
    <3> HIDE DEF k
    <3> QED BY <1>2, <2>1, <2>2, AgreesWithParts
  <2> QED BY <2>1, <2>3
<1>5. \A j \in 0 .. n : j \in S
  <2> HIDE DEF S, n
  <2> QED BY <1>1, <1>3, <1>4, BoundedInduction
<1>6. ASSUME NEW k \in 1 .. n PROVE Agrees(data, at + Len(run[k - 1]), ws[k])
  <2>1. n - k \in 0 .. n /\ n - (n - k) = k
    BY <1>1
  <2>2. Agrees(data, at, run[k - 1] \o ws[k])
    BY <1>2, <1>5, <2>1
  <2> QED BY <1>2, <2>2, AgreesWithParts
<1> QED BY <1>2, <1>6

\* The reading of a record goes from field to field.
LEMMA FieldsAreRead ==
    ASSUME NEW fields, Len(fields) \in Nat, NEW data, NEW at
    PROVE  \E read :
              /\ read[0] = Read(<<>>, at)
              /\ \A k \in 1 .. Len(fields) :
                     read[k] = ReadField(read[k - 1], fields[k], data)
              /\ read[Len(fields)] = ReadFields(fields, data, at)
<1> DEFINE n == Len(fields)
<1>0. n \in Nat
  OBVIOUS
<1> DEFINE Reads(r) == r = [k \in 0 .. n |->
               IF k = 0 THEN Read(<<>>, at) ELSE ReadField(r[k - 1], fields[k], data)]
           read == CHOOSE r : Reads(r)
           Upto(m, r) == /\ r = [k \in 0 .. m |-> r[k]]
                         /\ \A k \in 0 .. m :
                               r[k] = IF k = 0 THEN Read(<<>>, at)
                                      ELSE ReadField(r[k - 1], fields[k], data)
           S == {m \in 0 .. n : \E r : Upto(m, r)}
<1>1. ReadFields(fields, data, at) = read[n]
  BY DEF ReadFields
<1> HIDE DEF n
<1>2. 0 \in S
  <2>1. Upto(0, [k \in 0 .. 0 |-> Read(<<>>, at)])
    OBVIOUS
  <2> HIDE DEF Upto
  <2> QED BY <2>1, <1>0
<1>3. ASSUME NEW m \in 1 .. n, m - 1 \in S PROVE m \in S
  <2>1. PICK r : Upto(m - 1, r)
    BY <1>3
  <2> DEFINE q == [k \in 0 .. m |-> IF k <= m - 1 THEN r[k]
                                    ELSE ReadField(r[m - 1], fields[m], data)]
  <2>2. \A k \in 0 .. m - 1 : k \in 0 .. m /\ q[k] = r[k]
    OBVIOUS
  <2>3. q[m] = ReadField(r[m - 1], fields[m], data)
    <3>1. m \in 0 .. m /\ ~(m <= m - 1)
      OBVIOUS
    <3> QED BY <3>1
  <2>4. q = [k \in 0 .. m |-> q[k]]
    OBVIOUS
  <2> HIDE DEF q
  <2>5. ASSUME NEW k \in 0 .. m
        PROVE  q[k] = IF k = 0 THEN Read(<<>>, at)
                      ELSE ReadField(q[k - 1], fields[k], data)
    <3>1. CASE k = m
      <4>1. m - 1 \in 0 .. m - 1 /\ k # 0
        BY <3>1
      <4> QED BY <3>1, <4>1, <2>2, <2>3
    <3>2. CASE k = 0
      <4>1. 0 \in 0 .. m - 1
        OBVIOUS
      <4> QED BY <3>2, <4>1, <2>1, <2>2
    <3>3. CASE k # 0 /\ k # m
      <4>1. k \in 0 .. m - 1 /\ k - 1 \in 0 .. m - 1
        BY <3>3
      <4> QED BY <3>3, <4>1, <2>1, <2>2
    <3> QED BY <3>1, <3>2, <3>3
  <2>6. Upto(m, q)
    BY <2>4, <2>5
  <2> HIDE DEF Upto
  <2> QED BY <2>6
<1>4. \E r : Reads(r)
  <2>1. \A m \in 0 .. n : m \in S
    <3> HIDE DEF S
    <3> QED BY <1>0, <1>2, <1>3, BoundedInduction
  <2>2. PICK r : Upto(n, r)
    <3> HIDE DEF Upto
    <3> QED BY <1>0, <2>1, n \in 0 .. n
  <2>3. Reads(r)
    BY <2>2
  <2> HIDE DEF Reads
  <2> QED BY <2>3
<1>5. Reads(read)
  <2> HIDE DEF Reads
  <2> QED BY <1>4
<1> HIDE DEF read
<1>6. \A k \in 0 .. n : read[k] = IF k = 0 THEN Read(<<>>, at)
                                   ELSE ReadField(read[k - 1], fields[k], data)
  BY <1>5
<1>7. read[0] = Read(<<>>, at)
  <2>1. 0 \in 0 .. n
    BY <1>0
  <2> QED BY <1>6, <2>1
<1>8. \A k \in 1 .. n : read[k] = ReadField(read[k - 1], fields[k], data)
  <2>1. \A k \in 1 .. n : k \in 0 .. n /\ k # 0
    OBVIOUS
  <2> QED BY <1>6, <2>1
<1> QED BY <1>1, <1>7, <1>8 DEF n

\* The reading of a list goes from item to item.
LEMMA ItemsAreRead ==
    ASSUME NEW size, size.ok, size.value \in Nat, NEW one
    PROVE  \E read :
              /\ read[0] = Read(<<>>, size.at)
              /\ \A k \in 1 .. size.value : read[k] = ReadItem(read[k - 1], one)
              /\ read[size.value] = ReadItems(size, one)
<1> DEFINE n == size.value
<1>0. n \in Nat
  OBVIOUS
<1> DEFINE Reads(r) == r = [k \in 0 .. n |->
               IF k = 0 THEN Read(<<>>, size.at) ELSE ReadItem(r[k - 1], one)]
           read == CHOOSE r : Reads(r)
           Upto(m, r) == /\ r = [k \in 0 .. m |-> r[k]]
                         /\ \A k \in 0 .. m :
                               r[k] = IF k = 0 THEN Read(<<>>, size.at)
                                      ELSE ReadItem(r[k - 1], one)
           S == {m \in 0 .. n : \E r : Upto(m, r)}
<1>1. ReadItems(size, one) = read[n]
  BY DEF ReadItems
<1> HIDE DEF n
<1>2. 0 \in S
  <2>1. Upto(0, [k \in 0 .. 0 |-> Read(<<>>, size.at)])
    OBVIOUS
  <2> HIDE DEF Upto
  <2> QED BY <2>1, <1>0
<1>3. ASSUME NEW m \in 1 .. n, m - 1 \in S PROVE m \in S
  <2>1. PICK r : Upto(m - 1, r)
    BY <1>3
  <2> DEFINE q == [k \in 0 .. m |-> IF k <= m - 1 THEN r[k]
                                    ELSE ReadItem(r[m - 1], one)]
  <2>2. \A k \in 0 .. m - 1 : k \in 0 .. m /\ q[k] = r[k]
    OBVIOUS
  <2>3. q[m] = ReadItem(r[m - 1], one)
    <3>1. m \in 0 .. m /\ ~(m <= m - 1)
      OBVIOUS
    <3> QED BY <3>1
  <2>4. q = [k \in 0 .. m |-> q[k]]
    OBVIOUS
  <2> HIDE DEF q
  <2>5. ASSUME NEW k \in 0 .. m
        PROVE  q[k] = IF k = 0 THEN Read(<<>>, size.at)
                      ELSE ReadItem(q[k - 1], one)
    <3>1. CASE k = m
      <4>1. m - 1 \in 0 .. m - 1 /\ k # 0
        BY <3>1
      <4> QED BY <3>1, <4>1, <2>2, <2>3
    <3>2. CASE k = 0
      <4>1. 0 \in 0 .. m - 1
        OBVIOUS
      <4> QED BY <3>2, <4>1, <2>1, <2>2
    <3>3. CASE k # 0 /\ k # m
      <4>1. k \in 0 .. m - 1 /\ k - 1 \in 0 .. m - 1
        BY <3>3
      <4> QED BY <3>3, <4>1, <2>1, <2>2
    <3> QED BY <3>1, <3>2, <3>3
  <2>6. Upto(m, q)
    BY <2>4, <2>5
  <2> HIDE DEF Upto
  <2> QED BY <2>6
<1>4. \E r : Reads(r)
  <2>1. \A m \in 0 .. n : m \in S
    <3> HIDE DEF S
    <3> QED BY <1>0, <1>2, <1>3, BoundedInduction
  <2>2. PICK r : Upto(n, r)
    <3> HIDE DEF Upto
    <3> QED BY <1>0, <2>1, n \in 0 .. n
  <2>3. Reads(r)
    BY <2>2
  <2> HIDE DEF Reads
  <2> QED BY <2>3
<1>5. Reads(read)
  <2> HIDE DEF Reads
  <2> QED BY <1>4
<1> HIDE DEF read
<1>6. \A k \in 0 .. n : read[k] = IF k = 0 THEN Read(<<>>, size.at)
                                   ELSE ReadItem(read[k - 1], one)
  BY <1>5
<1>7. read[0] = Read(<<>>, size.at)
  <2>1. 0 \in 0 .. n
    BY <1>0
  <2> QED BY <1>6, <2>1
<1>8. \A k \in 1 .. n : read[k] = ReadItem(read[k - 1], one)
  <2>1. \A k \in 1 .. n : k \in 0 .. n /\ k # 0
    OBVIOUS
  <2> QED BY <1>6, <2>1
<1> QED BY <1>1, <1>7, <1>8 DEF n

FieldKinds == Kinds \cup DOMAIN LengthOf

AreFields(fields) ==
    /\ Len(fields) \in Nat /\ DOMAIN fields = 1 .. Len(fields)
    /\ \A i \in 1 .. Len(fields) : fields[i][2] \in FieldKinds

\* What is written of a record is the bytes of its fields.
LEMMA FieldsAreWritten ==
    ASSUME NEW fields, AreFields(fields), NEW record, HasFields(record, fields)
    PROVE  LET ws == [i \in DOMAIN fields |-> Written(record[fields[i][1]], fields[i][2])]
           IN  /\ ws \in Seq(Seq(Byte)) /\ Len(ws) = Len(fields)
               /\ WriteFields(record, fields) = FlattenSeq(ws)
               /\ \A i \in 1 .. Len(fields) :
                     /\ fields[i][2] \in FieldKinds
                     /\ IsKind(record[fields[i][1]], fields[i][2])
<1> DEFINE ws == [i \in DOMAIN fields |-> Written(record[fields[i][1]], fields[i][2])]
<1>1. DOMAIN fields = 1 .. Len(fields) /\ Len(fields) \in Nat
  BY DEF AreFields
<1>2. ASSUME NEW i \in 1 .. Len(fields)
      PROVE  fields[i][2] \in FieldKinds /\ IsKind(record[fields[i][1]], fields[i][2])
  <2> QED BY <1>1 DEF HasFields, AreFields
<1>3. \A i \in 1 .. Len(fields) : Written(record[fields[i][1]], fields[i][2]) \in Seq(Byte)
  BY <1>2, WrittenIs DEF FieldKinds
<1>4. ws \in [1 .. Len(fields) -> Seq(Byte)]
  BY <1>1, <1>3
<1>5. ws \in Seq(Seq(Byte)) /\ Len(ws) = Len(fields)
  <2> HIDE DEF ws
  <2> QED BY <1>1, <1>4
<1> QED BY <1>2, <1>5 DEF WriteFields

\* The fields of a record are read as they were written.
LEMMA FieldsYield ==
    ASSUME NEW fields, AreFields(fields), NEW record, HasFields(record, fields),
           NEW data \in Seq(Byte), NEW at \in 0 .. Len(data),
           Agrees(data, at, WriteFields(record, fields))
    PROVE  /\ WriteFields(record, fields) \in Seq(Byte)
           /\ Yields(ReadFields(fields, data, at), Restrict(record, Names(fields)), at,
                     WriteFields(record, fields), data)
<1> DEFINE n == Len(fields)
           ws == [i \in DOMAIN fields |-> Written(record[fields[i][1]], fields[i][2])]
           Part(k) == [x \in {fields[i][1] : i \in 1 .. k} |-> record[x]]
<1>1. /\ ws \in Seq(Seq(Byte)) /\ Len(ws) = n /\ n \in Nat /\ DOMAIN fields = 1 .. n
      /\ WriteFields(record, fields) = FlattenSeq(ws)
  BY FieldsAreWritten DEF AreFields
<1>2. ASSUME NEW i \in 1 .. n
      PROVE  /\ ws[i] = Written(record[fields[i][1]], fields[i][2])
             /\ fields[i][2] \in FieldKinds
             /\ IsKind(record[fields[i][1]], fields[i][2])
  BY FieldsAreWritten, <1>1
<1>0. \E read :
         /\ read[0] = Read(<<>>, at)
         /\ \A k \in 1 .. n : read[k] = ReadField(read[k - 1], fields[k], data)
         /\ read[n] = ReadFields(fields, data, at)
  BY <1>1, FieldsAreRead
<1> HIDE DEF ws, n
<1>3. PICK run \in [0 .. n -> Seq(Byte)] :
              /\ run[0] = <<>>
              /\ \A k \in 1 .. n : run[k] = run[k - 1] \o ws[k]
              /\ run[n] = FlattenSeq(ws)
  BY <1>1, Flattens
<1>4. PICK read : /\ read[0] = Read(<<>>, at)
                  /\ \A k \in 1 .. n : read[k] = ReadField(read[k - 1], fields[k], data)
                  /\ read[n] = ReadFields(fields, data, at)
  BY <1>0
<1>5. at \in Nat /\ Len(data) \in Nat /\ at <= Len(data)
  OBVIOUS
<1>6. \A k \in 1 .. n :
              /\ Agrees(data, at + Len(run[k - 1]), ws[k])
              /\ Len(run[k]) = Len(run[k - 1]) + Len(ws[k])
              /\ Len(run[k - 1]) \in Nat /\ Len(ws[k]) \in Nat /\ ws[k] \in Seq(Byte)
  <2>1. Agrees(data, at, run[Len(ws)]) /\ run \in [0 .. Len(ws) -> Seq(Byte)]
    BY <1>1, <1>3
  <2>2. \A k \in 1 .. Len(ws) : run[k] = run[k - 1] \o ws[k]
    BY <1>1, <1>3
  <2>3. ws \in Seq(Seq(Byte))
    BY <1>1
  <2> QED BY <1>1, <1>5, <2>1, <2>2, <2>3, FlatPartsAgree
<1> DEFINE S == {k \in 0 .. n : Yields(read[k], Part(k), at, run[k], data)}
<1>7. 0 \in S
  <2>1. Part(0) = <<>>
    OBVIOUS
  <2>2. Len(run[0]) = 0 /\ 0 \in 0 .. n
    BY <1>1, <1>3
  <2> QED BY <1>4, <1>5, <2>1, <2>2 DEF Yields
<1>8. ASSUME NEW k \in 1 .. n, k - 1 \in S PROVE k \in S
  <2> DEFINE p == at + Len(run[k - 1])
             name == fields[k][1]
             field == ReadKind(fields[k][2], data, p)
  <2>1. p \in Nat /\ at + Len(run[k]) = p + Len(ws[k]) /\ Len(ws[k]) \in Nat
    <3>1. Len(run[k]) = Len(run[k - 1]) + Len(ws[k]) /\ Len(run[k - 1]) \in Nat /\ Len(ws[k]) \in Nat
      BY <1>6
    <3> DEFINE l == Len(run[k]) m == Len(run[k - 1]) w == Len(ws[k])
    <3>2. l = m + w /\ m \in Nat /\ w \in Nat
      BY <3>1
    <3> HIDE DEF l, m, w
    <3>3. at + m \in Nat /\ at + l = (at + m) + w /\ w \in Nat
      BY <3>2, <1>5
    <3> QED BY <3>3 DEF l, m, w
  <2>2. Yields(field, record[name], p, ws[k], data)
    <3>1. Agrees(data, p, Written(record[name], fields[k][2]))
      BY <1>2, <1>6
    <3> HIDE DEF p
    <3>2. Yields(ReadKind(fields[k][2], data, p), record[name], p,
                 Written(record[name], fields[k][2]), data)
      BY <1>2, <2>1, <3>1, KindYields DEF FieldKinds
    <3> QED BY <1>2, <3>2
  <2>3. Yields(read[k - 1], Part(k - 1), at, run[k - 1], data)
    BY <1>8
  <2>4. read[k] = WithField(read[k - 1], name, ReadKind(fields[k][2], data, read[k - 1].at))
    BY <1>4 DEF ReadField
  <2>5. CASE at + Len(run[k]) <= Len(data)
    <3>1. p <= Len(data)
      <4>1. p \in Nat /\ at + Len(run[k]) = p + Len(ws[k]) /\ Len(ws[k]) \in Nat
        BY <2>1
      <4> HIDE DEF p
      <4> QED BY <4>1, <2>5, <1>5
    <3>2. read[k - 1] = Read(Part(k - 1), p)
      BY <2>3, <3>1 DEF Yields
    <3>3. field = Read(record[name], p + Len(ws[k]))
      BY <2>1, <2>2, <2>5 DEF Yields
    <3>4. read[k] = Read([x \in DOMAIN Part(k - 1) \cup {name} |->
                             IF x = name THEN record[name] ELSE Part(k - 1)[x]],
                         p + Len(ws[k]))
      <4>1. read[k] = WithField(read[k - 1], name, field)
        BY <2>4, <3>2 DEF Read
      <4> HIDE DEF field, p, name, Part
      <4> QED BY <4>1, <3>2, <3>3 DEF WithField, Read
    <3>5. [x \in DOMAIN Part(k - 1) \cup {name} |->
              IF x = name THEN record[name] ELSE Part(k - 1)[x]] = Part(k)
      <4>1. {fields[i][1] : i \in 1 .. k} = {fields[i][1] : i \in 1 .. k - 1} \cup {name}
        <5>1. \A i \in 1 .. k : i \in 1 .. k - 1 \/ i = k
          BY <1>1
        <5>2. k \in 1 .. k /\ \A i \in 1 .. k - 1 : i \in 1 .. k
          BY <1>1
        <5> QED BY <5>1, <5>2
      <4>2. DOMAIN Part(k - 1) = {fields[i][1] : i \in 1 .. k - 1}
        OBVIOUS
      <4> HIDE DEF name
      <4> QED BY <4>1, <4>2
    <3>6. read[k] = Read(Part(k), p + Len(ws[k])) /\ at + Len(run[k]) = p + Len(ws[k])
      BY <2>1, <3>4, <3>5, Zenon
    <3>7. read[k] = Read(Part(k), at + Len(run[k]))
      BY <3>6
    <3>8. Yields(read[k], Part(k), at, run[k], data)
      <4> HIDE DEF Part, p, name, field
      <4> QED BY <2>5, <3>7 DEF Yields
    <3> QED BY <3>8
  <2>6. CASE ~(at + Len(run[k]) <= Len(data))
    <3>1. ~read[k].ok
      <4>1. CASE p <= Len(data)
        <5>1. read[k - 1].at = p
          BY <2>3, <4>1 DEF Yields, Read
        <5>2. ~field.ok
          BY <2>1, <2>2, <2>6 DEF Yields
        <5> QED BY <2>4, <5>1, <5>2 DEF WithField, Truncated
      <4>2. CASE ~(p <= Len(data))
        <5>1. ~read[k - 1].ok
          BY <2>3, <4>2 DEF Yields
        <5> QED BY <2>4, <5>1 DEF WithField, Truncated
      <4> QED BY <4>1, <4>2
    <3> QED BY <2>6, <3>1, <1>1 DEF Yields
  <2> QED BY <2>5, <2>6
<1>9. \A k \in 0 .. n : k \in S
  <2> HIDE DEF S
  <2> QED BY <1>1, <1>7, <1>8, BoundedInduction
<1>10. Yields(read[n], Part(n), at, run[n], data)
  <2>1. n \in 0 .. n
    BY <1>1
  <2> QED BY <1>9, <2>1
<1>11. Part(n) = Restrict(record, Names(fields))
  BY <1>1 DEF Restrict, Names
<1>12. run[n] \in Seq(Byte)
  BY <1>1, <1>3
<1> QED BY <1>1, <1>3, <1>4, <1>10, <1>11, <1>12

With(part, name, v) == [x \in DOMAIN part \cup {name} |-> IF x = name THEN v ELSE part[x]]

\* A field read after a record, and an item read after a list, are what was written
\* after it.
LEMMA JoinYields ==
    ASSUME NEW data \in Seq(Byte), NEW at \in Nat, NEW u \in Seq(Byte), NEW w \in Seq(Byte),
           NEW record, NEW part, NEW name, NEW field, NEW v,
           Yields(record, part, at, u, data),
           at + Len(u) <= Len(data) => Yields(field, v, at + Len(u), w, data)
    PROVE  Yields(WithField(record, name, field), With(part, name, v), at, u \o w, data)
<1> DEFINE p == at + Len(u)
           both == With(part, name, v)
<1>1. /\ at + Len(u \o w) = p + Len(w)
      /\ p + Len(w) <= Len(data) => p <= Len(data)
  OBVIOUS
<1> HIDE DEF p
<1>2. CASE p + Len(w) <= Len(data)
  <2>1. record = Read(part, p) /\ field = Read(v, p + Len(w))
    BY <1>1, <1>2 DEF Yields, p
  <2>2. WithField(record, name, field) = Read(both, p + Len(w))
    BY <2>1 DEF WithField, Read, With
  <2> HIDE DEF both
  <2> QED BY <1>1, <1>2, <2>2 DEF Yields, both
<1>3. CASE ~(p + Len(w) <= Len(data))
  <2>1. ~record.ok \/ ~field.ok
    BY <1>1, <1>3 DEF Yields, p
  <2>2. ~WithField(record, name, field).ok
    BY <2>1 DEF WithField, Truncated
  <2> QED BY <1>1, <1>3, <2>2 DEF Yields
<1> QED BY <1>2, <1>3

LEMMA ItemYields ==
    ASSUME NEW data \in Seq(Byte), NEW at \in Nat, NEW u \in Seq(Byte), NEW w \in Seq(Byte),
           NEW list, NEW part, NEW one, NEW v,
           Yields(list, part, at, u, data),
           at + Len(u) <= Len(data) => Yields(one[at + Len(u)], v, at + Len(u), w, data)
    PROVE  Yields(ReadItem(list, one), Append(part, v), at, u \o w, data)
<1> DEFINE p == at + Len(u)
<1>1. /\ at + Len(u \o w) = p + Len(w)
      /\ p + Len(w) <= Len(data) => p <= Len(data)
  OBVIOUS
<1> HIDE DEF p
<1>2. CASE p + Len(w) <= Len(data)
  <2>1. list = Read(part, p) /\ one[p] = Read(v, p + Len(w))
    BY <1>1, <1>2 DEF Yields, p
  <2>2. ReadItem(list, one) = Read(Append(part, v), p + Len(w))
    <3>1. list.ok /\ list.value = part /\ list.at = p
      BY <2>1 DEF Read
    <3>2. one[p].ok /\ one[p].value = v /\ one[p].at = p + Len(w)
      BY <2>1 DEF Read
    <3> QED BY <3>1, <3>2 DEF ReadItem, WithItem
  <2> QED BY <1>1, <1>2, <2>2 DEF Yields
<1>3. CASE ~(p + Len(w) <= Len(data))
  <2>1. ~list.ok \/ (list.at = p /\ ~one[p].ok)
    BY <1>1, <1>3 DEF Yields, p, Read
  <2>2. ~ReadItem(list, one).ok
    BY <2>1 DEF ReadItem, WithItem, Truncated
  <2> QED BY <1>1, <1>3, <2>2 DEF Yields
<1> QED BY <1>2, <1>3

\* A list whose items are read as they were written is.
LEMMA ListYields ==
    ASSUME NEW data \in Seq(Byte), NEW at \in 0 .. Len(data), NEW count \in Kinds,
           NEW V, NEW items \in Seq(V), NEW ws \in Seq(Seq(Byte)), Len(ws) = Len(items),
           Len(ws) \in Values(count), NEW one,
           \A i \in 1 .. Len(ws), p \in 0 .. Len(data) :
               Agrees(data, p, ws[i]) => Yields(one[p], items[i], p, ws[i], data),
           Agrees(data, at, WriteList(ws, count))
    PROVE  Yields(ReadList(count, one, data, at), items, at, WriteList(ws, count), data)
<1> DEFINE n == Len(ws)
           le == LittleEndian(n, count)
           flat == FlattenSeq(ws)
           size == ReadNumber(count, data, at)
           p == at + Len(le)
<1>1. n \in Nat /\ at \in Nat /\ Len(data) \in Nat /\ Len(items) = n
  OBVIOUS
<1>2. PICK run \in [0 .. n -> Seq(Byte)] :
              /\ run[0] = <<>>
              /\ \A k \in 1 .. n : run[k] = run[k - 1] \o ws[k]
              /\ run[n] = flat
  BY Flattens
<1>3. le \in Seq(Byte) /\ Len(le) \in Nat
  BY DigitsAre, WidthIs
<1>4. flat \in Seq(Byte)
  BY <1>1, <1>2
<1>5. WriteList(ws, count) = le \o flat
  BY DEF WriteList
<1>6. ReadList(count, one, data, at) = ReadItems(size, one)
  BY DEF ReadList
<1> HIDE DEF le, flat, size
<1>7. Agrees(data, at, le) /\ Agrees(data, p, flat)
  BY <1>1, <1>3, <1>4, <1>5, AgreesWithParts
<1>8. Yields(size, n, at, le, data)
  BY <1>1, <1>7, NumberYields DEF le, size
<1>9. p \in Nat /\ at + Len(le \o flat) = p + Len(flat) /\ Len(flat) \in Nat
  BY <1>1, <1>3, <1>4
<1> HIDE DEF p
<1>10. CASE ~(p <= Len(data))
  <2>1. ~size.ok
    BY <1>8, <1>10 DEF Yields, p
  <2>2. ~ReadItems(size, one).ok
    BY <2>1 DEF ReadItems, Truncated
  <2>3. ~(at + Len(le \o flat) <= Len(data))
    BY <1>1, <1>9, <1>10
  <2> QED BY <1>5, <1>6, <2>2, <2>3 DEF Yields
<1>11. CASE p <= Len(data)
  <2>1. size = Read(n, p)
    BY <1>8, <1>11 DEF Yields, p
  <2>2. size.ok /\ size.value = n /\ size.at = p
    BY <2>1 DEF Read
  <2>3. PICK read : /\ read[0] = Read(<<>>, p)
                    /\ \A k \in 1 .. n : read[k] = ReadItem(read[k - 1], one)
                    /\ read[n] = ReadItems(size, one)
    <3>1. \E r : /\ r[0] = Read(<<>>, size.at)
                 /\ \A k \in 1 .. size.value : r[k] = ReadItem(r[k - 1], one)
                 /\ r[size.value] = ReadItems(size, one)
      BY <1>1, <2>2, ItemsAreRead
    <3> HIDE DEF n
    <3> QED BY <2>2, <3>1
  <2>4. \A k \in 1 .. n :
              /\ Agrees(data, p + Len(run[k - 1]), ws[k])
              /\ Len(run[k - 1]) \in Nat /\ ws[k] \in Seq(Byte)
    <3>1. Agrees(data, p, run[Len(ws)]) /\ run \in [0 .. Len(ws) -> Seq(Byte)]
      BY <1>2, <1>7
    <3>2. \A k \in 1 .. Len(ws) : run[k] = run[k - 1] \o ws[k]
      BY <1>2
    <3> HIDE DEF n
    <3> QED BY <1>9, <3>1, <3>2, FlatPartsAgree DEF n
  <2> DEFINE Part(k) == [i \in 1 .. k |-> items[i]]
             S == {k \in 0 .. n : Yields(read[k], Part(k), p, run[k], data)}
  <2> HIDE DEF n
  <2>5. 0 \in S
    <3>1. Part(0) = <<>>
      OBVIOUS
    <3>2. Len(run[0]) = 0 /\ 0 \in 0 .. n
      BY <1>1, <1>2
    <3> QED BY <1>9, <1>11, <2>3, <3>1, <3>2 DEF Yields
  <2>6. ASSUME NEW k \in 1 .. n, k - 1 \in S PROVE k \in S
    <3> DEFINE q == p + Len(run[k - 1])
    <3>1. /\ run[k - 1] \in Seq(Byte) /\ ws[k] \in Seq(Byte) /\ q \in Nat
          /\ run[k] = run[k - 1] \o ws[k] /\ k \in 0 .. n
      <4>1. k - 1 \in 0 .. n /\ k \in 0 .. n
        BY <1>1
      <4>2. run[k - 1] \in Seq(Byte)
        BY <4>1, <1>2
      <4>3. ws[k] \in Seq(Byte) /\ run[k] = run[k - 1] \o ws[k] /\ Len(run[k - 1]) \in Nat
        BY <1>2, <2>4
      <4>4. q \in Nat
        BY <1>9, <4>3
      <4> QED BY <4>1, <4>2, <4>3, <4>4
    <3>2. Yields(read[k - 1], Part(k - 1), p, run[k - 1], data)
      BY <2>6
    <3>3. q <= Len(data) => Yields(one[q], items[k], q, ws[k], data)
      <4>1. Agrees(data, q, ws[k])
        BY <2>4
      <4> HIDE DEF q
      <4>2. q <= Len(data) => q \in 0 .. Len(data)
        BY <1>1, <3>1
      <4> QED BY <4>1, <4>2 DEF n
    <3>4. Append(Part(k - 1), items[k]) = Part(k)
      <4>1. k - 1 \in Nat
        BY <1>1
      <4>2. \A i \in 1 .. k : items[i] \in V
        BY <1>1
      <4>3. Part(k - 1) \in Seq(V) /\ Len(Part(k - 1)) = k - 1
        BY <4>1, <4>2
      <4> QED BY <4>1, <4>2, <4>3
    <3> HIDE DEF Part
    <3>5. Yields(ReadItem(read[k - 1], one), Append(Part(k - 1), items[k]), p,
                 run[k - 1] \o ws[k], data)
      BY <1>9, <3>1, <3>2, <3>3, ItemYields
    <3> QED BY <2>3, <3>1, <3>4, <3>5
  <2>7. n \in S
    <3>1. \A k \in 0 .. n : k \in S
      <4> HIDE DEF S
      <4> QED BY <1>1, <2>5, <2>6, BoundedInduction
    <3> QED BY <1>1, <3>1
  <2>8. Part(n) = items
    BY <1>1
  <2>9. Yields(ReadItems(size, one), items, p, flat, data)
    BY <1>2, <2>3, <2>7, <2>8
  <2> QED BY <1>5, <1>6, <1>9, <2>9 DEF Yields
<1> QED BY <1>10, <1>11

-----------------------------------------------------------------------------
(* Transactions, headers and blocks. *)

\* The lists of fields are lists of fields.
LEMMA FieldListsAre ==
    AreFields(TransactionFields) /\ AreFields(ExtensionFields) /\ AreFields(HeaderFields)
<1>1. /\ "u8" \in FieldKinds /\ "u16" \in FieldKinds /\ "u32" \in FieldKinds
      /\ "u64" \in FieldKinds /\ "hash" \in FieldKinds /\ "address" \in FieldKinds
      /\ "bytes" \in FieldKinds
  BY DEF FieldKinds, Kinds, LengthOf
<1>2. AreFields(TransactionFields)
  BY <1>1 DEF TransactionFields, Body, AreFields
<1>3. AreFields(ExtensionFields)
  BY <1>1 DEF ExtensionFields, AreFields
<1>4. AreFields(HeaderFields)
  BY <1>1 DEF HeaderFields, AreFields
<1> QED BY <1>2, <1>3, <1>4

\* A record is read as it was written.
LEMMA RecordYields ==
    ASSUME NEW fields, AreFields(fields), NEW record, IsRecord(record, fields),
           NEW data \in Seq(Byte), NEW at \in 0 .. Len(data),
           Agrees(data, at, WriteFields(record, fields))
    PROVE  Yields(ReadFields(fields, data, at), record, at, WriteFields(record, fields), data)
<1>1. HasFields(record, fields) /\ record = [x \in Names(fields) |-> record[x]]
  BY DEF IsRecord
<1>2. Restrict(record, Names(fields)) = record
  BY <1>1 DEF Restrict
<1> QED BY <1>1, <1>2, FieldsYield

\* A record is written as bytes.
LEMMA FieldsAreBytes ==
    ASSUME NEW fields, AreFields(fields), NEW record, HasFields(record, fields)
    PROVE  WriteFields(record, fields) \in Seq(Byte)
<1> DEFINE ws == [i \in DOMAIN fields |-> Written(record[fields[i][1]], fields[i][2])]
<1>1. ws \in Seq(Seq(Byte)) /\ WriteFields(record, fields) = FlattenSeq(ws)
  BY FieldsAreWritten
<1> HIDE DEF ws
<1>2. FlattenSeq(ws) \in Seq(Byte)
  <2>1. PICK run \in [0 .. Len(ws) -> Seq(Byte)] : run[Len(ws)] = FlattenSeq(ws)
    BY <1>1, Flattens
  <2>2. Len(ws) \in 0 .. Len(ws)
    BY <1>1
  <2> QED BY <2>1, <2>2
<1> QED BY <1>1, <1>2

\* So is a list of what is written as bytes.
LEMMA ListIsBytes ==
    ASSUME NEW ws \in Seq(Seq(Byte)), NEW count \in Kinds, Len(ws) \in Values(count)
    PROVE  WriteList(ws, count) \in Seq(Byte)
<1>1. FlattenSeq(ws) \in Seq(Byte)
  <2>1. PICK run \in [0 .. Len(ws) -> Seq(Byte)] : run[Len(ws)] = FlattenSeq(ws)
    BY Flattens
  <2>2. Len(ws) \in 0 .. Len(ws)
    OBVIOUS
  <2> QED BY <2>1, <2>2
<1>2. LittleEndian(Len(ws), count) \in Seq(Byte)
  BY DigitsAre
<1> QED BY <1>1, <1>2 DEF WriteList

\* A list that is a field is read after the fields before it.
LEMMA WithListYields ==
    ASSUME NEW data \in Seq(Byte), NEW at \in Nat, NEW u \in Seq(Byte),
           NEW record, NEW part, Yields(record, part, at, u, data),
           NEW name, NEW count \in Kinds, NEW V, NEW items \in Seq(V),
           NEW ws \in Seq(Seq(Byte)), Len(ws) = Len(items), Len(ws) \in Values(count),
           NEW one,
           \A i \in 1 .. Len(ws), p \in 0 .. Len(data) :
               Agrees(data, p, ws[i]) => Yields(one[p], items[i], p, ws[i], data),
           Agrees(data, at + Len(u), WriteList(ws, count))
    PROVE  Yields(WithList(record, name, count, one, data), With(part, name, items),
                  at, u \o WriteList(ws, count), data)
<1> DEFINE w == WriteList(ws, count)
           p == at + Len(u)
           field == ReadList(count, one, data, record.at)
<1>1. w \in Seq(Byte)
  BY ListIsBytes
<1>2. ASSUME p <= Len(data) PROVE Yields(field, items, p, w, data)
  <2>1. p \in 0 .. Len(data)
    <3>1. Len(u) \in Nat /\ Len(data) \in Nat
      OBVIOUS
    <3> QED BY <1>2, <3>1
  <2>2. record.at = p
    BY <1>2 DEF Yields, Read
  <2>3. Agrees(data, p, WriteList(ws, count))
    OBVIOUS
  <2> HIDE DEF p
  <2>4. Yields(ReadList(count, one, data, p), items, p, WriteList(ws, count), data)
    BY <2>1, <2>3, ListYields
  <2> QED BY <2>2, <2>4
<1>3. WithList(record, name, count, one, data) = WithField(record, name, field)
  BY DEF WithList
<1> HIDE DEF w, field
<1>4. Yields(WithField(record, name, field), With(part, name, items), at, u \o w, data)
  <2>1. at + Len(u) <= Len(data) => Yields(field, items, at + Len(u), w, data)
    BY <1>2
  <2>2. Yields(record, part, at, u, data)
    OBVIOUS
  <2> QED BY <1>1, <2>1, <2>2, JoinYields, Zenon
<1> QED BY <1>3, <1>4 DEF w

\* What a list is.
LEMMA ListIs ==
    ASSUME NEW list, NEW count \in Kinds, IsList(list, count)
    PROVE  /\ Len(list) \in Nat /\ Len(list) \in Values(count)
           /\ DOMAIN list = 1 .. Len(list)
           /\ list \in Seq({list[i] : i \in 1 .. Len(list)})
<1> DEFINE n == Len(list)
           V == {list[i] : i \in 1 .. Len(list)}
<1>1. n \in Nat /\ n \in Values(count) /\ list = [i \in 1 .. n |-> list[i]]
  BY ValuesAre DEF IsList
<1>2. list \in [1 .. n -> V]
  <2>1. \A i \in 1 .. n : list[i] \in V
    OBVIOUS
  <2> HIDE DEF V
  <2> HIDE DEF n
  <2> QED BY <1>1, <2>1
<1>3. DOMAIN list = 1 .. n
  <2> HIDE DEF n
  <2> QED BY <1>1
<1>4. list \in Seq(V)
  <2> HIDE DEF V, n
  <2> QED BY <1>1, <1>2
<1> QED BY <1>1, <1>3, <1>4

LEMMA TransactionYields ==
    ASSUME NEW tx, IsTransaction(tx)
    PROVE  /\ EncodeTransaction(tx) \in Seq(Byte)
           /\ \A data \in Seq(Byte) : \A at \in 0 .. Len(data) :
                 Agrees(data, at, EncodeTransaction(tx)) =>
                     Yields(ReadTransaction(data, at), tx, at, EncodeTransaction(tx), data)
<1>1. AreFields(TransactionFields) /\ IsRecord(tx, TransactionFields)
  BY FieldListsAre DEF IsTransaction
<1>2. EncodeTransaction(tx) = WriteFields(tx, TransactionFields)
  BY DEF EncodeTransaction
<1>3. \A data, at : ReadTransaction(data, at) = ReadFields(TransactionFields, data, at)
  <2>1. TransactionFields =
           << <<"type", "u8">>, <<"from", "address">>, <<"to", "address">>,
              <<"value", "u64">>, <<"nonce", "u64">>, <<"payload", "bytes">>,
              <<"signature", "bytes">> >>
    <3> DEFINE all == << <<"type", "u8">>, <<"from", "address">>, <<"to", "address">>,
                         <<"value", "u64">>, <<"nonce", "u64">>, <<"payload", "bytes">>,
                         <<"signature", "bytes">> >>
               both == TransactionFields
    <3>1. Len(all) = 7 /\ Len(both) = 7 /\ DOMAIN all = 1 .. 7 /\ DOMAIN both = 1 .. 7
      BY DEF TransactionFields, Body
    <3>2. /\ both[1] = all[1] /\ both[2] = all[2] /\ both[3] = all[3] /\ both[4] = all[4]
          /\ both[5] = all[5] /\ both[6] = all[6] /\ both[7] = all[7]
      BY DEF TransactionFields, Body
    <3>3. all = [i \in 1 .. 7 |-> all[i]] /\ both = [i \in 1 .. 7 |-> both[i]]
      BY DEF TransactionFields, Body
    <3> HIDE DEF all, both
    <3>4. \A i \in 1 .. 7 : both[i] = all[i]
      BY <3>2
    <3> QED BY <3>3, <3>4 DEF all, both
  <2> QED BY <2>1 DEF ReadTransaction
<1>4. WriteFields(tx, TransactionFields) \in Seq(Byte)
  BY <1>1, FieldsAreBytes DEF IsRecord
<1> QED BY <1>1, <1>2, <1>3, <1>4, RecordYields

LEMMA ExtensionYields ==
    ASSUME NEW e, IsRecord(e, ExtensionFields)
    PROVE  /\ EncodeExtension(e) \in Seq(Byte)
           /\ \A data \in Seq(Byte) : \A at \in 0 .. Len(data) :
                 Agrees(data, at, EncodeExtension(e)) =>
                     Yields(ReadExtension(data, at), e, at, EncodeExtension(e), data)
<1>1. AreFields(ExtensionFields)
  BY FieldListsAre
<1>2. EncodeExtension(e) = WriteFields(e, ExtensionFields)
  BY DEF EncodeExtension
<1>3. \A data, at : ReadExtension(data, at) = ReadFields(ExtensionFields, data, at)
  BY DEF ReadExtension, ExtensionFields
<1>4. WriteFields(e, ExtensionFields) \in Seq(Byte)
  BY <1>1, FieldsAreBytes DEF IsRecord
<1> QED BY <1>1, <1>2, <1>3, <1>4, RecordYields

LEMMA HeaderYields ==
    ASSUME NEW h, IsHeader(h)
    PROVE  /\ EncodeHeader(h) \in Seq(Byte)
           /\ \A data \in Seq(Byte) : \A at \in 0 .. Len(data) :
                 Agrees(data, at, EncodeHeader(h)) =>
                     Yields(ReadHeader(data, at), h, at, EncodeHeader(h), data)
<1> DEFINE u == WriteFields(h, HeaderFields)
           items == h.extensions
           ws == [i \in DOMAIN items |-> EncodeExtension(items[i])]
           V == {items[i] : i \in 1 .. Len(items)}
           part == Restrict(h, Names(HeaderFields))
<1>1. /\ HasFields(h, HeaderFields) /\ AreFields(HeaderFields)
      /\ h = [x \in Names(HeaderFields) \cup {"extensions"} |-> h[x]]
  BY FieldListsAre DEF IsHeader
<1>2. /\ Len(items) \in Nat /\ Len(items) \in Values("u64")
      /\ DOMAIN items = 1 .. Len(items) /\ items \in Seq(V)
  BY ListIs DEF IsHeader, Kinds
<1>3. \A i \in 1 .. Len(items) : IsRecord(items[i], ExtensionFields)
  BY <1>2 DEF IsHeader
<1>4. ws \in Seq(Seq(Byte)) /\ Len(ws) = Len(items)
  <2>1. ws \in [1 .. Len(items) -> Seq(Byte)]
    BY <1>2, <1>3, ExtensionYields
  <2>2. Len(items) \in Nat
    BY <1>2
  <2> HIDE DEF ws, items
  <2> QED BY <2>1, <2>2
<1>5. \A i \in 1 .. Len(items) : ws[i] = EncodeExtension(items[i])
  BY <1>2
<1>6. EncodeHeader(h) = u \o WriteList(ws, "u64")
  BY DEF EncodeHeader
<1>7. u \in Seq(Byte)
  BY <1>1, FieldsAreBytes
<1>8. WriteList(ws, "u64") \in Seq(Byte)
  <2> HIDE DEF ws
  <2> QED BY <1>2, <1>4, ListIsBytes DEF Kinds
<1>9. With(part, "extensions", items) = h
  <2>1. DOMAIN part = Names(HeaderFields)
        /\ \A x \in Names(HeaderFields) : part[x] = h[x]
    BY DEF Restrict
  <2> HIDE DEF part
  <2> QED BY <1>1, <2>1 DEF With
<1>10. ASSUME NEW data \in Seq(Byte), NEW at \in 0 .. Len(data),
              Agrees(data, at, EncodeHeader(h))
       PROVE  Yields(ReadHeader(data, at), h, at, EncodeHeader(h), data)
  <2> DEFINE one == [p \in 0 .. Len(data) |-> ReadExtension(data, p)]
             record == ReadFields(HeaderFields, data, at)
  <2>1. at \in Nat
    OBVIOUS
  <2> HIDE DEF u, ws, part, items, V
  <2>2. Agrees(data, at, u) /\ Agrees(data, at + Len(u), WriteList(ws, "u64"))
    BY <1>6, <1>7, <1>8, <1>10, <2>1, AgreesWithParts
  <2>3. Yields(record, part, at, u, data)
    BY <1>1, <2>2, FieldsYield DEF u, part
  <2>4. ASSUME NEW i \in 1 .. Len(ws), NEW p \in 0 .. Len(data), Agrees(data, p, ws[i])
        PROVE  Yields(one[p], items[i], p, ws[i], data)
    BY <2>4, <1>3, <1>4, <1>5, ExtensionYields
  <2>5. ReadHeader(data, at) = WithList(record, "extensions", "u64", one, data)
    BY DEF ReadHeader, HeaderFields
  <2> HIDE DEF one, record
  <2>6. \A i \in 1 .. Len(ws), p \in 0 .. Len(data) :
            Agrees(data, p, ws[i]) => Yields(one[p], items[i], p, ws[i], data)
    BY <2>4
  <2>7. "u64" \in Kinds /\ Len(ws) \in Values("u64")
    BY <1>2, <1>4 DEF Kinds
  <2>8. Yields(WithList(record, "extensions", "u64", one, data),
               With(part, "extensions", items), at, u \o WriteList(ws, "u64"), data)
    BY <1>2, <1>4, <1>7, <2>1, <2>2, <2>3, <2>6, <2>7, WithListYields
  <2> QED BY <1>6, <1>9, <2>5, <2>8
<1> QED BY <1>6, <1>7, <1>8, <1>10

LEMMA BlockYields ==
    ASSUME NEW b, IsBlock(b)
    PROVE  /\ EncodeBlock(b) \in Seq(Byte)
           /\ \A data \in Seq(Byte) : Agrees(data, 0, EncodeBlock(b)) =>
                 Yields(DecodeBlock(data), b, 0, EncodeBlock(b), data)
<1> DEFINE u == EncodeHeader(b.header)
           items == b.transactions
           ws == [i \in DOMAIN items |-> EncodeTransaction(items[i])]
           V == {items[i] : i \in 1 .. Len(items)}
           part == With(<<>>, "header", b.header)
<1>1. IsHeader(b.header) /\ b = [x \in {"header", "transactions"} |-> b[x]]
  BY DEF IsBlock
<1>2. /\ Len(items) \in Nat /\ Len(items) \in Values("u64")
      /\ DOMAIN items = 1 .. Len(items) /\ items \in Seq(V)
  BY ListIs DEF IsBlock, Kinds
<1>3. \A i \in 1 .. Len(items) : IsTransaction(items[i])
  BY <1>2 DEF IsBlock
<1>4. ws \in Seq(Seq(Byte)) /\ Len(ws) = Len(items)
  <2>1. ws \in [1 .. Len(items) -> Seq(Byte)]
    BY <1>2, <1>3, TransactionYields
  <2>2. Len(items) \in Nat
    BY <1>2
  <2> HIDE DEF ws, items
  <2> QED BY <2>1, <2>2
<1>5. \A i \in 1 .. Len(items) : ws[i] = EncodeTransaction(items[i])
  BY <1>2
<1>6. EncodeBlock(b) = u \o WriteList(ws, "u64")
  BY DEF EncodeBlock
<1>7. u \in Seq(Byte)
  BY <1>1, HeaderYields
<1>8. WriteList(ws, "u64") \in Seq(Byte)
  <2> HIDE DEF ws
  <2> QED BY <1>2, <1>4, ListIsBytes DEF Kinds
<1>9. With(part, "transactions", items) = b
  <2>1. DOMAIN part = {"header"} /\ part["header"] = b.header
    BY DEF With
  <2> HIDE DEF part
  <2> QED BY <1>1, <2>1 DEF With
<1>10. ASSUME NEW data \in Seq(Byte), Agrees(data, 0, EncodeBlock(b))
       PROVE  Yields(DecodeBlock(data), b, 0, EncodeBlock(b), data)
  <2> DEFINE one == [p \in 0 .. Len(data) |-> ReadTransaction(data, p)]
             record == WithField(Read(<<>>, 0), "header", ReadHeader(data, 0))
  <2> HIDE DEF u, ws, part, items, V
  <2>1. Agrees(data, 0, u) /\ Agrees(data, 0 + Len(u), WriteList(ws, "u64"))
    BY <1>6, <1>7, <1>8, <1>10, AgreesWithParts
  <2>2. Yields(record, part, 0, u, data)
    <3>1. Yields(Read(<<>>, 0), <<>>, 0, <<>>, data)
      BY DEF Yields
    <3>2. Yields(ReadHeader(data, 0), b.header, 0, u, data)
      BY <1>1, <2>1, HeaderYields DEF u
    <3>3. Yields(record, With(<<>>, "header", b.header), 0, <<>> \o u, data)
      <4>1. 0 + Len(<<>>) = 0 /\ <<>> \in Seq(Byte)
        OBVIOUS
      <4> HIDE DEF record
      <4> QED BY <1>7, <3>1, <3>2, <4>1, JoinYields DEF record
    <3>4. <<>> \o u = u
      BY <1>7
    <3> QED BY <3>3, <3>4 DEF part
  <2>3. ASSUME NEW i \in 1 .. Len(ws), NEW p \in 0 .. Len(data), Agrees(data, p, ws[i])
        PROVE  Yields(one[p], items[i], p, ws[i], data)
    BY <2>3, <1>3, <1>4, <1>5, TransactionYields
  <2>4. DecodeBlock(data) = WithList(record, "transactions", "u64", one, data)
    BY DEF DecodeBlock
  <2> HIDE DEF one, record
  <2>5. \A i \in 1 .. Len(ws), p \in 0 .. Len(data) :
            Agrees(data, p, ws[i]) => Yields(one[p], items[i], p, ws[i], data)
    BY <2>3
  <2>6. "u64" \in Kinds /\ Len(ws) \in Values("u64") /\ 0 \in Nat
    BY <1>2, <1>4 DEF Kinds
  <2>7. Yields(WithList(record, "transactions", "u64", one, data),
               With(part, "transactions", items), 0, u \o WriteList(ws, "u64"), data)
    BY <1>2, <1>4, <1>7, <2>1, <2>2, <2>5, <2>6, WithListYields
  <2> QED BY <1>6, <1>9, <2>4, <2>7
<1> QED BY <1>6, <1>7, <1>8, <1>10

-----------------------------------------------------------------------------
(* Messages. *)

\* Bytes agree with themselves.
LEMMA AgreesWithItself ==
    ASSUME NEW w \in Seq(Byte)
    PROVE  Agrees(w, 0, w) /\ 0 \in 0 .. Len(w) /\ Len(w) \in Nat
BY DEF Agrees

\* What is nested in bytes is decoded from them.
LEMMA NestedYields ==
    ASSUME NEW data \in Seq(Byte), NEW at \in 0 .. Len(data),
           NEW w \in Seq(Byte), Len(w) \in Values("u32"),
           Agrees(data, at, WriteBytes(w, "bytes32")), NEW v, NEW decoded,
           ReadKind("bytes32", data, at).value = w => decoded = Read(v, Len(w))
    PROVE  /\ WriteBytes(w, "bytes32") \in Seq(Byte)
           /\ Yields(Nested(ReadKind("bytes32", data, at), decoded), v, at,
                     WriteBytes(w, "bytes32"), data)
<1> DEFINE raw == ReadKind("bytes32", data, at)
           ww == WriteBytes(w, "bytes32")
<1>1. /\ "bytes32" \notin Fixed /\ "bytes32" \in DOMAIN LengthOf
      /\ LengthOf["bytes32"] = "u32" /\ "u32" \in Kinds
  BY DEF Fixed, LengthOf, Kinds
<1>2. at \in Nat /\ IsKind(w, "bytes32") /\ Written(w, "bytes32") = ww
  BY <1>1 DEF IsKind, Written
<1>3. ww \in Seq(Byte)
  BY <1>1, <1>2, BytesYield
<1>4. Yields(raw, w, at, ww, data)
  BY <1>1, <1>2, KindYields
<1> HIDE DEF raw, ww
<1>5. CASE at + Len(ww) <= Len(data)
  <2>1. raw.ok /\ raw.value = w /\ raw.at = at + Len(ww)
    BY <1>4, <1>5 DEF Yields, Read
  <2>2. decoded = Read(v, Len(w))
    BY <2>1 DEF raw
  <2>3. Nested(raw, decoded) = Read(v, at + Len(ww))
    BY <2>1, <2>2 DEF Nested, Read
  <2> QED BY <1>3, <1>5, <2>3 DEF Yields, raw, ww
<1>6. CASE ~(at + Len(ww) <= Len(data))
  <2>1. ~raw.ok
    BY <1>4, <1>6 DEF Yields
  <2>2. ~Nested(raw, decoded).ok
    BY <2>1 DEF Nested, Truncated
  <2> QED BY <1>3, <1>6, <2>2 DEF Yields, raw, ww
<1> QED BY <1>5, <1>6

\* What a block and a transaction decode to.
LEMMA BlockIsDecoded ==
    ASSUME NEW b, IsBlock(b)
    PROVE  DecodeBlock(EncodeBlock(b)) = Read(b, Len(EncodeBlock(b)))
<1> DEFINE w == EncodeBlock(b)
<1>1. w \in Seq(Byte) /\ \A data \in Seq(Byte) : Agrees(data, 0, w) =>
         Yields(DecodeBlock(data), b, 0, w, data)
  BY BlockYields
<1> HIDE DEF w
<1>2. Agrees(w, 0, w) /\ Len(w) \in Nat
  BY <1>1, AgreesWithItself
<1>3. Yields(DecodeBlock(w), b, 0, w, w)
  BY <1>1, <1>2
<1>4. 0 + Len(w) = Len(w) /\ Len(w) <= Len(w)
  BY <1>2
<1>5. DecodeBlock(w) = Read(b, Len(w))
  BY <1>3, <1>4 DEF Yields
<1> QED BY <1>5 DEF w

LEMMA TransactionIsDecoded ==
    ASSUME NEW tx, IsTransaction(tx)
    PROVE  DecodeTransaction(EncodeTransaction(tx)) = Read(tx, Len(EncodeTransaction(tx)))
<1> DEFINE w == EncodeTransaction(tx)
<1>1. w \in Seq(Byte)
      /\ \A data \in Seq(Byte) : \A at \in 0 .. Len(data) : Agrees(data, at, w) =>
            Yields(ReadTransaction(data, at), tx, at, w, data)
  BY TransactionYields
<1> HIDE DEF w
<1>2. Agrees(w, 0, w) /\ 0 \in 0 .. Len(w) /\ Len(w) \in Nat
  BY <1>1, AgreesWithItself
<1>3. Yields(DecodeTransaction(w), tx, 0, w, w)
  BY <1>1, <1>2 DEF DecodeTransaction
<1>4. 0 + Len(w) = Len(w) /\ Len(w) <= Len(w)
  BY <1>2
<1>5. DecodeTransaction(w) = Read(tx, Len(w))
  BY <1>3, <1>4 DEF Yields
<1> QED BY <1>5 DEF w

\* A block among the messages' bytes.
LEMMA NestedBlockYields ==
    ASSUME NEW b, IsBlock(b), Len(EncodeBlock(b)) \in Values("u32"),
           NEW data \in Seq(Byte), NEW at \in 0 .. Len(data),
           Agrees(data, at, WriteBytes(EncodeBlock(b), "bytes32"))
    PROVE  Yields(ReadBlock(data, at), b, at, WriteBytes(EncodeBlock(b), "bytes32"), data)
<1> DEFINE w == EncodeBlock(b)
           raw == ReadKind("bytes32", data, at)
<1>1. ReadBlock(data, at) = Nested(raw, DecodeBlock(raw.value))
  BY DEF ReadBlock, ReadNested
<1>2. w \in Seq(Byte) /\ DecodeBlock(w) = Read(b, Len(w))
  BY BlockYields, BlockIsDecoded
<1>3. Len(w) \in Values("u32") /\ Agrees(data, at, WriteBytes(w, "bytes32"))
  OBVIOUS
<1> HIDE DEF w
<1>4. raw.value = w => DecodeBlock(raw.value) = Read(b, Len(w))
  BY <1>2
<1>5. Yields(Nested(raw, DecodeBlock(raw.value)), b, at, WriteBytes(w, "bytes32"), data)
  BY <1>2, <1>3, <1>4, NestedYields
<1> QED BY <1>1, <1>5 DEF w

LEMMA BytesAreBytes ==
    ASSUME NEW w \in Seq(Byte), Len(w) \in Values("u32")
    PROVE  WriteBytes(w, "bytes32") \in Seq(Byte)
<1>1. LittleEndian(Len(w), "u32") \in Seq(Byte)
  BY DigitsAre DEF Kinds
<1> QED BY <1>1 DEF WriteBytes, LengthOf

\* The messages that are blocks, a transaction, or fields.
LEMMA MessageYields ==
    ASSUME NEW topic, \E i \in DOMAIN Topics : Topics[i] = topic,
           NEW body, IsBody(topic, body)
    PROVE  /\ Encode(topic, body) \in Seq(Byte)
           /\ \A data \in Seq(Byte) : Agrees(data, 0, Encode(topic, body)) =>
                 Yields(ReadMessage(topic, data), body, 0, Encode(topic, body), data)
<1>1. topic \in {"NewBlock", "NewTransaction", "Blocks"} \cup
                {"Status", "Ping", "Pong", "GetBlocks"}
  BY DEF Topics
<1>2. \A data \in Seq(Byte) : 0 \in 0 .. Len(data)
  OBVIOUS
<1>3. CASE topic = "NewBlock"
  <2> DEFINE w == WriteBytes(EncodeBlock(body), "bytes32")
  <2>1. Encode(topic, body) = w /\ \A data : ReadMessage(topic, data) = ReadBlock(data, 0)
    BY <1>3 DEF Encode, ReadMessage
  <2>2. IsBlock(body) /\ Len(EncodeBlock(body)) \in Values("u32")
    BY <1>3 DEF IsBody
  <2>3. w \in Seq(Byte)
    BY <2>2, BlockYields, BytesAreBytes
  <2>4. ASSUME NEW data \in Seq(Byte), Agrees(data, 0, w)
        PROVE  Yields(ReadBlock(data, 0), body, 0, w, data)
    BY <1>2, <2>2, <2>4, NestedBlockYields
  <2> QED BY <2>1, <2>3, <2>4
<1>4. CASE topic = "NewTransaction"
  <2> DEFINE tx == EncodeTransaction(body)
             w == WriteBytes(tx, "bytes32")
             raw(data) == ReadKind("bytes32", data, 0)
             read(data) == Nested(raw(data), DecodeTransaction(raw(data).value))
  <2>1. Encode(topic, body) = w /\ \A data : ReadMessage(topic, data) = read(data)
    BY <1>4 DEF Encode, ReadMessage, ReadNested
  <2>2. IsTransaction(body) /\ Len(tx) \in Values("u32")
    BY <1>4 DEF IsBody
  <2>3. tx \in Seq(Byte) /\ w \in Seq(Byte)
    BY <2>2, TransactionYields, BytesAreBytes
  <2>4. DecodeTransaction(tx) = Read(body, Len(tx))
    BY <2>2, TransactionIsDecoded
  <2>5. ASSUME NEW data \in Seq(Byte), Agrees(data, 0, w)
        PROVE  Yields(read(data), body, 0, w, data)
    <3> HIDE DEF tx
    <3>1. raw(data).value = tx =>
             DecodeTransaction(raw(data).value) = Read(body, Len(tx))
      BY <2>4
    <3> QED BY <1>2, <2>2, <2>3, <2>5, <3>1, NestedYields
  <2> QED BY <2>1, <2>3, <2>5
<1>5. CASE topic = "Blocks"
  <2> DEFINE ws == [i \in DOMAIN body |-> WriteBytes(EncodeBlock(body[i]), "bytes32")]
             w == WriteList(ws, "u32")
             V == {body[i] : i \in 1 .. Len(body)}
             one(data) == [p \in 0 .. Len(data) |-> ReadBlock(data, p)]
  <2>1. Encode(topic, body) = w
    BY <1>5 DEF Encode
  <2>2. \A data : ReadMessage(topic, data) = ReadList("u32", one(data), data, 0)
    BY <1>5 DEF ReadMessage
  <2>3. /\ IsList(body, "u32")
        /\ \A i \in DOMAIN body :
              IsBlock(body[i]) /\ Len(EncodeBlock(body[i])) \in Values("u32")
    BY <1>5 DEF IsBody
  <2>4. /\ Len(body) \in Nat /\ Len(body) \in Values("u32") /\ "u32" \in Kinds
        /\ DOMAIN body = 1 .. Len(body) /\ body \in Seq(V)
    BY <2>3, ListIs DEF Kinds
  <2>5. \A i \in 1 .. Len(body) : WriteBytes(EncodeBlock(body[i]), "bytes32") \in Seq(Byte)
    BY <2>3, <2>4, BlockYields, BytesAreBytes
  <2>6. ws \in Seq(Seq(Byte)) /\ Len(ws) = Len(body)
    <3>1. ws \in [1 .. Len(body) -> Seq(Byte)]
      BY <2>4, <2>5
    <3>2. Len(body) \in Nat
      BY <2>4
    <3> HIDE DEF ws
    <3> QED BY <3>1, <3>2
  <2>7. \A i \in 1 .. Len(body) : ws[i] = WriteBytes(EncodeBlock(body[i]), "bytes32")
    BY <2>4
  <2> HIDE DEF ws, V
  <2>8. w \in Seq(Byte)
    BY <2>4, <2>6, ListIsBytes
  <2>9. ASSUME NEW data \in Seq(Byte), Agrees(data, 0, w)
        PROVE  Yields(ReadList("u32", one(data), data, 0), body, 0, w, data)
    <3> DEFINE reads == one(data)
    <3>1. \A i \in 1 .. Len(ws), p \in 0 .. Len(data) :
              Agrees(data, p, ws[i]) => Yields(reads[p], body[i], p, ws[i], data)
      <4>1. ASSUME NEW i \in 1 .. Len(ws), NEW p \in 0 .. Len(data), Agrees(data, p, ws[i])
            PROVE  Yields(reads[p], body[i], p, ws[i], data)
        <5>1. reads[p] = ReadBlock(data, p)
          OBVIOUS
        <5>2. /\ IsBlock(body[i]) /\ Len(EncodeBlock(body[i])) \in Values("u32")
              /\ ws[i] = WriteBytes(EncodeBlock(body[i]), "bytes32")
          BY <2>3, <2>4, <2>6, <2>7
        <5> HIDE DEF reads
        <5> QED BY <4>1, <5>1, <5>2, NestedBlockYields
      <4> QED BY <4>1
    <3> HIDE DEF reads
    <3>2. Yields(ReadList("u32", reads, data, 0), body, 0, WriteList(ws, "u32"), data)
      BY <1>2, <2>4, <2>6, <2>9, <3>1, ListYields
    <3> QED BY <3>2 DEF reads
  <2> QED BY <2>1, <2>2, <2>8, <2>9
<1>6. CASE topic \in {"Status", "Ping", "Pong", "GetBlocks"}
  <2> DEFINE fields == EncodedFields[topic]
  <2>1. Encode(topic, body) = WriteFields(body, fields) /\ IsRecord(body, fields)
    BY <1>6 DEF Encode, IsBody
  <2>2. \A data : ReadMessage(topic, data) = ReadFields(fields, data, 0)
    BY <1>6 DEF ReadMessage, EncodedFields, DecodedFields
  <2>3. AreFields(fields)
    <3>1. "u32" \in FieldKinds /\ "u64" \in FieldKinds /\ "hash" \in FieldKinds
      BY DEF FieldKinds, Kinds
    <3>2. AreFields(<< <<"version", "u32">>, <<"chainId", "u64">>,
                       <<"height", "u64">>, <<"headHash", "hash">> >>)
      BY <3>1 DEF AreFields
    <3>3. AreFields(<< <<"nonce", "u64">> >>)
      BY <3>1 DEF AreFields
    <3>4. AreFields(<< <<"fromHeight", "u64">>, <<"maxCount", "u32">> >>)
      BY <3>1 DEF AreFields
    <3> QED BY <1>6, <3>2, <3>3, <3>4 DEF EncodedFields
  <2> HIDE DEF fields
  <2>4. WriteFields(body, fields) \in Seq(Byte)
    BY <2>1, <2>3, FieldsAreBytes DEF IsRecord
  <2> QED BY <1>2, <2>1, <2>2, <2>3, <2>4, RecordYields
<1> QED BY <1>1, <1>3, <1>4, <1>5, <1>6

\* What is encoded decodes to what it was; the beginning of it does not decode.
LEMMA MessageIsDecoded ==
    ASSUME NEW topic, \E i \in DOMAIN Topics : Topics[i] = topic,
           NEW body, IsBody(topic, body)
    PROVE  LET w == Encode(topic, body)
           IN  /\ w \in Seq(Byte)
               /\ Decode(topic, w).ok /\ Decode(topic, w).value = body
               /\ \A data \in Seq(Byte) : Len(data) < Len(w) /\ Agrees(data, 0, w) =>
                     ~Decode(topic, data).ok
<1> DEFINE w == Encode(topic, body)
<1>1. w \in Seq(Byte) /\ \A data \in Seq(Byte) : Agrees(data, 0, w) =>
         Yields(ReadMessage(topic, data), body, 0, w, data)
  BY MessageYields
<1> HIDE DEF w
<1>2. Agrees(w, 0, w) /\ Len(w) \in Nat
  BY <1>1, AgreesWithItself
<1>3. Decode(topic, w).ok /\ Decode(topic, w).value = body
  <2>1. 0 + Len(w) = Len(w) /\ Len(w) <= Len(w)
    BY <1>2
  <2>2. ReadMessage(topic, w) = Read(body, Len(w))
    BY <1>1, <1>2, <2>1 DEF Yields
  <2> QED BY <2>2 DEF Decode, Whole, Read
<1>4. ASSUME NEW data \in Seq(Byte), Len(data) < Len(w), Agrees(data, 0, w)
      PROVE  ~Decode(topic, data).ok
  <2>1. ~(0 + Len(w) <= Len(data))
    BY <1>2, <1>4
  <2>2. ~ReadMessage(topic, data).ok
    BY <1>1, <1>4, <2>1 DEF Yields
  <2> QED BY <2>2 DEF Decode, Whole, Truncated
<1> QED BY <1>1, <1>3, <1>4 DEF w

\* A header is read from what it is encoded as.
LEMMA HeaderIsDecoded ==
    ASSUME NEW h, IsHeader(h)
    PROVE  ReadHeader(EncodeHeader(h), 0) = Read(h, Len(EncodeHeader(h)))
<1> DEFINE w == EncodeHeader(h)
<1>1. w \in Seq(Byte)
      /\ \A data \in Seq(Byte) : \A at \in 0 .. Len(data) : Agrees(data, at, w) =>
            Yields(ReadHeader(data, at), h, at, w, data)
  BY HeaderYields
<1> HIDE DEF w
<1>2. Agrees(w, 0, w) /\ 0 \in 0 .. Len(w) /\ Len(w) \in Nat
  BY <1>1, AgreesWithItself
<1>3. Yields(ReadHeader(w, 0), h, 0, w, w)
  BY <1>1, <1>2
<1>4. 0 + Len(w) = Len(w) /\ Len(w) <= Len(w)
  BY <1>2
<1>5. ReadHeader(w, 0) = Read(h, Len(w))
  BY <1>3, <1>4 DEF Yields
<1> QED BY <1>5 DEF w

\* A concatenation agrees with each part.
LEMMA PartsAgree ==
    ASSUME NEW u \in Seq(Byte), NEW w \in Seq(Byte)
    PROVE  Agrees(u \o w, 0, u) /\ Agrees(u \o w, Len(u), w)
<1>1. /\ u \o w \in Seq(Byte) /\ Len(u \o w) = Len(u) + Len(w)
      /\ Len(u) \in Nat /\ Len(w) \in Nat
  OBVIOUS
<1>2. Agrees(u \o w, 0, u \o w)
  BY <1>1, AgreesWithItself
<1>3. 0 \in Nat /\ 0 + Len(u) = Len(u)
  BY <1>1
<1> QED BY <1>2, <1>3, AgreesWithParts

\* A power is greater than its exponent.
LEMMA PowerIsGreater ==
    ASSUME NEW b \in Nat, b > 1, NEW n \in Nat
    PROVE  Power(b, n) \in Nat /\ Power(b, n) > n
<1> DEFINE S == {k \in Nat : Power(b, k) \in Nat /\ Power(b, k) > k}
<1>1. 0 \in S
  BY PowerIs
<1>2. ASSUME NEW k \in Nat, k \in S PROVE k + 1 \in S
  <2>1. Power(b, k + 1) = b * Power(b, k)
    BY PowerIs
  <2> DEFINE p == Power(b, k)
  <2>2. p \in Nat /\ p > k
    BY <1>2
  <2> HIDE DEF p
  <2>3. b * p \in Nat /\ b * p >= 2 * p
    BY <2>2
  <2>4. b * p > k + 1
    BY <2>2, <2>3
  <2> QED BY <2>1, <2>3, <2>4 DEF p
<1>3. n \in S
  <2> HIDE DEF S
  <2> QED BY <1>1, <1>2, SetInduction
<1> QED BY <1>3

\* Zero and one are numbers of every kind.
LEMMA SmallValues ==
    ASSUME NEW kind \in Kinds
    PROVE  0 \in Values(kind) /\ 1 \in Values(kind) /\ Width[kind] \in Values(kind)
<1>1. Width[kind] \in Nat \ {0} /\ Base \in Nat /\ Base > 1
  BY WidthIs
<1>2. Power(Base, Width[kind]) \in Nat /\ Power(Base, Width[kind]) > Width[kind]
  BY <1>1, PowerIsGreater
<1> QED BY <1>1, <1>2 DEF Values

\* What is signed of a transaction, and the chain, are read from what is signed.
LEMMA SignedIsRead ==
    ASSUME NEW tx, IsTransaction(tx), NEW id \in Values("u64")
    PROVE  LET data == EncodeForSigning(tx, id)
               read == ReadFields(Body, data, 0)
           IN  /\ read.value = Restrict(tx, Names(Body))
               /\ ReadNumber("u64", data, read.at).value = id
<1> DEFINE u == WriteFields(tx, Body)
           w == LittleEndian(id, "u64")
           data == u \o w
<1>1. AreFields(Body) /\ HasFields(tx, Body)
  <2>1. AreFields(TransactionFields) /\ HasFields(tx, TransactionFields)
    BY FieldListsAre DEF IsTransaction, IsRecord
  <2>2. /\ Len(Body) = 6 /\ DOMAIN Body = 1 .. 6
        /\ DOMAIN TransactionFields = 1 .. 7 /\ Len(TransactionFields) = 7
        /\ \A i \in 1 .. 6 : TransactionFields[i] = Body[i]
    BY DEF TransactionFields, Body
  <2>3. \A i \in 1 .. 6 : i \in 1 .. 7
    OBVIOUS
  <2> QED BY <2>1, <2>2, <2>3 DEF AreFields, HasFields
<1>2. u \in Seq(Byte) /\ w \in Seq(Byte) /\ "u64" \in Kinds
  BY <1>1, FieldsAreBytes, DigitsAre DEF Kinds
<1>3. EncodeForSigning(tx, id) = data
  BY DEF EncodeForSigning
<1> HIDE DEF u, w
<1>4. /\ data \in Seq(Byte) /\ Len(data) = Len(u) + Len(w)
      /\ Len(u) \in Nat /\ Len(w) \in Nat /\ Len(data) \in Nat
  BY <1>2
<1>5. Agrees(data, 0, u) /\ Agrees(data, Len(u), w)
  BY <1>2, PartsAgree
<1> HIDE DEF data
<1>6. 0 \in 0 .. Len(data) /\ 0 + Len(u) <= Len(data) /\ 0 + Len(u) = Len(u)
      /\ Len(u) + Len(w) <= Len(data)
  BY <1>4
<1>7. Yields(ReadFields(Body, data, 0), Restrict(tx, Names(Body)), 0, u, data)
  BY <1>1, <1>4, <1>5, <1>6, FieldsYield DEF u
<1>8. ReadFields(Body, data, 0) = Read(Restrict(tx, Names(Body)), Len(u))
  BY <1>6, <1>7 DEF Yields
<1>9. Yields(ReadNumber("u64", data, Len(u)), id, Len(u), w, data)
  BY <1>2, <1>4, <1>5, NumberYields DEF w
<1>10. ReadNumber("u64", data, Len(u)) = Read(id, Len(u) + Len(w))
  BY <1>6, <1>9 DEF Yields
<1> QED BY <1>3, <1>8, <1>10 DEF Read

\* What a signature covers is what is written before the chain.
LEMMA CoveredIs ==
    ASSUME NEW tx, IsTransaction(tx)
    PROVE  Covered(tx) = Restrict(tx, Names(Body))
<1>1. DOMAIN tx = Names(TransactionFields)
  BY DEF IsTransaction, IsRecord
<1>2. Names(TransactionFields) = Names(Body) \cup {"signature"}
  <2>1. /\ DOMAIN Body = 1 .. 6 /\ DOMAIN TransactionFields = 1 .. 7
        /\ \A i \in 1 .. 6 : TransactionFields[i] = Body[i]
        /\ TransactionFields[7][1] = "signature"
    BY DEF TransactionFields, Body
  <2>2. \A i \in 1 .. 7 : i \in 1 .. 6 \/ i = 7
    OBVIOUS
  <2>3. 7 \in 1 .. 7 /\ \A i \in 1 .. 6 : i \in 1 .. 7
    OBVIOUS
  <2> QED BY <2>1, <2>2, <2>3 DEF Names
<1>3. "signature" \notin Names(Body)
  <2>1. \A i \in 1 .. 6 : Body[i][1] # "signature"
    BY DEF Body
  <2>2. DOMAIN Body = 1 .. 6
    BY DEF Body
  <2> QED BY <2>1, <2>2 DEF Names
<1>4. DOMAIN tx \ {"signature"} = Names(Body)
  BY <1>1, <1>2, <1>3
<1> QED BY <1>4 DEF Covered, Restrict

-----------------------------------------------------------------------------
(* Strings of bytes. *)

Bytes == Seq(Byte)

LEMMA Concatenates ==
    ASSUME NEW a \in Bytes, NEW b \in Bytes
    PROVE  /\ a \o b \in Bytes /\ Len(a \o b) = Len(a) + Len(b) /\ Len(a) \in Nat
           /\ a \o <<>> = a /\ <<>> \o a = a /\ <<>> \in Bytes
<1>1. a \o b \in Bytes /\ Len(a \o b) = Len(a) + Len(b) /\ Len(a) \in Nat
  BY DEF Bytes
<1>2. a \o <<>> = a /\ <<>> \o a = a /\ <<>> \in Bytes
  BY DEF Bytes
<1> QED BY <1>1, <1>2

\* Strings of the same bytes are equal; the bytes of a concatenation.
LEMMA SameBytes ==
    ASSUME NEW a \in Bytes, NEW b \in Bytes, Len(a) = Len(b),
           \A i \in 1 .. Len(a) : a[i] = b[i]
    PROVE  a = b
BY DEF Bytes

LEMMA BytesOf ==
    ASSUME NEW a \in Bytes, NEW b \in Bytes
    PROVE  /\ \A i \in 1 .. Len(a) : (a \o b)[i] = a[i]
           /\ \A i \in 1 .. Len(b) : (a \o b)[Len(a) + i] = b[i]
<1>1. ASSUME NEW i \in 1 .. Len(a) PROVE (a \o b)[i] = a[i]
  BY DEF Bytes
<1>2. ASSUME NEW i \in 1 .. Len(b) PROVE (a \o b)[Len(a) + i] = b[i]
  <2>1. Len(a) \in Nat /\ Len(b) \in Nat /\ Len(a \o b) = Len(a) + Len(b)
    BY DEF Bytes
  <2>2. Len(a) + i \in 1 .. Len(a \o b)
    BY <2>1
  <2> QED BY <2>1, <2>2 DEF Bytes
<1> QED BY <1>1, <1>2

\* How strings are put together does not matter.  (The equality has a name, by which
\* the provers find the instance.)
Same(a, b) == a = b

LEMMA Associates ==
    ASSUME NEW a \in Bytes, NEW b \in Bytes, NEW c \in Bytes
    PROVE  Same((a \o b) \o c, a \o (b \o c))
<1>1. (a \o b) \o c = a \o (b \o c)
  BY DEF Bytes
<1> QED BY <1>1 DEF Same

LEMMA Regroups ==
    ASSUME NEW w \in Bytes, NEW p \in Bytes, NEW q \in Bytes, NEW r \in Bytes
    PROVE  Same((w \o p) \o (q \o r), w \o ((p \o q) \o r))
<1>1. q \o r \in Bytes
  BY Concatenates
<1>2. Same((p \o q) \o r, p \o (q \o r))
  BY Associates
<1>3. Same((w \o p) \o (q \o r), w \o (p \o (q \o r)))
  BY <1>1, Associates
<1> QED BY <1>2, <1>3, Zenon DEF Same

LEMMA Grows ==
    ASSUME NEW s \in Bytes, NEW g \in Bytes, NEW b \in Bytes, NEW w \in Bytes,
           NEW f \in Bytes
    PROVE  Same((s \o (g \o (b \o w))) \o f, s \o (g \o (b \o (w \o f))))
<1>1. b \o w \in Bytes
  BY Concatenates
<1>2. g \o (b \o w) \in Bytes
  BY <1>1, Concatenates
<1>3. Same((b \o w) \o f, b \o (w \o f))
  BY Associates
<1>4. Same((g \o (b \o w)) \o f, g \o ((b \o w) \o f))
  BY <1>1, Associates
<1>5. Same((s \o (g \o (b \o w))) \o f, s \o ((g \o (b \o w)) \o f))
  BY <1>2, Associates
<1> QED BY <1>3, <1>4, <1>5, Zenon DEF Same

\* Equal strings begin with equal parts.
LEMMA SameBeginning ==
    ASSUME NEW a \in Bytes, NEW b \in Bytes, NEW c \in Bytes, NEW d \in Bytes,
           a \o b = c \o d, Len(a) <= Len(c)
    PROVE  /\ \A i \in 1 .. Len(a) : a[i] = c[i]
           /\ Len(a) = Len(c) => a = c /\ b = d
<1>1. Len(a) \in Nat /\ Len(b) \in Nat /\ Len(c) \in Nat /\ Len(d) \in Nat
  BY DEF Bytes
<1>2. ASSUME NEW i \in 1 .. Len(a) PROVE a[i] = c[i]
  <2>1. i \in 1 .. Len(c)
    BY <1>1
  <2>2. (a \o b)[i] = a[i] /\ (c \o d)[i] = c[i]
    BY <2>1, BytesOf
  <2> QED BY <2>2
<1>3. ASSUME Len(a) = Len(c) PROVE a = c /\ b = d
  <2>1. a = c
    BY <1>2, <1>3, SameBytes
  <2>2. Len(b) = Len(d)
    <3>1. Len(a \o b) = Len(a) + Len(b) /\ Len(c \o d) = Len(c) + Len(d)
      BY DEF Bytes
    <3> QED BY <1>1, <1>3, <3>1
  <2>3. \A i \in 1 .. Len(b) : b[i] = d[i]
    <3>1. ASSUME NEW i \in 1 .. Len(b) PROVE b[i] = d[i]
      <4>1. (a \o b)[Len(a) + i] = b[i]
        BY BytesOf
      <4>2. (c \o d)[Len(c) + i] = d[i]
        BY <2>2, BytesOf
      <4> QED BY <1>3, <4>1, <4>2
    <3> QED BY <3>1
  <2> QED BY <2>1, <2>2, <2>3, SameBytes
<1> QED BY <1>2, <1>3

\* A string is its first bytes and the others.
LEMMA SplitIs ==
    ASSUME NEW s \in Bytes, NEW k \in 0 .. Len(s)
    PROVE  /\ SubSeq(s, 1, k) \in Bytes /\ Len(SubSeq(s, 1, k)) = k
           /\ SubSeq(s, k + 1, Len(s)) \in Bytes
           /\ SubSeq(s, 1, k) \o SubSeq(s, k + 1, Len(s)) = s
<1> DEFINE a == SubSeq(s, 1, k)
           b == SubSeq(s, k + 1, Len(s))
           n == Len(s)
<1>1. n \in Nat /\ k \in Nat /\ k <= n
  BY DEF Bytes
<1>2. a \in Bytes /\ Len(a) = k /\ \A i \in 1 .. k : a[i] = s[i]
  BY <1>1 DEF Bytes
<1>3. b \in Bytes /\ Len(b) = n - k /\ \A i \in 1 .. n - k : b[i] = s[k + i]
  BY <1>1 DEF Bytes
<1> HIDE DEF a, b
<1>4. a \o b \in Bytes /\ Len(a \o b) = n
  BY <1>1, <1>2, <1>3 DEF Bytes
<1>5. ASSUME NEW i \in 1 .. n PROVE (a \o b)[i] = s[i]
  <2>1. CASE i <= k
    BY <1>1, <1>2, <1>3, <2>1 DEF Bytes
  <2>2. CASE ~(i <= k)
    <3>1. i - k \in 1 .. n - k /\ k + (i - k) = i
      BY <1>1, <2>2
    <3>2. (a \o b)[i] = b[i - k]
      BY <1>1, <1>2, <1>3, <2>2 DEF Bytes
    <3>3. b[i - k] = s[k + (i - k)]
      BY <1>3, <3>1
    <3> QED BY <3>1, <3>2, <3>3
  <2> QED BY <2>1, <2>2
<1>6. a \o b = s
  BY <1>4, <1>5, SameBytes
<1> QED BY <1>2, <1>3, <1>6 DEF a, b

-----------------------------------------------------------------------------
(* A connection. *)

LEMMA MessagesAre ==
    ASSUME NEW m \in Message
    PROVE  /\ \E i \in DOMAIN Topics : Topics[i] = m.topic
           /\ IsBody(m.topic, m.body)
           /\ Len(Encode(m.topic, m.body)) \in Values("u32")
           /\ m = [topic |-> m.topic, body |-> m.body]
BY MessageAssumption

\* The bytes that are hashed, and those that are signed, are those of one value.
LEMMA Unambiguous == EncodingsAreUnambiguous
<1>1. \A b \in Blocks : IsHeader(b.header)
  <2>1. ASSUME NEW b \in Blocks PROVE IsHeader(b.header)
    <3>1. PICK m \in Message : m.topic = "NewBlock" /\ m.body = b
      BY DEF Blocks
    <3> QED BY <3>1, MessagesAre DEF IsBody, IsBlock
  <2> QED BY <2>1
<1>2. \A t \in Transactions : IsTransaction(t)
  <2>1. ASSUME NEW t \in Transactions PROVE IsTransaction(t)
    <3>1. PICK m \in Message : m.topic = "NewTransaction" /\ m.body = t
      BY DEF Transactions
    <3> QED BY <3>1, MessagesAre DEF IsBody
  <2> QED BY <2>1
<1>3. ASSUME NEW b \in Blocks, NEW c \in Blocks, HashedHeader[b] = HashedHeader[c]
      PROVE  b.header = c.header
  <2>1. EncodeHeader(b.header) = EncodeHeader(c.header)
    BY <1>3 DEF HashedHeader
  <2> DEFINE w == EncodeHeader(b.header)
  <2>2. ReadHeader(w, 0) = Read(b.header, Len(w))
    BY <1>1, HeaderIsDecoded
  <2>3. ReadHeader(w, 0) = Read(c.header, Len(w))
    BY <1>1, <2>1, HeaderIsDecoded
  <2> HIDE DEF w
  <2> QED BY <2>2, <2>3 DEF Read
<1>4. ASSUME NEW t \in Transactions, NEW u \in Transactions, Hashed[t] = Hashed[u]
      PROVE  t = u
  <2>1. EncodeTransaction(t) = EncodeTransaction(u)
    BY <1>4 DEF Hashed
  <2> DEFINE w == EncodeTransaction(t)
  <2>2. DecodeTransaction(w) = Read(t, Len(w))
    BY <1>2, TransactionIsDecoded
  <2>3. DecodeTransaction(w) = Read(u, Len(w))
    BY <1>2, <2>1, TransactionIsDecoded
  <2> HIDE DEF w
  <2> QED BY <2>2, <2>3 DEF Read
<1>5. ASSUME NEW t \in Transactions, NEW u \in Transactions,
             NEW i \in {0, 1}, NEW j \in {0, 1}, Signed[t][i] = Signed[u][j]
      PROVE  Covered(t) = Covered(u) /\ i = j
  <2>1. EncodeForSigning(t, i) = EncodeForSigning(u, j)
    <3>1. Signed[t][i] = EncodeForSigning(t, i)
      BY DEF Signed
    <3>2. Signed[u][j] = EncodeForSigning(u, j)
      BY DEF Signed
    <3> QED BY <1>5, <3>1, <3>2
  <2>2. i \in Values("u64") /\ j \in Values("u64")
    BY SmallValues DEF Kinds
  <2> DEFINE data == EncodeForSigning(t, i)
             read == ReadFields(Body, data, 0)
  <2>3. /\ read.value = Restrict(t, Names(Body))
        /\ ReadNumber("u64", data, read.at).value = i
    BY <1>2, <2>2, SignedIsRead
  <2>4. /\ read.value = Restrict(u, Names(Body))
        /\ ReadNumber("u64", data, read.at).value = j
    BY <1>2, <2>1, <2>2, SignedIsRead
  <2> HIDE DEF data
  <2> QED BY <1>2, <2>3, <2>4, CoveredIs
<1> QED BY <1>3, <1>4, <1>5 DEF EncodingsAreUnambiguous

\* Bytes that are hashed or signed name one value: a header, a transaction, and what
\* a signature covers of one, on one chain (primitives/Codec.cpp).
THEOREM EncodingsStayUnambiguous == Spec => []EncodingsAreUnambiguous
BY Unambiguous, PTL

-----------------------------------------------------------------------------
(* Frames. *)

\* What precedes the payload of a frame, and what it decodes to.
HeaderBytes(m) ==
    LittleEndian(CHOOSE i \in DOMAIN Topics : Topics[i] = m.topic, "u16")
    \o LittleEndian(Len(Encode(m.topic, m.body)), "u32")

HeaderOf(m) == [topic |-> m.topic, length |-> Len(Encode(m.topic, m.body))]

LEMMA FrameIs ==
    ASSUME NEW m \in Message
    PROVE  /\ HeaderBytes(m) \in Bytes /\ Len(HeaderBytes(m)) = HeaderSize
           /\ Encode(m.topic, m.body) \in Bytes
           /\ Frames[m] = HeaderBytes(m) \o Encode(m.topic, m.body)
           /\ Frames[m] \in Bytes
           /\ DecodeHeader(HeaderBytes(m)) = HeaderOf(m)
           /\ HeaderSize \in Nat \ {0}
<1> DEFINE payload == Encode(m.topic, m.body)
           number == CHOOSE i \in DOMAIN Topics : Topics[i] = m.topic
           a == LittleEndian(number, "u16")
           b == LittleEndian(Len(payload), "u32")
<1>1. /\ \E i \in DOMAIN Topics : Topics[i] = m.topic
      /\ IsBody(m.topic, m.body) /\ Len(payload) \in Values("u32")
  BY MessagesAre
<1>2. number \in DOMAIN Topics /\ Topics[number] = m.topic
  BY <1>1
<1>3. number \in Values("u16")
  <2>1. DOMAIN Topics = 1 .. Len(Topics) /\ Len(Topics) \in Nat
    BY DEF Topics
  <2>2. Len(Topics) \in Values("u16") /\ Power(Base, Width["u16"]) \in Nat
    BY MessageAssumption, WidthIs DEF Kinds
  <2> HIDE DEF number
  <2> QED BY <1>2, <2>1, <2>2 DEF Values
<1>4. payload \in Bytes
  BY <1>1, MessageIsDecoded DEF Bytes
<1>5. Frames[m] = (a \o b) \o payload /\ HeaderBytes(m) = a \o b
  BY DEF Frames, Frame, HeaderBytes
<1>6. "u16" \in Kinds /\ "u32" \in Kinds
  BY DEF Kinds
<1>7. /\ a \in Bytes /\ Len(a) = Width["u16"] /\ Width["u16"] \in Nat \ {0}
      /\ b \in Bytes /\ Len(b) = Width["u32"] /\ Width["u32"] \in Nat \ {0}
  BY <1>1, <1>3, <1>6, DigitsAre, WidthIs DEF Bytes
<1> HIDE DEF number, a, b, payload
<1>8. a \o b \in Bytes /\ Len(a \o b) = HeaderSize /\ HeaderSize \in Nat \ {0}
  BY <1>7 DEF HeaderSize, Bytes
<1>9. (a \o b) \o payload \in Bytes
  BY <1>4, <1>8 DEF Bytes
<1>10. ReadNumber("u16", a \o b, 0).value = number
  <2>1. Agrees(a \o b, 0, a) /\ 0 + Len(a) <= Len(a \o b)
    BY <1>7, PartsAgree DEF Bytes
  <2>2. Yields(ReadNumber("u16", a \o b, 0), number, 0, a, a \o b)
    BY <1>3, <1>6, <1>8, <2>1, NumberYields DEF a, Bytes
  <2> QED BY <2>1, <2>2 DEF Yields, Read
<1>11. ReadNumber("u32", a \o b, Width["u16"]).value = Len(payload)
  <2>1. Agrees(a \o b, Len(a), b) /\ Len(a) + Len(b) <= Len(a \o b)
    BY <1>7, PartsAgree DEF Bytes
  <2>2. Yields(ReadNumber("u32", a \o b, Len(a)), Len(payload), Len(a), b, a \o b)
    BY <1>1, <1>6, <1>7, <1>8, <2>1, NumberYields DEF b, payload, Bytes
  <2>3. ReadNumber("u32", a \o b, Len(a)).value = Len(payload)
    BY <2>1, <2>2 DEF Yields, Read
  <2> QED BY <2>3, <1>7
<1>12. DecodeHeader(a \o b) = HeaderOf(m)
  BY <1>2, <1>10, <1>11 DEF DecodeHeader, HeaderOf, payload
<1> QED BY <1>4, <1>5, <1>8, <1>9, <1>12 DEF payload

\* The bytes of a sequence of messages, frame after frame.
Stream(s) == FlattenSeq([i \in 1 .. Len(s) |-> Frames[s[i]]])

\* Each message adds its frame.
LEMMA StreamIs ==
    ASSUME NEW s \in Seq(Message)
    PROVE  /\ Stream(s) \in Bytes /\ Stream(<<>>) = <<>>
           /\ \A m \in Message : Stream(Append(s, m)) = Stream(s) \o Frames[m]
<1>1. \A r \in Seq(Message) : \E run \in [0 .. Len(r) -> Bytes] :
         /\ run[0] = <<>> /\ run[Len(r)] = Stream(r)
         /\ \A k \in 1 .. Len(r) : run[k] = run[k - 1] \o Frames[r[k]]
  <2> SUFFICES ASSUME NEW r \in Seq(Message)
               PROVE  \E run \in [0 .. Len(r) -> Bytes] :
                         /\ run[0] = <<>> /\ run[Len(r)] = Stream(r)
                         /\ \A k \in 1 .. Len(r) : run[k] = run[k - 1] \o Frames[r[k]]
    OBVIOUS
  <2> DEFINE ws == [i \in 1 .. Len(r) |-> Frames[r[i]]]
  <2>1. ws \in Seq(Bytes) /\ Len(ws) = Len(r) /\ \A k \in 1 .. Len(r) : ws[k] = Frames[r[k]]
    <3>1. ws \in [1 .. Len(r) -> Bytes]
      BY FrameIs
    <3>2. Len(r) \in Nat /\ \A k \in 1 .. Len(r) : ws[k] = Frames[r[k]]
      OBVIOUS
    <3> HIDE DEF ws
    <3> QED BY <3>1, <3>2
  <2>2. Stream(r) = FlattenSeq(ws)
    BY DEF Stream
  <2> HIDE DEF ws
  <2>3. PICK run \in [0 .. Len(ws) -> Seq(Byte)] :
           /\ run[0] = <<>> /\ run[Len(ws)] = FlattenSeq(ws)
           /\ \A k \in 1 .. Len(ws) : run[k] = run[k - 1] \o ws[k]
    BY <2>1, Flattens DEF Bytes
  <2>4. /\ run \in [0 .. Len(r) -> Bytes] /\ run[0] = <<>> /\ run[Len(r)] = Stream(r)
        /\ \A k \in 1 .. Len(r) : run[k] = run[k - 1] \o Frames[r[k]]
    BY <2>1, <2>2, <2>3 DEF Bytes
  <2> QED BY <2>4
<1>2. \A r \in Seq(Message) : Stream(r) \in Bytes
  <2> SUFFICES ASSUME NEW r \in Seq(Message) PROVE Stream(r) \in Bytes
    OBVIOUS
  <2>1. PICK run \in [0 .. Len(r) -> Bytes] : run[Len(r)] = Stream(r)
    BY <1>1
  <2>2. Len(r) \in 0 .. Len(r)
    OBVIOUS
  <2> QED BY <2>1, <2>2
<1>3. Stream(<<>>) = <<>>
  <2>1. <<>> \in Seq(Message) /\ Len(<<>>) = 0
    OBVIOUS
  <2> QED BY <1>1, <2>1
<1>4. ASSUME NEW m \in Message PROVE Stream(Append(s, m)) = Stream(s) \o Frames[m]
  <2> DEFINE r == Append(s, m)
             n == Len(s)
  <2>1. r \in Seq(Message) /\ Len(r) = n + 1 /\ n \in Nat
        /\ r[n + 1] = m /\ \A k \in 1 .. n : r[k] = s[k]
    OBVIOUS
  <2>2. PICK f \in [0 .. n -> Bytes] :
           /\ f[0] = <<>> /\ f[n] = Stream(s)
           /\ \A k \in 1 .. n : f[k] = f[k - 1] \o Frames[s[k]]
    BY <1>1
  <2> HIDE DEF r
  <2>3. PICK g \in [0 .. n + 1 -> Bytes] :
           /\ g[0] = <<>> /\ g[n + 1] = Stream(r)
           /\ \A k \in 1 .. n + 1 : g[k] = g[k - 1] \o Frames[r[k]]
    BY <1>1, <2>1
  <2> HIDE DEF n
  <2> DEFINE S == {k \in 0 .. n : f[k] = g[k]}
  <2>4. 0 \in S
    BY <2>1, <2>2, <2>3
  <2>5. ASSUME NEW k \in 1 .. n, k - 1 \in S PROVE k \in S
    <3>1. k \in 1 .. n + 1 /\ k \in 0 .. n /\ f[k - 1] = g[k - 1]
      BY <2>1, <2>5
    <3>2. f[k] = g[k]
      BY <2>1, <2>2, <2>3, <3>1
    <3> QED BY <3>1, <3>2
  <2>6. n \in S
    <3>1. \A k \in 0 .. n : k \in S
      <4> HIDE DEF S
      <4> QED BY <2>1, <2>4, <2>5, BoundedInduction
    <3> QED BY <2>1, <3>1
  <2>7. n + 1 \in 1 .. n + 1 /\ (n + 1) - 1 = n
    BY <2>1
  <2>8. g[n + 1] = g[(n + 1) - 1] \o Frames[r[n + 1]]
    BY <2>3, <2>7
  <2> QED BY <2>1, <2>2, <2>3, <2>6, <2>7, <2>8 DEF r
<1> QED BY <1>2, <1>3, <1>4

\* What follows the frames of some of the messages, when there are others.
LEMMA StreamGoesOn ==
    ASSUME NEW s \in Seq(Message), NEW k \in 0 .. Len(s)
    PROVE  /\ \E t \in Bytes : Stream(s) = Stream(SubSeq(s, 1, k)) \o t
           /\ k < Len(s) => Stream(SubSeq(s, 1, k + 1)) =
                                Stream(SubSeq(s, 1, k)) \o Frames[s[k + 1]]
<1> DEFINE n == Len(s)
           start(i) == SubSeq(s, 1, i)
<1>1. n \in Nat /\ k \in Nat /\ start(n) = s
  OBVIOUS
<1>2. \A i \in 0 .. n : start(i) \in Seq(Message)
  OBVIOUS
<1>3. ASSUME NEW i \in 0 .. n, i < n
      PROVE  Stream(start(i + 1)) = Stream(start(i)) \o Frames[s[i + 1]] /\ s[i + 1] \in Message
  <2>1. i + 1 \in 1 .. n /\ s[i + 1] \in Message
    BY <1>1, <1>3
  <2>2. start(i + 1) = Append(start(i), s[i + 1])
    BY <2>1
  <2> HIDE DEF start
  <2> QED BY <1>2, <2>1, <2>2, StreamIs
<1> DEFINE S == {j \in 0 .. n - k : \E t \in Bytes : Stream(start(k + j)) = Stream(start(k)) \o t}
<1> HIDE DEF n, start
<1>4. 0 \in S
  <2>1. <<>> \in Bytes /\ Stream(start(k)) \o <<>> = Stream(start(k)) /\ k + 0 = k
    BY <1>1, <1>2, StreamIs, Concatenates DEF n
  <2>2. 0 \in 0 .. n - k
    BY <1>1 DEF n
  <2> QED BY <2>1, <2>2
<1>5. ASSUME NEW j \in 1 .. n - k, j - 1 \in S PROVE j \in S
  <2>1. PICK t \in Bytes : Stream(start(k + (j - 1))) = Stream(start(k)) \o t
    BY <1>5
  <2> DEFINE i == k + (j - 1)
  <2>2. i \in 0 .. n /\ i < n /\ i + 1 = k + j /\ j \in 0 .. n - k
    BY <1>1 DEF n
  <2>3. Stream(start(k + j)) = Stream(start(i)) \o Frames[s[i + 1]] /\ s[i + 1] \in Message
    <3> HIDE DEF i
    <3> QED BY <1>3, <2>2
  <2>4. Stream(start(k)) \in Bytes /\ Frames[s[i + 1]] \in Bytes
    BY <1>2, <2>3, StreamIs, FrameIs DEF n
  <2>5. (Stream(start(k)) \o t) \o Frames[s[i + 1]] = Stream(start(k)) \o (t \o Frames[s[i + 1]])
        /\ t \o Frames[s[i + 1]] \in Bytes
    <3> DEFINE u == Stream(start(k)) w == Frames[s[i + 1]]
    <3>1. u \in Bytes /\ w \in Bytes
      BY <2>4
    <3> HIDE DEF u, w
    <3>2. (u \o t) \o w = u \o (t \o w)
      BY <3>1 DEF Bytes
    <3>3. t \o w \in Bytes
      BY <3>1, Concatenates
    <3> QED BY <3>2, <3>3 DEF u, w
  <2> QED BY <2>1, <2>2, <2>3, <2>5
<1>6. n - k \in S
  <2>1. n - k \in Nat /\ n - k \in 0 .. n - k
    BY <1>1 DEF n
  <2> HIDE DEF S
  <2>2. \A j \in 0 .. n - k : j \in S
    BY <1>4, <1>5, <2>1, BoundedInduction
  <2> QED BY <2>1, <2>2
<1>7. k + (n - k) = n
  BY <1>1
<1>8. \E t \in Bytes : Stream(s) = Stream(start(k)) \o t
  BY <1>1, <1>6, <1>7
<1> QED BY <1>1, <1>3, <1>8 DEF n, start

-----------------------------------------------------------------------------
(* What a connection keeps. *)

\* What the reader has taken of the frame it is receiving, besides its buffer.
Begun == IF header = NoHeader THEN <<>> ELSE HeaderBytes(sent[Len(handled) + 1])

FramingTypes ==
    /\ sent \in Seq(Message) /\ handled \in Seq(Message)
    /\ unsent \in Bytes /\ wire \in Bytes /\ buffer \in Bytes
    /\ broken \in BOOLEAN /\ reading \in BOOLEAN

\* The messages handled are the first ones; a header is that of the next one.
HandledIsStart ==
    /\ Len(handled) <= Len(sent) /\ handled = SubSeq(sent, 1, Len(handled))
    /\ header # NoHeader =>
           Len(handled) < Len(sent) /\ header = HeaderOf(sent[Len(handled) + 1])

\* What has been sent is what was handled, what is under way, and what is lost.
NothingIsMixed ==
    \E lost \in Bytes :
        /\ ~broken => lost = <<>>
        /\ Stream(sent) =
               Stream(handled) \o (Begun \o (buffer \o (wire \o (unsent \o lost))))

\* A reader ends, while the connection stands, at a frame that is too long.
EndsAtOversized ==
    ~broken /\ ~reading =>
        header = NoHeader /\ Complete /\ Oversized(DecodeHeader(buffer).length)

FramingInv ==
    /\ FramingTypes /\ HandledIsStart /\ NothingIsMixed /\ EndsAtOversized
    /\ Len(buffer) <= Wanted

\* What follows the messages handled begins with the frame of the next one.
LEMMA WhatIsLeft ==
    ASSUME NEW s \in Seq(Message), NEW h \in Seq(Message),
           Len(h) <= Len(s), h = SubSeq(s, 1, Len(h)),
           NEW rest \in Bytes, Stream(s) = Stream(h) \o rest
    PROVE  /\ Len(h) = Len(s) => rest = <<>>
           /\ Len(h) < Len(s) =>
                 /\ s[Len(h) + 1] \in Message
                 /\ Append(h, s[Len(h) + 1]) = SubSeq(s, 1, Len(h) + 1)
                 /\ \E t \in Bytes : rest = Frames[s[Len(h) + 1]] \o t
<1> DEFINE k == Len(h)
           m == s[k + 1]
<1>1. k \in Nat /\ Len(s) \in Nat /\ k \in 0 .. Len(s)
  OBVIOUS
<1>2. Stream(h) \in Bytes /\ Stream(s) \in Bytes
  BY StreamIs
<1>3. ASSUME k = Len(s) PROVE rest = <<>>
  <2>1. h = s
    BY <1>3
  <2>2. Stream(h) \o rest = Stream(h) \o <<>> /\ <<>> \in Bytes
    <3>1. Stream(h) \o <<>> = Stream(h) /\ <<>> \in Bytes
      BY <1>2, Concatenates
    <3> QED BY <2>1, <3>1
  <2>3. Len(Stream(h)) <= Len(Stream(h)) /\ Len(Stream(h)) = Len(Stream(h))
    BY <1>2, Concatenates
  <2> DEFINE u == Stream(h)
  <2> HIDE DEF u
  <2>4. u \in Bytes /\ u \o rest = u \o <<>> /\ Len(u) <= Len(u)
    BY <1>2, <2>2, <2>3 DEF u
  <2> QED BY <2>2, <2>4, SameBeginning
<1>4. ASSUME k < Len(s)
      PROVE  /\ m \in Message /\ Append(h, m) = SubSeq(s, 1, k + 1)
             /\ \E t \in Bytes : rest = Frames[m] \o t
  <2>1. k + 1 \in 1 .. Len(s) /\ k + 1 \in 0 .. Len(s)
    BY <1>1, <1>4
  <2>2. m \in Message
    BY <2>1
  <2>3. Append(h, m) = SubSeq(s, 1, k + 1)
    <3>1. SubSeq(s, 1, k + 1) = Append(SubSeq(s, 1, k), s[k + 1])
      BY <1>1, <2>1
    <3> QED BY <3>1
  <2> HIDE DEF k
  <2>4. PICK t \in Bytes : Stream(s) = Stream(SubSeq(s, 1, k + 1)) \o t
    BY <2>1, StreamGoesOn
  <2>5. Stream(SubSeq(s, 1, k + 1)) = Stream(h) \o Frames[m]
    BY <2>2, <2>3, StreamIs
  <2>6. Frames[m] \in Bytes
    BY <2>2, FrameIs
  <2> DEFINE u == Stream(h)
             f == Frames[m]
  <2>7. u \in Bytes /\ f \in Bytes /\ Stream(s) = (u \o f) \o t /\ Stream(s) = u \o rest
    BY <1>2, <2>4, <2>5, <2>6
  <2> HIDE DEF u, f
  <2>8. (u \o f) \o t = u \o (f \o t)
    <3>1. u \in Bytes /\ f \in Bytes
      BY <2>7
    <3> QED BY <3>1 DEF Bytes
  <2>9. u \o rest = u \o (f \o t) /\ f \o t \in Bytes /\ Len(u) <= Len(u)
    <3>1. f \o t \in Bytes
      BY <2>7, Concatenates
    <3>2. Len(u) <= Len(u)
      BY <2>7 DEF Bytes
    <3> QED BY <2>7, <2>8, <3>1, <3>2
  <2>10. rest = f \o t
    BY <2>7, <2>9, SameBeginning
  <2> QED BY <2>2, <2>3, <2>10 DEF f, k
<1> QED BY <1>3, <1>4

\* Where the reader is in the frame of the next message.
LEMMA ReaderIsAt ==
    ASSUME FramingTypes, HandledIsStart, NothingIsMixed
    PROVE  LET m == sent[Len(handled) + 1]
               payload == Encode(m.topic, m.body)
           IN  /\ Len(handled) < Len(sent) =>
                     m \in Message /\ Append(handled, m) = SubSeq(sent, 1, Len(handled) + 1)
               /\ header = NoHeader /\ Len(buffer) = HeaderSize =>
                     Len(handled) < Len(sent) /\ buffer = HeaderBytes(m)
               /\ header # NoHeader =>
                     /\ Len(buffer) = Len(payload) => buffer = payload
                     /\ Len(buffer) < Len(payload) => Agrees(buffer, 0, payload)
               /\ ~broken /\ unsent = <<>> /\ wire = <<>> /\ Len(handled) < Len(sent) =>
                     Len(buffer) >= Wanted
<1> DEFINE m == sent[Len(handled) + 1]
           payload == Encode(m.topic, m.body)
           hb == HeaderBytes(m)
           more == Len(handled) < Len(sent)
<1>1. PICK lost \in Bytes :
          /\ ~broken => lost = <<>>
          /\ Stream(sent) =
                 Stream(handled) \o (Begun \o (buffer \o (wire \o (unsent \o lost))))
  BY DEF NothingIsMixed
<1> DEFINE tail == wire \o (unsent \o lost)
           rest == Begun \o (buffer \o tail)
<1>2. /\ sent \in Seq(Message) /\ handled \in Seq(Message)
      /\ unsent \in Bytes /\ wire \in Bytes /\ buffer \in Bytes
  BY DEF FramingTypes
<1>3. /\ Len(handled) \in Nat /\ Len(sent) \in Nat /\ Len(handled) <= Len(sent)
      /\ handled = SubSeq(sent, 1, Len(handled)) /\ (header # NoHeader => more)
  BY <1>2 DEF HandledIsStart
<1>4. tail \in Bytes /\ buffer \o tail \in Bytes
      /\ Len(buffer \o tail) = Len(buffer) + Len(tail) /\ Len(buffer) \in Nat /\ Len(tail) \in Nat
  <2>1. unsent \o lost \in Bytes
    BY <1>2, Concatenates
  <2>2. tail \in Bytes
    BY <1>2, <2>1, Concatenates
  <2> HIDE DEF tail
  <2> QED BY <1>2, <2>2, Concatenates
<1>5. more => m \in Message
  <2>1. more => Len(handled) + 1 \in 1 .. Len(sent)
    BY <1>3
  <2> QED BY <1>2, <2>1
<1>6. more => hb \in Bytes /\ Len(hb) = HeaderSize /\ payload \in Bytes
  BY <1>5, FrameIs
<1>7. HeaderSize \in Nat \ {0}
  <2>1. "u16" \in Kinds /\ "u32" \in Kinds
    BY DEF Kinds
  <2> QED BY <2>1, WidthIs DEF HeaderSize
<1>8. Begun = IF header = NoHeader THEN <<>> ELSE hb
  BY DEF Begun
<1>9. rest \in Bytes /\ Stream(sent) = Stream(handled) \o rest
  <2>1. Begun \in Bytes
    BY <1>3, <1>6, <1>8, <1>2, Concatenates
  <2> HIDE DEF tail
  <2>2. rest \in Bytes
    BY <1>4, <2>1, Concatenates
  <2> QED BY <1>1, <2>2 DEF tail
<1> HIDE DEF rest
<1>10. ~more => rest = <<>>
  <2>1. ~more => Len(handled) = Len(sent)
    BY <1>3
  <2> QED BY <1>2, <1>3, <1>9, <2>1, WhatIsLeft
<1>11. more => /\ Append(handled, m) = SubSeq(sent, 1, Len(handled) + 1)
               /\ \E t \in Bytes : rest = Frames[m] \o t
  BY <1>2, <1>3, <1>9, WhatIsLeft
<1>12. ASSUME more
       PROVE  \E t \in Bytes : payload \o t \in Bytes /\ rest = hb \o (payload \o t)
                                 /\ Len(payload \o t) >= Len(payload)
  <2>1. PICK t \in Bytes : rest = Frames[m] \o t
    BY <1>11, <1>12
  <2>2. Frames[m] = hb \o payload
    BY <1>5, <1>12, FrameIs
  <2>3. hb \in Bytes /\ payload \in Bytes
    BY <1>6, <1>12
  <2> HIDE DEF m, hb, payload
  <2>4. (hb \o payload) \o t = hb \o (payload \o t)
    BY <2>3 DEF Bytes
  <2>5. payload \o t \in Bytes /\ Len(payload \o t) >= Len(payload)
    BY <2>3 DEF Bytes
  <2> QED BY <2>1, <2>2, <2>4, <2>5
<1> HIDE DEF tail, m, payload, hb
<1>13. ASSUME header = NoHeader PROVE rest = buffer \o tail
  <2>1. <<>> \o (buffer \o tail) = buffer \o tail
    BY <1>4, Concatenates
  <2> QED BY <1>8, <1>13, <2>1 DEF rest
<1>14. ASSUME header # NoHeader
       PROVE  \E t \in Bytes : /\ payload \o t \in Bytes /\ buffer \o tail = payload \o t
                               /\ Len(payload \o t) >= Len(payload)
  <2>1. more
    BY <1>3, <1>14
  <2>2. PICK t \in Bytes : payload \o t \in Bytes /\ rest = hb \o (payload \o t)
                           /\ Len(payload \o t) >= Len(payload)
    BY <1>12, <2>1
  <2> HIDE DEF more
  <2>3. hb \o (buffer \o tail) = hb \o (payload \o t) /\ hb \in Bytes
    BY <1>6, <1>8, <1>14, <2>1, <2>2 DEF rest
  <2>4. Len(hb) <= Len(hb)
    BY <2>3 DEF Bytes
  <2>5. buffer \o tail = payload \o t
    BY <1>4, <2>2, <2>3, <2>4, SameBeginning
  <2> QED BY <2>2, <2>5
<1>15. ASSUME header = NoHeader, Len(buffer) = HeaderSize PROVE more /\ buffer = hb
  <2>1. more
    <3>1. Len(rest) # 0
      BY <1>4, <1>7, <1>13, <1>15
    <3>2. Len(<<>>) = 0
      OBVIOUS
    <3> QED BY <1>10, <3>1, <3>2
  <2>2. PICK t \in Bytes : payload \o t \in Bytes /\ rest = hb \o (payload \o t)
    BY <1>12, <2>1
  <2>3. hb \in Bytes /\ Len(hb) = Len(buffer) /\ buffer \o tail = hb \o (payload \o t)
    BY <1>6, <1>13, <1>15, <2>1, <2>2
  <2>4. Len(buffer) <= Len(hb)
    BY <1>4, <2>3
  <2> QED BY <1>2, <1>4, <2>1, <2>2, <2>3, <2>4, SameBeginning
<1>16. ASSUME header # NoHeader
       PROVE  /\ Len(buffer) = Len(payload) => buffer = payload
              /\ Len(buffer) < Len(payload) => Agrees(buffer, 0, payload)
  <2>1. PICK t \in Bytes : payload \o t \in Bytes /\ buffer \o tail = payload \o t
    BY <1>14, <1>16
  <2>2. payload \in Bytes /\ Len(payload) \in Nat
    BY <1>3, <1>6, <1>16, Concatenates
  <2>3. ASSUME Len(buffer) <= Len(payload)
        PROVE  /\ \A i \in 1 .. Len(buffer) : buffer[i] = payload[i]
               /\ Len(buffer) = Len(payload) => buffer = payload
    <3>1. buffer \in Bytes /\ tail \in Bytes /\ payload \in Bytes /\ t \in Bytes
      BY <1>2, <1>4, <2>2
    <3>2. \A i \in 1 .. Len(buffer) : buffer[i] = payload[i]
      BY <2>1, <2>3, <3>1, SameBeginning
    <3>3. Len(buffer) = Len(payload) => buffer = payload
      BY <2>1, <2>3, <3>1, SameBeginning
    <3> QED BY <3>2, <3>3
  <2>4. ASSUME Len(buffer) < Len(payload) PROVE Agrees(buffer, 0, payload)
    <3>1. \A i \in 1 .. Len(payload) : 0 + i <= Len(buffer) => i \in 1 .. Len(buffer) /\ 0 + i = i
      BY <1>4, <2>2
    <3>2. \A i \in 1 .. Len(buffer) : buffer[i] = payload[i]
      BY <1>4, <2>2, <2>3, <2>4
    <3> QED BY <3>1, <3>2 DEF Agrees
  <2> QED BY <1>4, <2>2, <2>3, <2>4
<1>17. ASSUME ~broken, unsent = <<>>, wire = <<>>, more PROVE Len(buffer) >= Wanted
  <2>1. tail = <<>>
    <3>1. lost = <<>>
      BY <1>1, <1>17
    <3>2. <<>> \o <<>> = <<>>
      BY <1>2, Concatenates
    <3> QED BY <1>17, <3>1, <3>2 DEF tail
  <2>2. buffer \o tail = buffer
    BY <1>2, <2>1, Concatenates
  <2>3. hb \in Bytes /\ Len(hb) = HeaderSize /\ payload \in Bytes /\ Len(payload) \in Nat
    BY <1>6, <1>17, Concatenates
  <2>4. CASE header = NoHeader
    <3>1. PICK t \in Bytes : payload \o t \in Bytes /\ rest = hb \o (payload \o t)
      BY <1>12, <1>17
    <3>2. Len(rest) = Len(hb) + Len(payload \o t) /\ Len(payload \o t) \in Nat
      BY <2>3, <3>1, Concatenates
    <3>3. rest = buffer
      BY <1>13, <2>2, <2>4
    <3> QED BY <1>7, <2>3, <2>4, <3>2, <3>3 DEF Wanted
  <2>5. CASE header # NoHeader
    <3>1. Len(buffer) >= Len(payload)
      BY <1>14, <2>2, <2>5
    <3>2. header.length = Len(payload)
      BY <2>5 DEF HandledIsStart, HeaderOf, m, payload
    <3> QED BY <2>5, <3>1, <3>2 DEF Wanted
  <2> QED BY <2>4, <2>5
<1> QED BY <1>5, <1>11, <1>15, <1>16, <1>17 DEF m, payload, hb

-----------------------------------------------------------------------------
(* The invariant, action by action. *)

\* A frame is added at the end.
LEMMA SendKeeps ==
    ASSUME FramingInv, NEW m \in Message, Send(m)
    PROVE  FramingInv'
<1>1. /\ sent' = Append(sent, m) /\ unsent = <<>> /\ unsent' = Frames[m] /\ ~broken
      /\ UNCHANGED <<wire, header, buffer, handled, broken, reading>>
  BY DEF Send
<1>2. /\ sent \in Seq(Message) /\ handled \in Seq(Message)
      /\ wire \in Bytes /\ buffer \in Bytes
  BY DEF FramingInv, FramingTypes
<1>3. Frames[m] \in Bytes
  BY FrameIs
<1>4. FramingTypes'
  BY <1>1, <1>2, <1>3 DEF FramingInv, FramingTypes
<1>5. /\ sent' \in Seq(Message) /\ Len(sent') = Len(sent) + 1 /\ Len(sent) \in Nat
      /\ Len(handled) \in Nat /\ Len(handled) <= Len(sent)
      /\ \A i \in 1 .. Len(sent) : sent'[i] = sent[i]
  BY <1>1, <1>2 DEF FramingInv, HandledIsStart
<1>6. HandledIsStart'
  <2>1. SubSeq(sent', 1, Len(handled)) = SubSeq(sent, 1, Len(handled))
    <3>1. \A i \in 1 .. Len(handled) : i \in 1 .. Len(sent)
      BY <1>5
    <3> QED BY <1>2, <1>5, <3>1
  <2>2. header # NoHeader =>
           Len(handled) < Len(sent) /\ header = HeaderOf(sent'[Len(handled) + 1])
    <3>1. Len(handled) < Len(sent) => Len(handled) + 1 \in 1 .. Len(sent)
      BY <1>5
    <3> QED BY <1>5, <3>1 DEF FramingInv, HandledIsStart
  <2> QED BY <1>1, <1>5, <2>1, <2>2 DEF FramingInv, HandledIsStart
<1>7. NothingIsMixed'
  <2>1. Begun' = Begun
    <3>1. header # NoHeader => Len(handled) + 1 \in 1 .. Len(sent)
      BY <1>5 DEF FramingInv, HandledIsStart
    <3> QED BY <1>1, <1>5, <3>1 DEF Begun
  <2>2. PICK lost \in Bytes : /\ ~broken => lost = <<>>
                              /\ Stream(sent) = Stream(handled) \o
                                     (Begun \o (buffer \o (wire \o (unsent \o lost))))
    BY DEF FramingInv, NothingIsMixed
  <2>3. lost = <<>> /\ unsent \o lost = <<>>
    <3>1. <<>> \o <<>> = <<>>
      BY <1>2, Concatenates
    <3> QED BY <1>1, <2>2, <3>1
  <2>4. Stream(sent') = Stream(sent) \o Frames[m]
    BY <1>1, <1>2, StreamIs
  <2> DEFINE s == Stream(handled) f == Frames[m]
  <2>5. s \in Bytes /\ f \in Bytes /\ Begun \in Bytes
    <3>1. header # NoHeader => sent[Len(handled) + 1] \in Message
      <4>1. header # NoHeader => Len(handled) + 1 \in 1 .. Len(sent)
        BY <1>5 DEF FramingInv, HandledIsStart
      <4> QED BY <1>2, <4>1
    <3> QED BY <1>2, <1>3, <3>1, StreamIs, FrameIs, Concatenates DEF Begun
  <2>6. Stream(sent) = s \o (Begun \o (buffer \o wire))
    <3>1. wire \o (unsent \o lost) = wire
      BY <1>2, <2>3, Concatenates
    <3> QED BY <2>2, <3>1
  <2>7. Stream(sent') = (s \o (Begun \o (buffer \o wire))) \o f
    BY <2>4, <2>6
  <2> DEFINE g == Begun
  <2> HIDE DEF s, f, g
  <2>8. (s \o (g \o (buffer \o wire))) \o f = s \o (g \o (buffer \o (wire \o f)))
    <3>1. s \in Bytes /\ g \in Bytes /\ f \in Bytes
      BY <2>5 DEF g
    <3>2. Same((s \o (g \o (buffer \o wire))) \o f, s \o (g \o (buffer \o (wire \o f))))
      BY <1>2, <3>1, Grows
    <3> QED BY <3>2, Zenon DEF Same
  <2>9. f \o <<>> = f /\ <<>> \in Bytes
    BY <2>5, Concatenates
  <2>10. Stream(sent') = Stream(handled) \o
             (Begun \o (buffer \o (wire \o (Frames[m] \o <<>>))))
    BY <2>7, <2>8, <2>9 DEF s, f, g
  <2> QED BY <1>1, <2>1, <2>9, <2>10 DEF NothingIsMixed
<1>8. EndsAtOversized' /\ (Len(buffer) <= Wanted)'
  BY <1>1 DEF FramingInv, EndsAtOversized, Complete, Wanted
<1> QED BY <1>4, <1>6, <1>7, <1>8 DEF FramingInv

\* Bytes that move along stay in order.
LEMMA MovesKeep ==
    ASSUME FramingInv, NEW lost \in Bytes, NEW lostAfter \in Bytes,
           Stream(sent) = Stream(handled) \o
               (Begun \o (buffer \o (wire \o (unsent \o lost)))),
           buffer' \o (wire' \o (unsent' \o lostAfter)) =
               buffer \o (wire \o (unsent \o lost)),
           broken' \/ lostAfter = <<>>,
           UNCHANGED <<sent, header, handled>>
    PROVE  NothingIsMixed' /\ HandledIsStart'
<1>1. Begun' = Begun
  BY DEF Begun
<1>2. HandledIsStart'
  BY DEF FramingInv, HandledIsStart
<1>3. Stream(sent') = Stream(handled') \o
          (Begun' \o (buffer' \o (wire' \o (unsent' \o lostAfter))))
  BY <1>1
<1> QED BY <1>2, <1>3 DEF NothingIsMixed

LEMMA SendAllKeeps ==
    ASSUME FramingInv, NEW n \in Pieces, SendAll(n)
    PROVE  FramingInv'
<1> DEFINE k == AtMost(n, unsent)
           p == SubSeq(unsent, 1, k)
           q == SubSeq(unsent, n + 1, Len(unsent))
<1>1. /\ wire' = wire \o p /\ unsent' = q
      /\ UNCHANGED <<sent, header, buffer, handled, broken, reading>>
  BY DEF SendAll
<1>2. /\ unsent \in Bytes /\ wire \in Bytes /\ buffer \in Bytes /\ Len(unsent) \in Nat
      /\ n \in Nat
  BY FramingAssumption DEF FramingInv, FramingTypes, Bytes
<1>3. k \in 0 .. Len(unsent) /\ q = SubSeq(unsent, k + 1, Len(unsent))
  <2>1. CASE n < Len(unsent)
    BY <1>2, <2>1 DEF AtMost
  <2>2. CASE ~(n < Len(unsent))
    <3>1. k = Len(unsent)
      BY <2>2 DEF AtMost
    <3>2. SubSeq(unsent, k + 1, Len(unsent)) = <<>> /\ q = <<>>
      BY <1>2, <2>2, <3>1 DEF Bytes
    <3> QED BY <1>2, <3>1, <3>2
  <2> QED BY <2>1, <2>2
<1> HIDE DEF k
<1>4. p \in Bytes /\ q \in Bytes /\ p \o q = unsent
  BY <1>2, <1>3, SplitIs
<1> HIDE DEF p, q
<1>5. FramingTypes'
  <2>1. wire \o p \in Bytes
    BY <1>2, <1>4, Concatenates
  <2> QED BY <1>1, <1>4, <2>1 DEF FramingInv, FramingTypes
<1>6. PICK lost \in Bytes : /\ ~broken => lost = <<>>
                            /\ Stream(sent) = Stream(handled) \o
                                   (Begun \o (buffer \o (wire \o (unsent \o lost))))
  BY DEF FramingInv, NothingIsMixed
<1>7. buffer' \o (wire' \o (unsent' \o lost)) = buffer \o (wire \o (unsent \o lost))
  <2>1. (wire \o p) \o (q \o lost) = wire \o ((p \o q) \o lost)
    <3>1. Same((wire \o p) \o (q \o lost), wire \o ((p \o q) \o lost))
      BY <1>2, <1>4, Regroups
    <3> QED BY <3>1, Zenon DEF Same
  <2> QED BY <1>1, <1>4, <2>1
<1>8. broken' \/ lost = <<>>
  BY <1>1, <1>6 DEF FramingInv, FramingTypes
<1>9. NothingIsMixed' /\ HandledIsStart'
  BY <1>1, <1>6, <1>7, <1>8, MovesKeep
<1>10. EndsAtOversized' /\ (Len(buffer) <= Wanted)'
  BY <1>1 DEF FramingInv, EndsAtOversized, Complete, Wanted
<1> QED BY <1>5, <1>9, <1>10 DEF FramingInv

LEMMA BreakKeeps ==
    ASSUME FramingInv, Break
    PROVE  FramingInv'
<1>1. PICK n \in 0 .. Len(wire) : wire' = SubSeq(wire, 1, n)
  BY DEF Break
<1>2. broken' = TRUE /\ unsent' = <<>> /\ UNCHANGED <<sent, header, buffer, handled, reading>>
  BY DEF Break
<1>3. unsent \in Bytes /\ wire \in Bytes /\ buffer \in Bytes /\ <<>> \in Bytes
  BY Concatenates DEF FramingInv, FramingTypes
<1> DEFINE p == SubSeq(wire, 1, n)
           q == SubSeq(wire, n + 1, Len(wire))
<1>4. p \in Bytes /\ q \in Bytes /\ p \o q = wire
  BY <1>3, SplitIs
<1> HIDE DEF p, q
<1>5. wire' = p
  BY <1>1 DEF p
<1>6. FramingTypes'
  BY <1>2, <1>3, <1>4, <1>5 DEF FramingInv, FramingTypes
<1>7. PICK lost \in Bytes :
          Stream(sent) = Stream(handled) \o
              (Begun \o (buffer \o (wire \o (unsent \o lost))))
  BY DEF FramingInv, NothingIsMixed
<1> DEFINE after == q \o (unsent \o lost)
<1>8. after \in Bytes
  <2>1. unsent \o lost \in Bytes
    BY <1>3, Concatenates
  <2> QED BY <1>4, <2>1, Concatenates
<1>9. p \o (<<>> \o after) = (p \o q) \o (unsent \o lost)
  <2>1. <<>> \o after = after
    BY <1>8, Concatenates
  <2>2. (p \o q) \o (unsent \o lost) = p \o (q \o (unsent \o lost))
    <3>1. unsent \o lost \in Bytes
      BY <1>3, Concatenates
    <3> DEFINE r == unsent \o lost
    <3> HIDE DEF r
    <3>2. (p \o q) \o r = p \o (q \o r)
      <4>1. r \in Bytes /\ p \in Bytes /\ q \in Bytes
        BY <1>4, <3>1 DEF r
      <4> QED BY <4>1 DEF Bytes
    <3> QED BY <3>2 DEF r
  <2> QED BY <2>1, <2>2
<1>10. buffer' \o (wire' \o (unsent' \o after)) = buffer \o (wire \o (unsent \o lost))
  BY <1>2, <1>4, <1>5, <1>9
<1> HIDE DEF after
<1>11. NothingIsMixed' /\ HandledIsStart'
  BY <1>2, <1>7, <1>8, <1>10, MovesKeep
<1>12. EndsAtOversized' /\ (Len(buffer) <= Wanted)'
  BY <1>2 DEF FramingInv, EndsAtOversized, Complete, Wanted
<1> QED BY <1>6, <1>11, <1>12 DEF FramingInv

LEMMA WantedIs ==
    ASSUME FramingInv
    PROVE  /\ Wanted \in Nat /\ Len(buffer) \in Nat /\ Len(buffer) <= Wanted
           /\ header # NoHeader =>
                 LET m == sent[Len(handled) + 1]
                 IN  /\ m \in Message /\ header = HeaderOf(m)
                     /\ Len(handled) < Len(sent) /\ Wanted = Len(Encode(m.topic, m.body))
<1> DEFINE m == sent[Len(handled) + 1]
<1>1. Len(buffer) \in Nat /\ Len(buffer) <= Wanted
  BY DEF FramingInv, FramingTypes, Bytes
<1>2. header # NoHeader => /\ Len(handled) < Len(sent) /\ header = HeaderOf(m)
                           /\ m \in Message
  BY ReaderIsAt DEF FramingInv, HandledIsStart
<1>3. header # NoHeader => Wanted = Len(Encode(m.topic, m.body)) /\ Wanted \in Nat
  <2>1. ASSUME header # NoHeader
        PROVE  Wanted = Len(Encode(m.topic, m.body)) /\ Wanted \in Nat
    <3>1. Wanted = Len(Encode(m.topic, m.body))
      BY <1>2, <2>1 DEF Wanted, HeaderOf
    <3>2. Encode(m.topic, m.body) \in Bytes
      BY <1>2, <2>1, FrameIs
    <3>3. Len(Encode(m.topic, m.body)) \in Nat
      BY <3>2, Concatenates
    <3> QED BY <3>1, <3>3
  <2> QED BY <2>1
<1>4. header = NoHeader => Wanted \in Nat
  <2>1. "u16" \in Kinds /\ "u32" \in Kinds
    BY DEF Kinds
  <2> QED BY <2>1, WidthIs DEF Wanted, HeaderSize
<1> QED BY <1>1, <1>2, <1>3, <1>4

LEMMA ReceiveSomeKeeps ==
    ASSUME FramingInv, NEW n \in Pieces, ReceiveSome(n)
    PROVE  FramingInv'
<1> DEFINE missing == Wanted - Len(buffer)
           k == AtMost(IF n < missing THEN n ELSE missing, wire)
           a == SubSeq(wire, 1, k)
           b == SubSeq(wire, k + 1, Len(wire))
<1>1. /\ buffer' = buffer \o a /\ wire' = b /\ reading
      /\ UNCHANGED <<sent, unsent, header, handled, broken, reading>>
  BY DEF ReceiveSome
<1>2. /\ unsent \in Bytes /\ wire \in Bytes /\ buffer \in Bytes /\ Len(wire) \in Nat
      /\ n \in Nat
  BY FramingAssumption DEF FramingInv, FramingTypes, Bytes
<1>3. missing \in Nat
  BY WantedIs
<1> HIDE DEF missing
<1>4. k \in 0 .. Len(wire) /\ k <= missing
  BY <1>2, <1>3 DEF AtMost
<1> HIDE DEF k
<1>5. a \in Bytes /\ b \in Bytes /\ a \o b = wire /\ Len(a) = k
  BY <1>2, <1>4, SplitIs
<1> HIDE DEF a, b
<1>6. buffer \o a \in Bytes /\ Len(buffer \o a) = Len(buffer) + Len(a)
  BY <1>2, <1>5, Concatenates
<1>7. FramingTypes'
  BY <1>1, <1>5, <1>6 DEF FramingInv, FramingTypes
<1>8. PICK lost \in Bytes : /\ ~broken => lost = <<>>
                            /\ Stream(sent) = Stream(handled) \o
                                   (Begun \o (buffer \o (wire \o (unsent \o lost))))
  BY DEF FramingInv, NothingIsMixed
<1>9. buffer' \o (wire' \o (unsent' \o lost)) = buffer \o (wire \o (unsent \o lost))
  <2>1. unsent \o lost \in Bytes
    BY <1>2, Concatenates
  <2>2. Same((buffer \o a) \o (b \o (unsent \o lost)),
             buffer \o ((a \o b) \o (unsent \o lost)))
    BY <1>2, <1>5, <2>1, Regroups
  <2> QED BY <1>1, <1>5, <2>2 DEF Same
<1>10. broken' \/ lost = <<>>
  BY <1>1, <1>8 DEF FramingInv, FramingTypes
<1>11. NothingIsMixed' /\ HandledIsStart'
  BY <1>1, <1>8, <1>9, <1>10, MovesKeep
<1>12. EndsAtOversized'
  BY <1>1 DEF EndsAtOversized
<1>13. (Len(buffer) <= Wanted)'
  <2>1. Wanted' = Wanted
    BY <1>1 DEF Wanted
  <2>2. Len(buffer) + k <= Wanted
    BY <1>3, <1>4, WantedIs DEF missing
  <2> QED BY <1>1, <1>5, <1>6, <2>1, <2>2
<1> QED BY <1>7, <1>11, <1>12, <1>13 DEF FramingInv

LEMMA StoppedKeeps ==
    ASSUME FramingInv, ConnectionClosed \/ RefuseFrame
    PROVE  FramingInv'
<1>1. /\ reading' = FALSE
      /\ UNCHANGED <<sent, unsent, wire, header, buffer, handled, broken>>
  BY DEF ConnectionClosed, RefuseFrame, Stopped
<1>2. FramingTypes' /\ HandledIsStart' /\ (Len(buffer) <= Wanted)'
  BY <1>1 DEF FramingInv, FramingTypes, HandledIsStart, Wanted
<1>3. NothingIsMixed'
  <2>1. Begun' = Begun
    BY <1>1 DEF Begun
  <2> QED BY <1>1, <2>1 DEF FramingInv, NothingIsMixed
<1>4. EndsAtOversized'
  <2>1. CASE ConnectionClosed
    BY <1>1, <2>1 DEF ConnectionClosed, EndsAtOversized
  <2>2. CASE RefuseFrame
    BY <1>1, <2>2 DEF RefuseFrame, EndsAtOversized, Complete, Wanted
  <2> QED BY <2>1, <2>2
<1> QED BY <1>2, <1>3, <1>4 DEF FramingInv

LEMMA ReadFrameHeaderKeeps ==
    ASSUME FramingInv, ReadFrameHeader
    PROVE  FramingInv'
<1> DEFINE m == sent[Len(handled) + 1]
<1>1. /\ header = NoHeader /\ Len(buffer) = HeaderSize /\ reading
      /\ header' = DecodeHeader(buffer) /\ buffer' = <<>>
      /\ UNCHANGED <<sent, unsent, wire, handled, broken, reading>>
  BY DEF ReadFrameHeader, Complete, Wanted
<1>2. Len(handled) < Len(sent) /\ buffer = HeaderBytes(m) /\ m \in Message
  BY <1>1, ReaderIsAt DEF FramingInv
<1>3. header' = HeaderOf(m) /\ HeaderOf(m) # NoHeader
  BY <1>1, <1>2, FrameIs, MessageAssumption DEF HeaderOf
<1>4. /\ unsent \in Bytes /\ wire \in Bytes /\ buffer \in Bytes /\ <<>> \in Bytes
  BY Concatenates DEF FramingInv, FramingTypes
<1>5. FramingTypes'
  BY <1>1, <1>4 DEF FramingInv, FramingTypes
<1>6. HandledIsStart'
  BY <1>1, <1>2, <1>3 DEF FramingInv, HandledIsStart
<1>7. NothingIsMixed'
  <2>1. PICK lost \in Bytes : /\ ~broken => lost = <<>>
                              /\ Stream(sent) = Stream(handled) \o
                                     (Begun \o (buffer \o (wire \o (unsent \o lost))))
    BY DEF FramingInv, NothingIsMixed
  <2> DEFINE tail == wire \o (unsent \o lost)
  <2>2. tail \in Bytes /\ buffer \o tail \in Bytes
    <3>1. unsent \o lost \in Bytes
      BY <1>4, Concatenates
    <3>2. tail \in Bytes
      BY <1>4, <3>1, Concatenates
    <3> HIDE DEF tail
    <3> QED BY <1>4, <3>2, Concatenates
  <2> HIDE DEF tail
  <2>3. Begun \o (buffer \o tail) = buffer \o (<<>> \o tail)
    <3>1. Begun = <<>>
      BY <1>1 DEF Begun
    <3>2. <<>> \o (buffer \o tail) = buffer \o tail /\ <<>> \o tail = tail
      BY <2>2, Concatenates
    <3> QED BY <3>1, <3>2
  <2>4. Begun' = buffer
    <3>1. header' # NoHeader
      BY <1>3
    <3> QED BY <1>1, <1>2, <3>1 DEF Begun
  <2>5. Stream(sent') = Stream(handled') \o
            (Begun' \o (buffer' \o (wire' \o (unsent' \o lost))))
    BY <1>1, <2>1, <2>3, <2>4 DEF tail
  <2> QED BY <1>1, <2>1, <2>5 DEF NothingIsMixed
<1>8. EndsAtOversized'
  BY <1>1 DEF EndsAtOversized
<1>9. (Len(buffer) <= Wanted)'
  <2>1. Wanted' = Len(Encode(m.topic, m.body))
    BY <1>3 DEF Wanted, HeaderOf
  <2>2. Encode(m.topic, m.body) \in Bytes
    BY <1>2, FrameIs
  <2>3. Len(Encode(m.topic, m.body)) \in Nat /\ Len(<<>>) = 0
    BY <2>2, Concatenates
  <2> QED BY <1>1, <2>1, <2>3
<1> QED BY <1>5, <1>6, <1>7, <1>8, <1>9 DEF FramingInv

LEMMA DispatchKeeps ==
    ASSUME FramingInv, Dispatch
    PROVE  FramingInv'
<1> DEFINE m == sent[Len(handled) + 1]
           payload == Encode(m.topic, m.body)
           body == Decode(header.topic, buffer)
<1>1. /\ header # NoHeader /\ Len(buffer) = Wanted /\ reading
      /\ header' = NoHeader /\ buffer' = <<>>
      /\ UNCHANGED <<sent, unsent, wire, broken>>
      /\ IF body.ok
         THEN /\ handled' = Append(handled, [topic |-> header.topic, body |-> body.value])
              /\ UNCHANGED reading
         ELSE reading' = FALSE /\ UNCHANGED handled
  BY DEF Dispatch, Complete
<1>2. /\ m \in Message /\ header = HeaderOf(m) /\ Len(handled) < Len(sent)
      /\ Wanted = Len(payload)
  BY <1>1, WantedIs
<1>3. buffer = payload /\ Append(handled, m) = SubSeq(sent, 1, Len(handled) + 1)
  BY <1>1, <1>2, ReaderIsAt DEF FramingInv
<1>4. header.topic = m.topic
  BY <1>2 DEF HeaderOf
<1>5. body.ok /\ body.value = m.body
  <2>1. (\E i \in DOMAIN Topics : Topics[i] = m.topic) /\ IsBody(m.topic, m.body)
    BY <1>2, MessagesAre
  <2>2. Decode(m.topic, payload).ok /\ Decode(m.topic, payload).value = m.body
    BY <2>1, MessageIsDecoded
  <2> QED BY <1>3, <1>4, <2>2
<1>6. handled' = Append(handled, m) /\ reading'
  <2>1. m = [topic |-> m.topic, body |-> m.body]
    BY <1>2, MessagesAre
  <2> HIDE DEF body, m, payload
  <2> QED BY <1>1, <1>4, <1>5, <2>1
<1> HIDE DEF body
<1>7. /\ sent \in Seq(Message) /\ handled \in Seq(Message)
      /\ unsent \in Bytes /\ wire \in Bytes /\ <<>> \in Bytes
  BY Concatenates DEF FramingInv, FramingTypes
<1>8. Len(handled) \in Nat /\ Len(sent) \in Nat
  BY <1>7
<1>9. FramingTypes'
  BY <1>1, <1>2, <1>6, <1>7 DEF FramingInv, FramingTypes
<1>10. HandledIsStart'
  <2>1. Len(handled') = Len(handled) + 1
    BY <1>6, <1>7
  <2>2. Len(handled') <= Len(sent)
    BY <1>2, <1>8, <2>1
  <2> QED BY <1>1, <1>3, <1>6, <2>1, <2>2 DEF HandledIsStart
<1>11. NothingIsMixed'
  <2>1. PICK lost \in Bytes : /\ ~broken => lost = <<>>
                              /\ Stream(sent) = Stream(handled) \o
                                     (Begun \o (buffer \o (wire \o (unsent \o lost))))
    BY DEF FramingInv, NothingIsMixed
  <2> DEFINE tail == wire \o (unsent \o lost)
             s == Stream(handled)
             hb == HeaderBytes(m)
  <2>2. tail \in Bytes
    <3>1. unsent \o lost \in Bytes
      BY <1>7, Concatenates
    <3> QED BY <1>7, <3>1, Concatenates
  <2>3. /\ s \in Bytes /\ hb \in Bytes /\ payload \in Bytes
        /\ Frames[m] = hb \o payload
    BY <1>2, <1>7, StreamIs, FrameIs
  <2>4. Stream(sent) = s \o (hb \o (payload \o tail))
    <3>1. Begun = hb
      BY <1>1 DEF Begun
    <3> QED BY <1>3, <2>1, <3>1
  <2>5. Stream(handled') = s \o (hb \o payload)
    BY <1>2, <1>6, <1>7, <2>3, StreamIs
  <2>6. Begun' = <<>>
    BY <1>1 DEF Begun
  <2>7. wire' \o (unsent' \o lost) = tail
    BY <1>1
  <2> HIDE DEF tail, s, hb, payload
  <2>8. <<>> \o tail = tail
    BY <2>2, Concatenates
  <2>9. s \o (hb \o (payload \o tail)) = (s \o (hb \o payload)) \o tail
    <3>1. Same((hb \o payload) \o tail, hb \o (payload \o tail))
      BY <2>2, <2>3, Associates
    <3>2. hb \o payload \in Bytes
      BY <2>3, Concatenates
    <3>3. Same((s \o (hb \o payload)) \o tail, s \o ((hb \o payload) \o tail))
      BY <2>2, <2>3, <3>2, Associates
    <3> QED BY <3>1, <3>3, Zenon DEF Same
  <2>10. Stream(sent') = Stream(handled') \o
             (Begun' \o (buffer' \o (wire' \o (unsent' \o lost))))
    BY <1>1, <2>4, <2>5, <2>6, <2>7, <2>8, <2>9, Zenon
  <2>11. ~broken' => lost = <<>>
    BY <1>1, <2>1
  <2> QED BY <2>10, <2>11 DEF NothingIsMixed
<1>12. EndsAtOversized'
  BY <1>6 DEF EndsAtOversized
<1>13. (Len(buffer) <= Wanted)'
  <2>1. "u16" \in Kinds /\ "u32" \in Kinds
    BY DEF Kinds
  <2>2. HeaderSize \in Nat /\ Len(<<>>) = 0
    BY <2>1, WidthIs DEF HeaderSize
  <2> QED BY <1>1, <2>2 DEF Wanted
<1> QED BY <1>9, <1>10, <1>11, <1>12, <1>13 DEF FramingInv

-----------------------------------------------------------------------------
(* Theorems. *)

\* Wherever the pieces end and the connection breaks, what the reader has is the
\* beginning of what follows the messages it has handled.
THEOREM StreamsAreWhole == Spec => []FramingInv
<1>1. Init => FramingInv
  <2> SUFFICES ASSUME Init PROVE FramingInv
    OBVIOUS
  <2>1. FramingTypes
    <3>1. <<>> \in Bytes /\ <<>> \in Seq(Message)
      BY DEF Bytes
    <3> QED BY <3>1 DEF Init, FramingTypes
  <2>2. HandledIsStart
    BY DEF Init, HandledIsStart
  <2>3. NothingIsMixed
    <3>1. <<>> \o <<>> = <<>> /\ <<>> \in Bytes
      BY Concatenates DEF Bytes
    <3>2. Stream(<<>>) = <<>>
      <4>1. <<>> \in Seq(Message)
        OBVIOUS
      <4> QED BY <4>1, StreamIs
    <3>3. Begun = <<>>
      BY DEF Init, Begun
    <3> QED BY <3>1, <3>2, <3>3 DEF Init, NothingIsMixed
  <2>4. EndsAtOversized
    BY DEF Init, EndsAtOversized
  <2>5. Len(buffer) <= Wanted
    <3>1. "u16" \in Kinds /\ "u32" \in Kinds /\ Len(<<>>) = 0
      BY DEF Kinds
    <3>2. HeaderSize \in Nat
      BY <3>1, WidthIs DEF HeaderSize
    <3> QED BY <3>1, <3>2 DEF Init, Wanted
  <2> QED BY <2>1, <2>2, <2>3, <2>4, <2>5 DEF FramingInv
<1>2. FramingInv /\ [Next]_vars => FramingInv'
  <2> SUFFICES ASSUME FramingInv, [Next]_vars PROVE FramingInv'
    OBVIOUS
  <2>1. ASSUME NEW m \in Message, Send(m) PROVE FramingInv'
    BY <2>1, SendKeeps
  <2>2. ASSUME NEW n \in Pieces, SendAll(n) PROVE FramingInv'
    BY <2>2, SendAllKeeps
  <2>3. CASE Break
    BY <2>3, BreakKeeps
  <2>4. ASSUME NEW n \in Pieces, ReceiveSome(n) PROVE FramingInv'
    BY <2>4, ReceiveSomeKeeps
  <2>5. CASE ConnectionClosed \/ RefuseFrame
    BY <2>5, StoppedKeeps
  <2>6. CASE ReadFrameHeader
    BY <2>6, ReadFrameHeaderKeeps
  <2>7. CASE Dispatch
    BY <2>7, DispatchKeeps
  <2>8. CASE UNCHANGED vars
    <3>1. /\ FramingTypes' /\ HandledIsStart' /\ EndsAtOversized'
          /\ (Len(buffer) <= Wanted)'
      BY <2>8 DEF vars, FramingInv, FramingTypes, HandledIsStart, EndsAtOversized,
                  Complete, Wanted
    <3>2. NothingIsMixed'
      BY <2>8 DEF vars, FramingInv, NothingIsMixed, Begun
    <3> QED BY <3>1, <3>2 DEF FramingInv
  <2> QED BY <2>1, <2>2, <2>3, <2>4, <2>5, <2>6, <2>7, <2>8 DEF Next, Reader
<1> QED BY <1>1, <1>2, PTL DEF Spec

\* The handlers are given what was sent, in order, whatever the pieces and wherever
\* the connection breaks, and part of a payload never decodes.
THEOREM HandledAsTheyWereSent == Spec => []HandledAsSent
<1>1. FramingInv => HandledAsSent
  <2> SUFFICES ASSUME FramingInv PROVE HandledAsSent
    OBVIOUS
  <2>1. IsPrefix(handled, sent)
    <3>1. /\ handled \in Seq(Message) /\ sent \in Seq(Message)
          /\ Len(handled) <= Len(sent) /\ handled = SubSeq(sent, 1, Len(handled))
      BY DEF FramingInv, FramingTypes, HandledIsStart
    <3>2. SubSeq(handled, 1, Len(handled)) = handled
      BY <3>1
    <3> QED BY <3>1, <3>2 DEF IsPrefix
  <2>2. ASSUME header # NoHeader, ~Complete
        PROVE  ~Decode(header.topic, buffer).ok
    <3> DEFINE m == sent[Len(handled) + 1]
               payload == Encode(m.topic, m.body)
    <3>1. /\ m \in Message /\ header.topic = m.topic /\ Len(buffer) < Len(payload)
      BY <2>2, WantedIs DEF Complete, HeaderOf
    <3>2. Agrees(buffer, 0, payload) /\ buffer \in Seq(Byte)
      BY <2>2, <3>1, ReaderIsAt DEF FramingInv, FramingTypes, Bytes
    <3>3. (\E i \in DOMAIN Topics : Topics[i] = m.topic) /\ IsBody(m.topic, m.body)
      BY <3>1, MessagesAre
    <3> QED BY <3>1, <3>2, <3>3, MessageIsDecoded
  <2> QED BY <2>1, <2>2 DEF HandledAsSent
<1> QED BY <1>1, StreamsAreWhole, PTL

\* While the connection stands, a reader that has ended, or waits for more than was
\* sent, has handled every message up to the first that did not fit.
THEOREM WhatIsSentIsHandled == Spec => []SentIsHandled
<1>1. FramingInv => SentIsHandled
  <2> SUFFICES ASSUME FramingInv, ~broken,
                      ~reading \/ (unsent = <<>> /\ wire = <<>> /\ ~Complete),
                      NEW k \in DOMAIN sent, \A i \in 1 .. k : Fits(sent[i]),
                      k > Len(handled)
               PROVE  FALSE
    <3>1. /\ Len(handled) \in Nat
          /\ \A k \in DOMAIN sent : k \in Nat
      BY DEF FramingInv, FramingTypes
    <3> QED BY <3>1 DEF SentIsHandled
  <2> DEFINE m == sent[Len(handled) + 1]
  <2>1. /\ Len(handled) \in Nat /\ Len(sent) \in Nat /\ DOMAIN sent = 1 .. Len(sent)
    BY DEF FramingInv, FramingTypes
  <2>2. Len(handled) < Len(sent) /\ Len(handled) + 1 \in 1 .. k
    BY <2>1
  <2>3. m \in Message /\ Fits(m)
    BY <2>2, ReaderIsAt DEF FramingInv
  <2>4. CASE ~reading
    <3>1. /\ header = NoHeader /\ Len(buffer) = HeaderSize
          /\ Oversized(DecodeHeader(buffer).length)
      BY <2>4 DEF FramingInv, EndsAtOversized, Complete, Wanted
    <3>2. buffer = HeaderBytes(m)
      BY <3>1, ReaderIsAt DEF FramingInv
    <3> DEFINE payload == Encode(m.topic, m.body)
               hb == HeaderBytes(m)
    <3>3. /\ Frames[m] = hb \o payload /\ hb \in Bytes /\ payload \in Bytes
          /\ Len(hb) = HeaderSize /\ DecodeHeader(hb).length = Len(payload)
      <4>1. DecodeHeader(hb) = HeaderOf(m)
        BY <2>3, FrameIs
      <4>2. HeaderOf(m).length = Len(payload)
        BY DEF HeaderOf
      <4> QED BY <2>3, <4>1, <4>2, FrameIs
    <3> HIDE DEF m, hb, payload
    <3>4. Len(hb \o payload) = Len(hb) + Len(payload) /\ Len(hb) \in Nat /\ Len(payload) \in Nat
      BY <3>3, Concatenates
    <3>5. Len(payload) > MaxMessageBytes
      BY <3>1, <3>2, <3>3 DEF Oversized, hb
    <3>6. Len(Frames[m]) - HeaderSize <= MaxMessageBytes
      BY <2>3 DEF Fits
    <3> QED BY <3>3, <3>4, <3>5, <3>6, FramingAssumption
  <2>5. CASE unsent = <<>> /\ wire = <<>> /\ ~Complete
    <3>1. Len(buffer) >= Wanted
      BY <2>2, <2>5, ReaderIsAt DEF FramingInv
    <3>2. Wanted \in Nat /\ Len(buffer) \in Nat /\ Len(buffer) <= Wanted
      BY WantedIs
    <3> QED BY <2>5, <3>1, <3>2 DEF Complete
  <2> QED BY <2>4, <2>5
<1> QED BY <1>1, StreamsAreWhole, PTL

-----------------------------------------------------------------------------
(* Digests. *)

\* The product of two powers is the power of the sum.
LEMMA PowersMultiply ==
    ASSUME NEW b \in Nat \ {0}, NEW m \in Nat, NEW n \in Nat
    PROVE  Power(b, m + n) = Power(b, m) * Power(b, n)
<1> DEFINE S == {k \in Nat : Power(b, m + k) = Power(b, m) * Power(b, k)}
<1>1. 0 \in S
  <2>1. Power(b, 0) = 1 /\ Power(b, m) \in Nat /\ m + 0 = m
    BY PowerIs, PowerIsNat
  <2> QED BY <2>1
<1>2. ASSUME NEW k \in Nat, k \in S PROVE k + 1 \in S
  <2> DEFINE x == Power(b, m)
             y == Power(b, k)
  <2>1. x \in Nat /\ y \in Nat
    BY PowerIsNat
  <2>2. Power(b, k + 1) = b * y
    BY PowerIs
  <2>3. Power(b, (m + k) + 1) = b * Power(b, m + k)
    BY PowerIs
  <2>4. Power(b, m + k) = x * y
    BY <1>2
  <2>5. m + (k + 1) = (m + k) + 1
    OBVIOUS
  <2> HIDE DEF x, y
  <2>6. b * (x * y) = x * (b * y)
    BY <2>1
  <2>7. Power(b, m + (k + 1)) = x * Power(b, k + 1)
    BY <2>2, <2>3, <2>4, <2>5, <2>6
  <2> QED BY <2>7 DEF x
<1>3. n \in S
  <2> HIDE DEF S
  <2> QED BY <1>1, <1>2, SetInduction
<1> QED BY <1>3

\* The powers of a number grow.
LEMMA PowersGrow ==
    ASSUME NEW b \in Nat \ {0}, NEW m \in Nat, NEW n \in Nat, m <= n
    PROVE  Power(b, m) <= Power(b, n)
<1>1. n - m \in Nat /\ m + (n - m) = n
  OBVIOUS
<1>2. Power(b, m + (n - m)) = Power(b, m) * Power(b, n - m)
  BY <1>1, PowersMultiply
<1>3. Power(b, m) \in Nat \ {0} /\ Power(b, n - m) \in Nat \ {0}
  BY <1>1, PowerIsNat
<1>4. \A x, y \in Nat \ {0} : x <= x * y
  OBVIOUS
<1> QED BY <1>1, <1>2, <1>3, <1>4

\* A byte that is not zero has a first one.
LEMMA ZerosAre ==
    ASSUME NEW byte \in Byte, byte # 0
    PROVE  /\ ZerosOf(byte) \in 0 .. ByteBits - 1
           /\ byte < Power(2, ByteBits - ZerosOf(byte))
<1> DEFINE T == {n \in Nat : byte < Power(2, n)}
<1>1. ByteBits \in Nat \ {0} /\ Base = Power(2, ByteBits) /\ byte \in Nat /\ byte < Base
  BY PowAssumption, WidthIs DEF Byte
<1>2. PICK n \in T : \A k \in T : ~(k < n)
  <2>1. ByteBits \in T
    BY <1>1
  <2>2. T \in SUBSET Nat /\ T # {}
    BY <2>1
  <2> HIDE DEF T
  <2> QED BY <2>2, LeastNumber
<1>3. n \in Nat /\ byte < Power(2, n) /\ n <= ByteBits
  BY <1>1, <1>2
<1>4. n # 0
  BY <1>1, <1>3, PowerIs
<1>5. n - 1 \in Nat /\ n - 1 \notin T
  BY <1>2, <1>3, <1>4
<1>6. Power(2, n - 1) <= byte
  BY <1>1, <1>5, PowerIsNat
<1> DEFINE Zeros(z) == /\ Power(2, ByteBits - 1 - z) <= byte
                       /\ byte < Power(2, ByteBits - z)
<1>7. ByteBits - n \in 0 .. ByteBits - 1 /\ Zeros(ByteBits - n)
  <2>1. /\ ByteBits - n \in 0 .. ByteBits - 1
        /\ ByteBits - (ByteBits - n) = n /\ ByteBits - 1 - (ByteBits - n) = n - 1
    BY <1>1, <1>3, <1>4
  <2> QED BY <2>1, <1>3, <1>6
<1>8. ZerosOf(byte) = CHOOSE z \in 0 .. ByteBits - 1 : Zeros(z)
  BY DEF ZerosOf
<1>9. ZerosOf(byte) \in 0 .. ByteBits - 1 /\ Zeros(ZerosOf(byte))
  <2> HIDE DEF Zeros
  <2> QED BY <1>7, <1>8
<1> QED BY <1>9

\* The number of a digest is made from its first byte to its last.
LEMMA NumberRuns ==
    ASSUME NEW s \in Seq(Byte)
    PROVE  \E run :
              /\ run[0] = 0
              /\ \A k \in 1 .. Len(s) : run[k] = Base * run[k - 1] + s[k]
              /\ run[Len(s)] = Number(s)
<1> DEFINE D == 1 .. Len(s)
           Folds(h) == h = [t \in SUBSET D |->
                IF t = {} THEN 0 ELSE Base * h[t \ {Max(t)}] + s[Max(t)]]
           fold == CHOOSE h : Folds(h)
           run == [k \in 0 .. Len(s) |-> fold[1 .. k]]
<1>1. Number(s) = fold[D]
  <2>1. DOMAIN s = D
    OBVIOUS
  <2> QED BY <2>1 DEF Number, FoldLeft, MapThenFoldSet
<1>2. \E h : Folds(h)
  <2> DEFINE pick == [t \in SUBSET D |-> Max(t)]
             step == [vx \in Nat \X D |-> Base * vx[1] + s[vx[2]]]
  <2>1. \A t \in SUBSET D : t # {} => pick[t] \in t
    <3>1. Len(s) \in Nat
      OBVIOUS
    <3>2. \A t \in SUBSET D : t # {} => Max(t) \in t
      BY <3>1, MaxOfSome
    <3> QED BY <3>2
  <2>2. ASSUME NEW v \in Nat, NEW x \in D
        PROVE  step[<<v, x>>] = Base * v + s[x] /\ step[<<v, x>>] \in Nat
    <3>1. s[x] \in Nat /\ Base \in Nat
      <4>1. s[x] \in Byte
        OBVIOUS
      <4> QED BY <4>1, WidthIs DEF Byte
    <3>2. step[<<v, x>>] = Base * v + s[x]
      OBVIOUS
    <3> HIDE DEF step
    <3> QED BY <3>1, <3>2
  <2>3. IsFiniteSet(D)
    BY FS_Interval
  <2>4. PICK h \in [SUBSET D -> Nat] : IsFold(h, D, 0, pick, step)
    <3> HIDE DEF step, pick, D
    <3>1. Foldable(D, Nat, 0, pick, step)
      BY <2>1, <2>2, <2>3 DEF Foldable
    <3> QED BY <3>1, FoldExists
  <2>5. ASSUME NEW t \in SUBSET D
        PROVE  h[t] = IF t = {} THEN 0 ELSE Base * h[t \ {Max(t)}] + s[Max(t)]
    <3>1. pick[t] = Max(t)
      OBVIOUS
    <3> HIDE DEF step, pick
    <3>2. CASE t = {}
      BY <3>2, <2>4 DEF IsFold
    <3>3. CASE t # {}
      <4>1. pick[t] \in D /\ h[t \ {pick[t]}] \in Nat
        BY <2>1, <3>3
      <4> QED BY <3>1, <3>3, <4>1, <2>2, <2>4 DEF IsFold
    <3> QED BY <3>2, <3>3
  <2>6. Folds(h)
    BY <2>5
  <2> HIDE DEF Folds
  <2> QED BY <2>6
<1>3. Folds(fold)
  <2> HIDE DEF Folds
  <2> QED BY <1>2
<1>4. fold[{}] = 0 /\ \A t \in SUBSET D : t # {} =>
         fold[t] = Base * fold[t \ {Max(t)}] + s[Max(t)]
  <2> HIDE DEF fold
  <2> QED BY <1>3
<1> HIDE DEF fold, Folds
<1>5. run[0] = 0 /\ run[Len(s)] = fold[D]
  BY <1>4
<1>6. ASSUME NEW k \in 1 .. Len(s) PROVE run[k] = Base * run[k - 1] + s[k]
  <2>1. 1 .. k \in SUBSET D /\ 1 .. k # {} /\ k - 1 \in 0 .. Len(s)
    <3>1. k \in 1 .. k /\ Len(s) \in Nat
      OBVIOUS
    <3>2. \A i \in 1 .. k : i \in D
      BY <3>1
    <3>3. 1 .. k \in SUBSET D
      BY <3>2
    <3>4. k - 1 \in 0 .. Len(s)
      BY <3>1
    <3>5. 1 .. k # {}
      BY <3>1
    <3> QED BY <3>3, <3>4, <3>5
  <2>2. fold[1 .. k] = Base * fold[1 .. k - 1] + s[k]
    <3>1. Max(1 .. k) = k /\ (1 .. k) \ {k} = 1 .. k - 1
      BY PrefixIndices
    <3> QED BY <1>4, <2>1, <3>1
  <2> QED BY <2>1, <2>2
<1> QED BY <1>1, <1>5, <1>6

\* A digest whose bytes before one are zero, and that one below a power of two, is
\* below that power by the bits of the bytes that follow.
LEMMA NumberIsBelow ==
    ASSUME NEW s \in Seq(Byte), NEW first \in 1 .. Len(s),
           \A i \in 1 .. first - 1 : s[i] = 0,
           NEW e \in Nat, s[first] < Power(2, e)
    PROVE  /\ Number(s) \in Nat
           /\ Number(s) < Power(2, e + (Len(s) - first) * ByteBits)
<1> DEFINE n == Len(s)
<1>1. PICK run : /\ run[0] = 0
                 /\ \A k \in 1 .. n : run[k] = Base * run[k - 1] + s[k]
                 /\ run[n] = Number(s)
  BY NumberRuns
<1>2. /\ n \in Nat /\ Base \in Nat /\ ByteBits \in Nat /\ Base = Power(2, ByteBits)
      /\ \A k \in 1 .. n : s[k] \in 0 .. Base - 1
  <2>1. \A k \in 1 .. n : s[k] \in Byte
    OBVIOUS
  <2>2. n \in Nat
    OBVIOUS
  <2> HIDE DEF n
  <2> QED BY <2>1, <2>2, PowAssumption, WidthIs DEF Byte
<1>3. first \in Nat /\ first - 1 \in Nat /\ first <= n /\ n - first \in Nat
  BY <1>2
<1> HIDE DEF n
<1> DEFINE Z == {k \in Nat : run[k] = 0}
<1>4. run[first - 1] = 0
  <2>1. 0 \in Z
    BY <1>1
  <2>2. ASSUME NEW k \in 1 .. first - 1, k - 1 \in Z PROVE k \in Z
    <3>1. k \in 1 .. n /\ k \in Nat /\ s[k] = 0
      BY <1>2, <1>3
    <3>2. run[k] = Base * run[k - 1] + s[k]
      BY <1>1, <3>1
    <3> QED BY <1>2, <2>2, <3>1, <3>2
  <2>3. \A k \in 0 .. first - 1 : k \in Z
    <3> HIDE DEF Z
    <3> QED BY <1>3, <2>1, <2>2, BoundedInduction
  <2>4. first - 1 \in 0 .. first - 1
    BY <1>3
  <2> QED BY <2>3, <2>4
<1>5. run[first] \in Nat /\ run[first] < Power(2, e)
  <2>1. run[first] = Base * run[first - 1] + s[first] /\ s[first] \in Nat
    BY <1>1, <1>2, <1>3
  <2> QED BY <1>2, <1>4, <2>1
<1> DEFINE B == {j \in Nat : /\ run[first + j] \in Nat
                             /\ run[first + j] < Power(2, e + j * ByteBits)}
<1>6. 0 \in B
  <2>1. first + 0 = first /\ e + 0 * ByteBits = e
    BY <1>2, <1>3
  <2> QED BY <1>5, <2>1
<1>7. ASSUME NEW j \in 1 .. n - first, j - 1 \in B PROVE j \in B
  <2>1. /\ first + j \in 1 .. n /\ (first + j) - 1 = first + (j - 1)
        /\ j - 1 \in Nat /\ j \in Nat
    BY <1>2, <1>3
  <2> DEFINE before == run[first + (j - 1)]
             d == e + (j - 1) * ByteBits
             p == Power(2, d)
  <2>2. before \in Nat /\ before < p
    BY <1>7
  <2>3. run[first + j] = Base * before + s[first + j] /\ s[first + j] \in 0 .. Base - 1
    BY <1>1, <1>2, <2>1
  <2>4. d \in Nat /\ d + ByteBits = e + j * ByteBits
    <3>1. (j - 1) * ByteBits \in Nat /\ (j - 1) * ByteBits + ByteBits = j * ByteBits
      BY <1>2, <2>1
    <3> QED BY <3>1, <1>2
  <2> HIDE DEF d
  <2>5. Power(2, d + ByteBits) = p * Base /\ p \in Nat
    <3>1. 2 \in Nat \ {0}
      OBVIOUS
    <3>2. Power(2, d + ByteBits) = Power(2, d) * Power(2, ByteBits)
      BY <1>2, <2>4, <3>1, PowersMultiply
    <3>3. Power(2, d) \in Nat
      BY <2>4, <3>1, PowerIsNat
    <3> QED BY <1>2, <3>2, <3>3
  <2> HIDE DEF before, p
  <2> DEFINE s0 == s[first + j]
             m == Base * before
             q == p * Base
  <2>6. s0 \in Nat /\ s0 < Base
    BY <1>2, <2>3
  <2>7. m \in Nat /\ q \in Nat /\ m + Base <= q
    <3>1. before + 1 <= p
      BY <2>2, <2>5
    <3>2. Base * (before + 1) <= Base * p /\ Base * (before + 1) = m + Base
      BY <1>2, <2>2, <2>5, <3>1
    <3>3. Base * p = p * Base /\ p * Base \in Nat /\ Base * before \in Nat
      BY <1>2, <2>2, <2>5
    <3> QED BY <3>2, <3>3
  <2>8. run[first + j] = m + s0
    BY <2>3
  <2>9. Power(2, e + j * ByteBits) = q
    BY <2>4, <2>5
  <2> HIDE DEF m, q, s0
  <2>10. m + s0 \in Nat /\ m + s0 < q
    BY <1>2, <2>6, <2>7
  <2> QED BY <2>1, <2>8, <2>9, <2>10
<1>8. n - first \in B
  <2> HIDE DEF B
  <2>1. \A j \in 0 .. n - first : j \in B
    BY <1>3, <1>6, <1>7, BoundedInduction
  <2>2. n - first \in 0 .. n - first
    BY <1>3
  <2> QED BY <2>1, <2>2
<1>9. first + (n - first) = n
  BY <1>2, <1>3
<1> QED BY <1>1, <1>8, <1>9 DEF n

\* A digest of zeros is zero.
LEMMA NumberIsZero ==
    ASSUME NEW s \in Seq(Byte), \A i \in 1 .. Len(s) : s[i] = 0
    PROVE  Number(s) = 0
<1> DEFINE n == Len(s)
<1>1. PICK run : /\ run[0] = 0
                 /\ \A k \in 1 .. n : run[k] = Base * run[k - 1] + s[k]
                 /\ run[n] = Number(s)
  BY NumberRuns
<1>2. n \in Nat /\ Base \in Nat
  BY WidthIs
<1>3. \A k \in 1 .. n : s[k] = 0
  OBVIOUS
<1> HIDE DEF n
<1> DEFINE Z == {k \in Nat : run[k] = 0}
<1>4. 0 \in Z
  BY <1>1
<1>5. ASSUME NEW k \in 1 .. n, k - 1 \in Z PROVE k \in Z
  <2>1. run[k] = Base * run[k - 1] + s[k]
    BY <1>1
  <2> QED BY <1>2, <1>3, <1>5, <2>1
<1>6. n \in 0 .. n
  BY <1>2
<1>7. n \in Z
  <2> HIDE DEF Z
  <2> QED BY <1>2, <1>4, <1>5, <1>6, BoundedInduction
<1> QED BY <1>1, <1>7

\* The bits meetsDifficulty counts are those the number of a digest lacks.
LEMMA DigestIsBelow ==
    ASSUME NEW s \in Seq(Byte), Len(s) = Width["hash"], NEW bits \in Difficulties,
           MeetsDifficulty(s, bits)
    PROVE  Number(s) < Power(2, HashBits - bits)
<1> DEFINE w == Width["hash"]
           others == {i \in DOMAIN s : s[i] # 0}
           first == CHOOSE i \in others : \A j \in others : i <= j
<1>1. w \in Nat \ {0} /\ ByteBits \in Nat \ {0} /\ Len(s) = w /\ DOMAIN s = 1 .. w
  <2>1. "hash" \in Kinds
    BY DEF Kinds
  <2>2. DOMAIN s = 1 .. Len(s)
    OBVIOUS
  <2>3. w \in Nat \ {0}
    BY <2>1, WidthIs
  <2> QED BY <2>2, <2>3, PowAssumption
<1>2. HashBits = w * ByteBits /\ HashBits \in Nat /\ bits \in Nat /\ HashBits - bits \in Nat
  BY <1>1 DEF HashBits, Difficulties
<1>3. 2 \in Nat \ {0}
  OBVIOUS
<1> HIDE DEF w
<1>4. CASE others = {}
  <2>1. \A i \in 1 .. Len(s) : s[i] = 0
    BY <1>1, <1>4
  <2>2. Number(s) = 0
    BY <2>1, NumberIsZero
  <2>3. Power(2, HashBits - bits) \in Nat \ {0}
    BY <1>2, <1>3, PowerIsNat
  <2> QED BY <2>2, <2>3
<1>5. CASE others # {}
  <2>1. first \in others /\ \A j \in others : first <= j
    <3>1. others \in SUBSET Nat
      BY <1>1
    <3>2. PICK x \in others : \A y \in others : ~(y < x)
      BY <3>1, <1>5, LeastNumber
    <3>3. \A y \in others : x <= y
      BY <3>1, <3>2
    <3> HIDE DEF others
    <3> QED BY <3>2, <3>3
  <2> DEFINE z == ZerosOf(s[first])
  <2>2. (first - 1) * ByteBits + z >= bits
    BY <1>5 DEF MeetsDifficulty
  <2>3. first \in 1 .. w /\ s[first] # 0 /\ s[first] \in Byte
    <3>1. first \in DOMAIN s /\ s[first] # 0
      <4> HIDE DEF first
      <4> QED BY <2>1
    <3> HIDE DEF first
    <3> QED BY <1>1, <3>1
  <2>4. \A i \in 1 .. first - 1 : s[i] = 0
    <3> HIDE DEF first
    <3> SUFFICES ASSUME NEW i \in 1 .. first - 1, s[i] # 0 PROVE FALSE
      OBVIOUS
    <3>1. i \in DOMAIN s
      BY <1>1, <2>3
    <3>2. i \in others
      BY <3>1
    <3>3. first <= i
      BY <2>1, <3>2
    <3> QED BY <2>3, <3>3
  <2> HIDE DEF others, first
  <2>5. z \in 0 .. ByteBits - 1 /\ s[first] < Power(2, ByteBits - z)
    BY <2>3, ZerosAre
  <2> HIDE DEF z
  <2>6. ByteBits - z \in Nat /\ first \in 1 .. Len(s)
    BY <1>1, <2>3, <2>5
  <2> DEFINE e == (ByteBits - z) + (Len(s) - first) * ByteBits
  <2>7. Number(s) \in Nat /\ Number(s) < Power(2, e)
    BY <2>4, <2>5, <2>6, NumberIsBelow
  <2>8. e \in Nat /\ e <= HashBits - bits
    <3>1. /\ (w - first) * ByteBits \in Nat /\ (first - 1) * ByteBits \in Nat
          /\ (w - first) * ByteBits + (first - 1) * ByteBits + ByteBits = w * ByteBits
      BY <1>1, <2>3
    <3> DEFINE after == (w - first) * ByteBits
               before == (first - 1) * ByteBits
               all == w * ByteBits
    <3>2. e = ByteBits - z + after
      BY <1>1
    <3>3. after \in Nat /\ before \in Nat /\ after + before + ByteBits = all /\ HashBits = all
      BY <3>1, <1>2
    <3>4. before + z >= bits
      BY <2>2
    <3> HIDE DEF e, after, before, all
    <3> QED BY <1>1, <1>2, <2>5, <3>2, <3>3, <3>4
  <2> HIDE DEF e
  <2>9. Power(2, e) <= Power(2, HashBits - bits) /\ Power(2, e) \in Nat
        /\ Power(2, HashBits - bits) \in Nat
    BY <1>2, <1>3, <2>8, PowersGrow, PowerIsNat
  <2> QED BY <2>7, <2>9
<1> QED BY <1>4, <1>5

-----------------------------------------------------------------------------
(* Sealing. *)

\* The draft is the one that was prepared on the head, with some nonce; what is
\* sealed meets the difficulty.
PowInv ==
    /\ head \in Heads /\ difficulty \in Difficulties
    /\ \E d \in Drafts, n \in Values("u64") : draft = WriteNonce(Prepare(d, head), n)
    /\ nonce \in Values("u64")
    /\ outcome = "sealed" => Meets(draft)

\* Writing a nonce over another leaves the other out.
LEMMA NonceIsReplaced ==
    ASSUME NEW h, NEW m, NEW n
    PROVE  WriteNonce(WriteNonce(h, m), n) = WriteNonce(h, n)
BY DEF WriteNonce

LEMMA PowInitIs == PowInit => PowInv
<1> SUFFICES ASSUME PowInit PROVE PowInv
  OBVIOUS
<1>1. 0 \in Values("u64")
  <2>1. "u64" \in Kinds
    BY DEF Kinds
  <2> QED BY <2>1, SmallValues
<1>2. PICK d \in Drafts : draft = Prepare(d, head)
  BY DEF PowInit
<1>3. draft = WriteNonce(Prepare(d, head), 0)
  BY <1>2, NonceIsReplaced DEF Prepare
<1>4. head \in Heads /\ difficulty \in Difficulties /\ nonce = 0 /\ outcome = "none"
  BY DEF PowInit
<1> QED BY <1>1, <1>3, <1>4 DEF PowInv

LEMMA PowStepKeeps == PowInv /\ [PowNext]_powVars => PowInv'
<1> SUFFICES ASSUME PowInv, [PowNext]_powVars PROVE PowInv'
  OBVIOUS
<1> USE DEF PowInv
<1>1. CASE Cancelled
  BY <1>1 DEF Cancelled, Meets
<1>2. CASE TryNonce
  <2>1. head' = head /\ difficulty' = difficulty
    BY <1>2 DEF TryNonce
  <2>2. PICK d \in Drafts, n \in Values("u64") : draft = WriteNonce(Prepare(d, head), n)
    OBVIOUS
  <2>3. draft' = WriteNonce(Prepare(d, head), nonce)
    BY <1>2, <2>2, NonceIsReplaced DEF TryNonce
  <2>4. nonce' \in Values("u64") /\ (outcome' = "sealed" => Meets(draft'))
    BY <1>2 DEF TryNonce
  <2>5. Meets(draft)' = Meets(draft')
    BY <2>1 DEF Meets
  <2>6. (head \in Heads /\ difficulty \in Difficulties)'
    BY <2>1
  <2>7. (\E c \in Drafts, m \in Values("u64") : draft = WriteNonce(Prepare(c, head), m))'
    BY <2>1, <2>3
  <2> QED BY <2>4, <2>5, <2>6, <2>7
<1>3. CASE UNCHANGED powVars
  BY <1>3 DEF powVars, Meets
<1> QED BY <1>1, <1>2, <1>3 DEF PowNext

\* What names and kinds the fields of a header have.
LEMMA HeaderFieldsAre ==
    ASSUME NEW i \in DOMAIN HeaderFields
    PROVE  /\ HeaderFields[i][1] \in Names(HeaderFields)
           /\ HeaderFields[i][1] = "timestamp" => HeaderFields[i][2] = "u64"
           /\ HeaderFields[i][1] = "consensusSeal" => HeaderFields[i][2] = "bytes"
           /\ HeaderFields[i][1] # "extensions"
<1>1. HeaderFields[i][1] \in Names(HeaderFields)
  BY DEF Names
<1>2. i \in 1 .. 9
  BY DEF HeaderFields
<1>3. /\ HeaderFields[i][1] = "timestamp" => HeaderFields[i][2] = "u64"
      /\ HeaderFields[i][1] = "consensusSeal" => HeaderFields[i][2] = "bytes"
      /\ HeaderFields[i][1] # "extensions"
  BY <1>2 DEF HeaderFields
<1> QED BY <1>1, <1>3

\* A prepared draft is a header that follows the head.
LEMMA DraftIs ==
    ASSUME NEW d \in Drafts, NEW h \in Heads, NEW n \in Values("u64")
    PROVE  LET made == WriteNonce(Prepare(d, h), n)
           IN  /\ IsHeader(made)
               /\ made.height = h.height + 1
               /\ Len(made.consensusSeal) = Width["u64"]
               /\ h.timestamp + 1 \in Values("u64") => made.timestamp > h.timestamp
<1> DEFINE last == Power(Base, Width["u64"])
           ts == IF d.timestamp <= h.timestamp THEN (h.timestamp + 1) % last
                 ELSE d.timestamp
           le == LittleEndian(n, "u64")
           made == WriteNonce(Prepare(d, h), n)
<1>1. made = [x \in DOMAIN d |-> IF x = "consensusSeal" THEN le
                                 ELSE IF x = "timestamp" THEN ts ELSE d[x]]
  <2> DEFINE moved == [d EXCEPT !.timestamp =
                         IF @ <= h.timestamp THEN (h.timestamp + 1) % last ELSE @]
  <2>1. made = WriteNonce(moved, n)
    BY NonceIsReplaced DEF Prepare
  <2>2. moved = [x \in DOMAIN d |-> IF x = "timestamp" THEN ts ELSE d[x]]
    OBVIOUS
  <2> HIDE DEF moved, ts, last
  <2>3. made = [x \in DOMAIN d |-> IF x = "consensusSeal" THEN le ELSE moved[x]]
    BY <2>1, <2>2 DEF WriteNonce
  <2> QED BY <2>2, <2>3
<1>2. IsHeader(d) /\ IsHeader(h) /\ d.height = h.height + 1
  BY HeadersAssumption
<1>3. d = [x \in Names(HeaderFields) \cup {"extensions"} |-> d[x]]
  BY <1>2 DEF IsHeader
<1>4. "height" \in Names(HeaderFields) /\ "timestamp" \in Names(HeaderFields)
      /\ "consensusSeal" \in Names(HeaderFields)
  <2>1. /\ 5 \in DOMAIN HeaderFields /\ HeaderFields[5][1] = "height"
        /\ 6 \in DOMAIN HeaderFields /\ HeaderFields[6][1] = "timestamp"
        /\ 9 \in DOMAIN HeaderFields /\ HeaderFields[9][1] = "consensusSeal"
    BY DEF HeaderFields
  <2> QED BY <2>1 DEF Names
<1>5. "u64" \in Kinds /\ le \in Seq(Byte) /\ Len(le) = Width["u64"]
  <2>1. "u64" \in Kinds
    BY DEF Kinds
  <2> QED BY <2>1, DigitsAre
<1>6. last \in Nat \ {0} /\ Values("u64") = 0 .. last - 1
  <2>1. Base \in Nat \ {0} /\ Width["u64"] \in Nat
    BY <1>5, WidthIs
  <2> QED BY <2>1, PowerIsNat DEF Values
<1>7. d.timestamp \in Values("u64") /\ h.timestamp \in Values("u64")
  <2>1. 6 \in DOMAIN HeaderFields /\ HeaderFields[6][1] = "timestamp" /\ HeaderFields[6][2] = "u64"
    BY DEF HeaderFields
  <2>2. IsKind(d.timestamp, "u64") /\ IsKind(h.timestamp, "u64")
    BY <1>2, <2>1 DEF IsHeader, HasFields
  <2> QED BY <2>2 DEF IsKind, Fixed, LengthOf
<1> HIDE DEF made, le, last
<1>8. ts \in Values("u64") /\ (h.timestamp + 1 \in Values("u64") => ts > h.timestamp)
  <2>1. CASE d.timestamp <= h.timestamp
    <3>1. ts = (h.timestamp + 1) % last
      BY <2>1
    <3>2. h.timestamp + 1 \in Nat /\ h.timestamp \in Nat
      BY <1>6, <1>7
    <3> HIDE DEF ts
    <3>3. ts \in Values("u64")
      BY <1>6, <3>1, <3>2
    <3>4. h.timestamp + 1 \in 0 .. last - 1 => (h.timestamp + 1) % last = h.timestamp + 1
      BY <1>6, <3>2
    <3> QED BY <1>6, <3>1, <3>2, <3>3, <3>4
  <2>2. CASE ~(d.timestamp <= h.timestamp)
    BY <1>6, <1>7, <2>2
  <2> QED BY <2>1, <2>2
<1> HIDE DEF ts
<1>9. made.height = d.height /\ made.timestamp = ts /\ made.consensusSeal = le
  BY <1>1, <1>3, <1>4
<1>10. made = [x \in Names(HeaderFields) \cup {"extensions"} |-> made[x]]
  BY <1>1, <1>3
<1>11. made.extensions = d.extensions
  BY <1>1, <1>3
<1>12. HasFields(made, HeaderFields)
  <2> SUFFICES ASSUME NEW i \in DOMAIN HeaderFields
               PROVE  IsKind(made[HeaderFields[i][1]], HeaderFields[i][2])
    BY DEF HasFields
  <2> DEFINE name == HeaderFields[i][1]
             kind == HeaderFields[i][2]
  <2>1. /\ name \in Names(HeaderFields)
        /\ name = "timestamp" => kind = "u64"
        /\ name = "consensusSeal" => kind = "bytes"
    BY HeaderFieldsAre
  <2>2. IsKind(d[name], kind)
    BY <1>2 DEF IsHeader, HasFields
  <2> HIDE DEF name, kind
  <2>3. CASE name = "timestamp"
    BY <1>8, <1>9, <2>1, <2>3 DEF IsKind, Fixed, LengthOf, name, kind
  <2>4. CASE name = "consensusSeal"
    <3>1. Len(le) \in Values("u64")
      BY <1>5, SmallValues
    <3>2. IsKind(le, "bytes")
      BY <1>5, <3>1 DEF IsKind, Fixed, LengthOf
    <3> QED BY <1>9, <2>1, <2>4, <3>2 DEF name, kind
  <2>5. CASE name # "timestamp" /\ name # "consensusSeal"
    <3>1. made[name] = d[name]
      BY <1>1, <1>3, <2>1, <2>5
    <3> QED BY <2>2, <3>1 DEF name, kind
  <2> QED BY <2>3, <2>4, <2>5
<1>13. IsHeader(made)
  BY <1>2, <1>10, <1>11, <1>12 DEF IsHeader
<1> QED BY <1>2, <1>5, <1>8, <1>9, <1>13 DEF made

\* The draft that is sealed stays the one that was prepared.
THEOREM DraftStaysPrepared == PowSpec => []PowInv
BY PowInitIs, PowStepKeeps, PTL DEF PowSpec

\* What seal() returns decodes to itself and passes verify() against the head it was
\* made on, and its digest is a number below 2^(256 - difficulty), unless the head's
\* timestamp is the last there is.
THEOREM SealedStaysVerified == PowSpec => []SealedIsVerified
<1>1. PowInv => SealedIsVerified
  <2> SUFFICES ASSUME PowInv, outcome = "sealed", head.timestamp + 1 \in Values("u64")
               PROVE  LET read == ReadHeader(EncodeHeader(draft), 0)
                      IN  /\ read.ok /\ Verify(read.value, head)
                          /\ Number(Hash(EncodeHeader(read.value))) <
                                 Power(2, HashBits - difficulty)
    BY DEF SealedIsVerified
  <2>1. PICK d \in Drafts, n \in Values("u64") : draft = WriteNonce(Prepare(d, head), n)
    BY DEF PowInv
  <2>2. head \in Heads /\ difficulty \in Difficulties /\ Meets(draft)
    BY DEF PowInv
  <2>3. /\ IsHeader(draft) /\ draft.height = head.height + 1
        /\ Len(draft.consensusSeal) = Width["u64"] /\ draft.timestamp > head.timestamp
    BY <2>1, <2>2, DraftIs
  <2>4. /\ ReadHeader(EncodeHeader(draft), 0).ok
        /\ ReadHeader(EncodeHeader(draft), 0).value = draft
    BY <2>3, HeaderIsDecoded DEF Read
  <2>5. Verify(draft, head)
    BY <2>2, <2>3 DEF Verify
  <2>6. IsKind(Hash(EncodeHeader(draft)), "hash")
    BY <2>1, <2>2, HeadersAssumption DEF Tried
  <2>7. Hash(EncodeHeader(draft)) \in Seq(Byte) /\ Len(Hash(EncodeHeader(draft))) = Width["hash"]
    BY <2>6 DEF IsKind, Fixed
  <2>8. Number(Hash(EncodeHeader(draft))) < Power(2, HashBits - difficulty)
    BY <2>2, <2>7, DigestIsBelow DEF Meets
  <2> QED BY <2>4, <2>5, <2>8
<1> QED BY <1>1, DraftStaysPrepared, PTL
=============================================================================
