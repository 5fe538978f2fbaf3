---------------------------- MODULE PacketsProofs ----------------------------
(***************************************************************************)
(* Proofs about Packets: every packet is read as it was written, whatever  *)
(* the values of its members and whatever follows it in the stream.        *)
(*                                                                         *)
(* Loops are recursive functions.  What such a function computes is proved *)
(* by induction over its steps; the library's induction theorem is used    *)
(* with sets of numbers in place of predicates (Induction below).          *)
(***************************************************************************)
EXTENDS Packets, SequenceFacts, WellFoundedInduction

-----------------------------------------------------------------------------
(* Induction and iteration. *)

\* A set of numbers that is not empty has a least element.
LEMMA Least == ASSUME NEW T, T \subseteq Nat, T # {} PROVE \E m \in T : \A k \in T : m <= k
<1> DEFINE Less == {p \in Nat \X Nat : p[1] < p[2]}
<1>0. IsWellFoundedOn(Less, Nat)
  BY NatLessThanWellFounded DEF OpToRel
<1> HIDE DEF Less
<1>1. PICK m \in T : \A y \in T : ~ (<<y, m>> \in Less)
  BY <1>0, WFMin
<1>2. \A y \in T : ~(y < m)
  BY <1>1 DEF Less
<1> QED BY <1>2

\* A set that has 0, and with each number the next, has all numbers.
LEMMA Induction == ASSUME NEW T, 0 \in T, \A n \in Nat : n \in T => n + 1 \in T PROVE Nat \subseteq T
<1> SUFFICES ASSUME NEW x \in Nat, x \notin T PROVE FALSE
  OBVIOUS
<1> DEFINE U == {y \in Nat : y \notin T}
<1>1. PICK m \in U : \A k \in U : m <= k
  <2>1. U \subseteq Nat /\ U # {} OBVIOUS
  <2> HIDE DEF U
  <2> QED BY <2>1, Least
<1>2. m - 1 \in Nat /\ m - 1 \notin U
  BY <1>1
<1> QED BY <1>1, <1>2

\* r is a run of n steps: it begins with a, and the k-th step is G[<<k, _>>].
Runs(r, n, a, G) == r[0] = a /\ \A k \in 1 .. n : r[k] = G[<<k, r[k - 1]>>]

\* There is such a run.
LEMMA Iterates ==
  ASSUME NEW S, NEW a \in S, NEW G \in [Nat \X S -> S], NEW n \in Nat
  PROVE  \E r \in [0 .. n -> S] : Runs(r, n, a, G)
<1> DEFINE Good(m, r) == Runs(r, m, a, G)
           T == {m \in Nat : \E r \in [0 .. m -> S] : Good(m, r)}
<1> USE DEF Runs
<1>1. 0 \in T
  <2>1. [k \in 0 .. 0 |-> a] \in [0 .. 0 -> S] /\ Good(0, [k \in 0 .. 0 |-> a])
    OBVIOUS
  <2> QED
    BY <2>1
<1>2. ASSUME NEW m \in Nat, m \in T
      PROVE  m + 1 \in T
  <2>1. PICK r \in [0 .. m -> S] : Good(m, r)
    BY <1>2
  <2> DEFINE q == [k \in 0 .. m + 1 |-> IF k = m + 1 THEN G[<<m + 1, r[m]>>] ELSE r[k]]
  <2>2. <<m + 1, r[m]>> \in Nat \X S
    OBVIOUS
  <2>3. q \in [0 .. m + 1 -> S]
    BY <2>2
  <2>4. Good(m + 1, q)
    <3>1. q[0] = a
      BY <2>1
    <3>2. ASSUME NEW k \in 1 .. m + 1
          PROVE  q[k] = G[<<k, q[k - 1]>>]
      <4>1. CASE k = m + 1
        <5>1. q[k] = G[<<m + 1, r[m]>>] /\ q[k - 1] = r[m]
          BY <4>1
        <5> QED
          BY <4>1, <5>1
      <4>2. CASE k \in 1 .. m
        <5>1. r[k] = G[<<k, r[k - 1]>>]
          BY <2>1, <4>2
        <5>2. q[k] = r[k] /\ q[k - 1] = r[k - 1]
          BY <4>2
        <5> QED
          BY <5>1, <5>2
      <4> QED
        BY <4>1, <4>2
    <3> QED
      BY <3>1, <3>2
  <2>5. \E x \in [0 .. m + 1 -> S] : Good(m + 1, x)
    <3> HIDE DEF q, Good
    <3> QED
      BY <2>3, <2>4
  <2> QED
    BY <2>5
<1>3. Nat \subseteq T
  <2> HIDE DEF T
  <2> QED
    BY <1>1, <1>2, Induction
<1> QED
  BY <1>3

-----------------------------------------------------------------------------
(* Numbers and their bytes. *)

\* Quotient and remainder are determined by what they add up to.
LEMMA DivIs ==
  ASSUME NEW m \in Nat, m > 0, NEW q \in Int, NEW r \in Int, 0 <= r, r < m, NEW n \in Int, n = m * q + r
  PROVE n \div m = q /\ n % m = r
OBVIOUS

\* What quotient and remainder are.
LEMMA DivHas ==
  ASSUME NEW m \in Nat, m > 0, NEW n \in Nat
  PROVE /\ n \div m \in Nat /\ n % m \in Nat /\ n % m < m
        /\ n = m * (n \div m) + (n % m)
<1>1. n % m \in Nat /\ n % m < m
  OBVIOUS
<1>2. n \div m \in Int /\ n = m * (n \div m) + (n % m)
  OBVIOUS
<1>3. n \div m >= 0
  <2> SUFFICES ASSUME n \div m <= -1 PROVE FALSE
    BY <1>2
  <2> DEFINE q == n \div m
  <2>1. q \in Int /\ q <= -1 /\ n = m * q + (n % m)
    BY <1>2
  <2> HIDE DEF q
  <2>2. m * q <= m * (-1)
    BY <2>1
  <2> QED
    BY <1>1, <2>1, <2>2
<1> QED
  BY <1>1, <1>2, <1>3

\* A digit and what is below it are less than the next power.
LEMMA MulBelow ==
  ASSUME NEW p \in Nat, NEW b \in Nat, NEW d \in Nat, NEW r \in Nat, d < b, r < p
  PROVE p * d + r < p * b
<1>1. d + 1 <= b OBVIOUS
<1>2. p * (d + 1) <= p * b BY <1>1
<1>3. p * (d + 1) = p * d + p OBVIOUS
<1> QED BY <1>2, <1>3

\* One more digit of a number.
LEMMA Digit ==
  ASSUME NEW p \in Nat, p > 0, NEW b \in Nat, b > 0, NEW n \in Nat
  PROVE n % (p * b) = (n % p) + ((n \div p) % b) * p
<1> DEFINE q == n \div p
           r == n % p
           e == q \div b
           d == q % b
<1>1. q \in Nat /\ r \in Nat /\ r < p /\ n = p * q + r
  BY DivHas
<1>2. e \in Nat /\ d \in Nat /\ d < b /\ q = b * e + d
  BY <1>1, DivHas
<1> HIDE DEF q, r, e, d
<1>3. p * d + r < p * b
  BY <1>1, <1>2, MulBelow
<1>4. n = (p * b) * e + (p * d + r)
  BY <1>1, <1>2
<1>5. p * b \in Nat /\ p * b > 0 /\ p * d + r \in Nat
  BY <1>1, <1>2
<1>6. n % (p * b) = p * d + r
  <2> DEFINE m == p * b
             x == p * d + r
  <2>1. m \in Nat /\ m > 0 /\ x \in Nat /\ x < m /\ n = m * e + x
    BY <1>3, <1>4, <1>5
  <2> HIDE DEF m, x
  <2>2. n % m = x
    BY <1>2, <2>1, DivIs
  <2> QED
    BY <2>2 DEF m, x
<1> QED
  BY <1>1, <1>2, <1>6 DEF q, r, e, d

\* The powers of Base.
LEMMA PowIs == /\ Pow \in [0 .. 8 -> Nat] /\ Pow[0] = 1 /\ \A k \in 1 .. 8 : Pow[k] = Base * Pow[k - 1]
<1> DEFINE G == [p \in Nat \X Nat |-> Base * p[2]]
<1>1. G \in [Nat \X Nat -> Nat]
  BY PacketsAssumption
<1>2. PICK r \in [0 .. 8 -> Nat] : r[0] = 1 /\ \A k \in 1 .. 8 : r[k] = G[<<k, r[k - 1]>>]
  <2> HIDE DEF G
  <2>1. 1 \in Nat /\ 8 \in Nat
    OBVIOUS
  <2> DEFINE S == Nat
             a == 1
             n == 8
  <2>2. a \in S /\ n \in Nat /\ G \in [Nat \X S -> S]
    BY <1>1
  <2> HIDE DEF S, a, n
  <2>3. \E x \in [0 .. n -> S] : Runs(x, n, a, G)
    BY <2>2, Iterates
  <2> QED BY <2>3 DEF S, a, n, Runs
<1>3. \A k \in 1 .. 8 : r[k] = Base * r[k - 1]
  <2> SUFFICES ASSUME NEW k \in 1 .. 8 PROVE r[k] = Base * r[k - 1]
    OBVIOUS
  <2>1. <<k, r[k - 1]>> \in Nat \X Nat
    OBVIOUS
  <2> QED BY <1>2, <2>1
<1>4. r = [k \in 0 .. 8 |-> IF k = 0 THEN 1 ELSE Base * r[k - 1]]
  BY <1>2, <1>3
<1>5. Pow = [k \in 0 .. 8 |-> IF k = 0 THEN 1 ELSE Base * Pow[k - 1]]
  BY <1>4 DEF Pow
<1>6. Pow[0] = 1 /\ \A k \in 1 .. 8 : Pow[k] = Base * Pow[k - 1]
  BY <1>5
<1>7. DOMAIN Pow = 0 .. 8
  BY <1>5
<1> DEFINE T == {k \in Nat : k \in 0 .. 8 => Pow[k] \in Nat}
<1>8. 0 \in T
  BY <1>6
<1>9. ASSUME NEW k \in Nat, k \in T PROVE k + 1 \in T
  <2>1. CASE k + 1 \in 0 .. 8
    <3>1. Pow[k] \in Nat
      BY <1>9, <2>1
    <3>2. Pow[k + 1] = Base * Pow[k]
      BY <1>6, <2>1
    <3> QED
      BY <3>1, <3>2, PacketsAssumption
  <2> QED
    BY <2>1
<1>10. Nat \subseteq T
  <2> HIDE DEF T
  <2> QED
    BY <1>8, <1>9, Induction
<1> QED
  BY <1>5, <1>6, <1>10

\* The powers of Base are positive and grow.
LEMMA PowGrows ==
  ASSUME NEW i \in 0 .. 8, NEW j \in i .. 8
  PROVE  Pow[i] \in Nat /\ Pow[i] > 0 /\ Pow[i] <= Pow[j]
<1> DEFINE T == {k \in Nat : i + k \in 0 .. 8 => Pow[i + k] > 0 /\ Pow[i] <= Pow[i + k]}
<1>0. Base \in Nat /\ Base > 1
  BY PacketsAssumption
<1>1. ASSUME NEW k \in 0 .. 7, Pow[k] > 0
      PROVE  Pow[k + 1] > 0 /\ Pow[k + 1] >= Pow[k]
  <2>1. Pow[k + 1] = Base * Pow[k] /\ Pow[k] \in Nat
    BY PowIs
  <2> DEFINE p == Pow[k]
  <2>2. p \in Nat /\ p > 0 /\ Pow[k + 1] = Base * p
    BY <1>1, <2>1
  <2> HIDE DEF p
  <2>3. Base * p >= p
    BY <1>0, <2>2
  <2> QED
    BY <1>0, <2>2, <2>3 DEF p
<1> DEFINE U == {k \in Nat : k \in 0 .. 8 => Pow[k] > 0}
<1>2. Nat \subseteq U
  <2>1. 0 \in U
    BY PowIs
  <2>2. ASSUME NEW k \in Nat, k \in U
        PROVE  k + 1 \in U
    BY <1>1, <2>2
  <2> HIDE DEF U
  <2> QED
    BY <2>1, <2>2, Induction
<1>3. \A k \in 0 .. 8 : Pow[k] \in Nat /\ Pow[k] > 0
  BY <1>2, PowIs
<1>4. 0 \in T
  BY <1>3
<1>5. ASSUME NEW k \in Nat, k \in T
      PROVE  k + 1 \in T
  <2>1. CASE i + (k + 1) \in 0 .. 8
    <3>1. i + k \in 0 .. 7 /\ (i + k) + 1 = i + (k + 1)
      BY <2>1
    <3>2. Pow[i + k] > 0 /\ Pow[i] <= Pow[i + k]
      BY <1>5, <3>1
    <3>3. Pow[(i + k) + 1] > 0 /\ Pow[(i + k) + 1] >= Pow[i + k]
      BY <1>1, <3>1, <3>2
    <3>4. Pow[i] \in Nat /\ Pow[i + k] \in Nat /\ Pow[i + (k + 1)] \in Nat
      BY <1>3, <2>1, <3>1
    <3> QED
      BY <3>1, <3>2, <3>3, <3>4
  <2> QED
    BY <2>1
<1>6. Nat \subseteq T
  <2> HIDE DEF T
  <2> QED
    BY <1>4, <1>5, Induction
<1>7. j - i \in Nat /\ i + (j - i) = j
  OBVIOUS
<1> QED
  BY <1>3, <1>6, <1>7

\* The values of a byte.
Byte == 0 .. Base - 1

\* Every power of Base is a positive number.
LEMMA PowPositive ==
  ASSUME NEW i \in 0 .. 8
  PROVE  Pow[i] \in Nat /\ Pow[i] > 0
<1>1. i \in i .. 8
  OBVIOUS
<1> QED
  BY ONLY i \in 0 .. 8, <1>1, PowGrows

\* An element of a sequence is of the set that the sequence is over.
LEMMA ElementOf ==
  ASSUME NEW S, NEW q \in Seq(S), NEW i \in 1 .. Len(q)
  PROVE  q[i] \in S
  OBVIOUS

\* What the bytes of a number are.
LEMMA BytesAre ==
  ASSUME NEW n \in Nat, NEW w \in 0 .. 8
  PROVE  /\ Bytes(n, w) \in Seq(Byte) /\ Len(Bytes(n, w)) = w
         /\ \A i \in 1 .. w : Bytes(n, w)[i] = (n \div Pow[i - 1]) % Base
<1>1. ASSUME NEW i \in 1 .. w
      PROVE  (n \div Pow[i - 1]) % Base \in Byte
  <2> DEFINE p == Pow[i - 1]
             q == n \div p
  <2>1. p \in Nat /\ p > 0
    BY PowGrows
  <2> HIDE DEF p
  <2>2. q \in Nat
    BY <2>1, DivHas
  <2> HIDE DEF q
  <2>3. q % Base \in Nat /\ q % Base < Base /\ Base \in Nat
    BY <2>2, PacketsAssumption, DivHas
  <2> QED
    BY <2>3 DEF Byte, p, q
<1>2. w \in Nat
  OBVIOUS
<1> QED
  BY <1>1, <1>2 DEF Bytes

\* Reading the w bytes of a number gives its rest modulo Base^w: operator>> is the
\* inverse of operator<< for a number that fits, and cuts one that does not.
LEMMA ValueOfBytes ==
  ASSUME NEW n \in Nat, NEW w \in 0 .. 8
  PROVE  Value(Bytes(n, w)) = n % Pow[w]
<1> DEFINE b == Bytes(n, w)
           Def(f) == [k \in 0 .. Len(b) |-> IF k = 0 THEN 0 ELSE f[k - 1] + b[k] * Pow[k - 1]]
           r == [k \in 0 .. Len(b) |-> n % Pow[k]]
           val == CHOOSE f : f = Def(f)
<1>1. Len(b) = w /\ \A i \in 1 .. w : b[i] = (n \div Pow[i - 1]) % Base
  BY BytesAre
<1>2. ASSUME NEW k \in 1 .. w
      PROVE  n % Pow[k] = (n % Pow[k - 1]) + b[k] * Pow[k - 1]
  <2> DEFINE p == Pow[k - 1]
  <2>0. k \in 0 .. 8 /\ k # 0 /\ k - 1 \in 0 .. 8
    OBVIOUS
  <2>1. p \in Nat /\ p > 0
    BY ONLY <2>0, PowPositive
  <2>2. Pow[k] = Base * p /\ b[k] = (n \div p) % Base
    <3>1. Pow[k] = Base * p
      BY ONLY <2>0, PowIs
    <3>2. b[k] = (n \div p) % Base
      BY <1>1, Zenon
    <3> QED
      BY ONLY <3>1, <3>2
  <2> HIDE DEF p, b
  <2>3. Base \in Nat /\ Base > 0
    BY PacketsAssumption
  <2>4. n % (p * Base) = (n % p) + ((n \div p) % Base) * p
    BY <2>1, <2>3, Digit
  <2>5. p * Base = Base * p
    BY <2>1, <2>3
  <2> QED
    BY <2>2, <2>4, <2>5 DEF p
<1>3. n % Pow[0] = 0
  BY PowIs
<1> HIDE DEF b
<1>4. r = Def(r)
  <2> SUFFICES ASSUME NEW k \in 0 .. Len(b)
               PROVE  r[k] = IF k = 0 THEN 0 ELSE r[k - 1] + b[k] * Pow[k - 1]
    OBVIOUS
  <2>1. CASE k = 0
    BY <1>3, <2>1
  <2>2. CASE k # 0
    <3>1. k \in 1 .. w /\ k - 1 \in 0 .. Len(b)
      BY <1>1, <2>2
    <3> QED
      BY <1>2, <2>2, <3>1
  <2> QED
    BY <2>1, <2>2
<1>5. val = Def(val)
  <2> HIDE DEF r
  <2> QED
    BY <1>4
<1>6. Value(b) = val[Len(b)]
  BY DEF Value
<1> HIDE DEF val
<1> DEFINE T == {k \in Nat : k \in 0 .. Len(b) => val[k] = n % Pow[k]}
<1>7. 0 \in T
  BY <1>1, <1>3, <1>5
<1>8. ASSUME NEW k \in Nat, k \in T
      PROVE  k + 1 \in T
  <2>1. CASE k + 1 \in 0 .. Len(b)
    <3>1. val[k] = n % Pow[k]
      BY <1>1, <1>8, <2>1
    <3>2. val[k + 1] = val[k] + b[k + 1] * Pow[k]
      BY <1>1, <1>5, <2>1
    <3>3. n % Pow[k + 1] = (n % Pow[k]) + b[k + 1] * Pow[k]
      BY <1>1, <1>2, <2>1
    <3> QED
      BY <3>1, <3>2, <3>3
  <2> QED
    BY <2>1
<1>9. Nat \subseteq T
  <2> HIDE DEF T
  <2> QED
    BY <1>7, <1>8, Induction
<1> QED
  BY <1>1, <1>6, <1>9 DEF b

\* A number below a power is its own rest.
LEMMA RestOfSmall ==
  ASSUME NEW m \in Nat, NEW n \in Nat, n < m
  PROVE  n % m = n
<1>1. n = m * 0 + n
  OBVIOUS
<1> QED
  BY <1>1, DivIs

\* A rest is no more than the number.
LEMMA RestBelow ==
  ASSUME NEW m \in Nat, m > 0, NEW n \in Nat
  PROVE  n % m \in Nat /\ n % m <= n /\ n % m < m
<1> DEFINE q == n \div m
           r == n % m
<1>1. q \in Nat /\ r \in Nat /\ r < m /\ n = m * q + r
  BY DivHas
<1> HIDE DEF q, r
<1>2. m * q \in Nat
  BY <1>1
<1> QED
  BY <1>1, <1>2 DEF r

-----------------------------------------------------------------------------
(* Pieces one after the other. *)

\* off[k] is where the k-th of the pieces ss ends in out, which is these pieces.
LaidOut(out, ss, off) ==
  /\ off[0] = 0 /\ off[Len(ss)] = Len(out)
  /\ \A k \in 1 .. Len(ss) :
       /\ off[k] = off[k - 1] + Len(ss[k])
       /\ \A j \in 1 .. Len(ss[k]) : out[off[k - 1] + j] = ss[k][j]

\* What grows by appending keeps what it has.
LEMMA Growing ==
  ASSUME NEW n \in Nat, NEW r, NEW len \in [0 .. n -> Nat],
         \A k \in 1 .. n : len[k - 1] <= len[k] /\ \A j \in 1 .. len[k - 1] : r[k][j] = r[k - 1][j]
  PROVE  \A k \in 0 .. n : len[k] <= len[n] /\ \A j \in 1 .. len[k] : r[n][j] = r[k][j]
<1> DEFINE Keeps(m, k) == len[k] <= len[m] /\ \A j \in 1 .. len[k] : r[m][j] = r[k][j]
           T == {m \in Nat : m \in 0 .. n => \A k \in 0 .. m : Keeps(m, k)}
<1>1. 0 \in T
  OBVIOUS
<1>2. ASSUME NEW m \in Nat, m \in T
      PROVE  m + 1 \in T
  <2> SUFFICES ASSUME m + 1 \in 0 .. n, NEW k \in 0 .. m + 1
               PROVE  Keeps(m + 1, k)
    OBVIOUS
  <2>1. CASE k = m + 1
    BY <2>1
  <2>2. CASE k \in 0 .. m
    <3>1. Keeps(m, k)
      BY <1>2, <2>2
    <3>2. m + 1 \in 1 .. n /\ (m + 1) - 1 = m
      OBVIOUS
    <3>3. len[m] <= len[m + 1] /\ \A j \in 1 .. len[m] : r[m + 1][j] = r[m][j]
      BY <3>2
    <3>4. len[k] \in Nat /\ len[m] \in Nat /\ len[m + 1] \in Nat
      BY <2>2, <3>2
    <3>5. len[k] <= len[m + 1]
      BY ONLY <3>1, <3>3, <3>4
    <3>6. ASSUME NEW j \in 1 .. len[k]
          PROVE  r[m + 1][j] = r[k][j]
      <4>1. j \in 1 .. len[m]
        BY ONLY <3>1, <3>4, j \in 1 .. len[k]
      <4>2. r[m + 1][j] = r[m][j] /\ r[m][j] = r[k][j]
        BY ONLY <3>1, <3>3, <4>1, j \in 1 .. len[k], Zenon
      <4> QED
        BY ONLY <4>2, Zenon
    <3> QED
      BY ONLY <3>5, <3>6, Zenon
  <2> QED
    BY <2>1, <2>2
<1>3. Nat \subseteq T
  <2> HIDE DEF T
  <2> QED
    BY <1>1, <1>2, Induction
<1> QED
  BY <1>3

\* r appends the n pieces ss one after the other.
Appends(r, n, ss) == r[0] = << >> /\ \A k \in 1 .. n : r[k] = r[k - 1] \o ss[k]

\* What the k-th step of r does.
AppendStep(r, k, ss) ==
  /\ Len(r[k]) = Len(r[k - 1]) + Len(ss[k])
  /\ Len(r[k]) \in Nat /\ Len(r[k - 1]) \in Nat /\ Len(ss[k]) \in Nat
  /\ \A j \in 1 .. Len(r[k - 1]) : r[k][j] = r[k - 1][j]
  /\ \A j \in 1 .. Len(ss[k]) : r[k][Len(r[k - 1]) + j] = ss[k][j]

\* There is a run that appends one piece after the other.
LEMMA Appending ==
  ASSUME NEW B, NEW n \in Nat, NEW ss \in [1 .. n -> Seq(B)]
  PROVE  \E r \in [0 .. n -> Seq(B)] : Appends(r, n, ss)
<1> DEFINE S == Seq(B)
           a == << >>
           G == [p \in Nat \X S |-> IF p[1] \in 1 .. n THEN p[2] \o ss[p[1]] ELSE p[2]]
<1>1. a \in S /\ G \in [Nat \X S -> S]
  <2>1. ASSUME NEW p \in Nat \X S
        PROVE  (IF p[1] \in 1 .. n THEN p[2] \o ss[p[1]] ELSE p[2]) \in S
    <3>1. p[2] \in Seq(B)
      OBVIOUS
    <3>2. CASE p[1] \in 1 .. n
      BY <3>1, <3>2, Joined
    <3> QED
      BY <3>1, <3>2
  <2> QED
    BY <2>1
<1>2. PICK r \in [0 .. n -> S] : Runs(r, n, a, G)
  <2> HIDE DEF S, a, G
  <2> QED
    BY <1>1, Iterates
<1>3. ASSUME NEW k \in 1 .. n
      PROVE  r[k] = r[k - 1] \o ss[k]
  <2>1. k \in Nat /\ k - 1 \in 0 .. n
    OBVIOUS
  <2>2. <<k, r[k - 1]>> \in Nat \X S
    <3> HIDE DEF S
    <3> QED
      BY <2>1
  <2>3. r[k] = G[<<k, r[k - 1]>>]
    BY <1>2 DEF Runs
  <2> QED
    BY <2>2, <2>3
<1>4. r[0] = << >>
  BY <1>2 DEF Runs
<1> HIDE DEF G
<1> QED
  BY <1>3, <1>4 DEF Appends

\* What is known of each step of such a run.
LEMMA AppendingStep ==
  ASSUME NEW B, NEW n \in Nat, NEW ss \in [1 .. n -> Seq(B)], NEW r \in [0 .. n -> Seq(B)],
         Appends(r, n, ss), NEW k \in 1 .. n
  PROVE  AppendStep(r, k, ss)
<1>1. k - 1 \in 0 .. n
  OBVIOUS
<1>2. r[k - 1] \in Seq(B) /\ ss[k] \in Seq(B)
  BY <1>1
<1> DEFINE s == r[k - 1]
           t == ss[k]
<1>3. /\ Len(s \o t) = Len(s) + Len(t)
      /\ Len(s \o t) \in Nat /\ Len(s) \in Nat /\ Len(t) \in Nat
      /\ \A i \in 1 .. Len(s) : (s \o t)[i] = s[i]
      /\ \A i \in 1 .. Len(t) : (s \o t)[Len(s) + i] = t[i]
  <2>1. s \in Seq(B) /\ t \in Seq(B)
    BY <1>2
  <2> HIDE DEF s, t
  <2> QED
    BY ONLY <2>1, Joined
<1>4. r[k] = s \o t
  BY Zenon DEF Appends
<1> QED
  BY ONLY <1>3, <1>4, Zenon DEF AppendStep

\* FlattenSeq is the end of that run.
LEMMA FlattenRun ==
  ASSUME NEW B, NEW n \in Nat, n # 0, NEW ss \in [1 .. n -> Seq(B)], Len(ss) = n,
         NEW r \in [0 .. n -> Seq(B)], Appends(r, n, ss)
  PROVE  FlattenSeq(ss) = r[n]
<1> DEFINE Def(f) == [i \in 1 .. Len(ss) |-> IF i = 1 THEN ss[i] ELSE f[i - 1] \o ss[i]]
           flatten == CHOOSE f : f = Def(f)
           q == [k \in 1 .. Len(ss) |-> r[k]]
<1>0. r[0] = << >> /\ \A k \in 1 .. n : r[k] = r[k - 1] \o ss[k]
  BY DEF Appends
<1>1. 1 \in 1 .. n /\ 1 - 1 = 0
  OBVIOUS
<1>2. r[1] = ss[1]
  <2>1. r[1] = r[1 - 1] \o ss[1]
    BY <1>0, <1>1, Zenon
  <2>2. ss[1] \in Seq(B)
    BY <1>1
  <2>3. << >> \o ss[1] = ss[1]
    BY ONLY <2>2
  <2> QED
    BY ONLY <1>1, <2>1, <2>3, <1>0, Zenon
<1>3. ASSUME NEW k \in 1 .. Len(ss)
      PROVE  q[k] = IF k = 1 THEN ss[k] ELSE q[k - 1] \o ss[k]
  <2>1. CASE k = 1
    BY <1>2, <2>1, Zenon
  <2>2. CASE k # 1
    <3>1. k - 1 \in 1 .. Len(ss) /\ k \in 1 .. n
      BY <2>2
    <3>2. r[k] = r[k - 1] \o ss[k]
      BY <1>0, <3>1, Zenon
    <3> QED
      BY <2>2, <3>1, <3>2, Zenon
  <2> QED
    BY <2>1, <2>2
<1>4. q = Def(q)
  BY <1>3, Zenon
<1>5. flatten = Def(flatten)
  <2> HIDE DEF q
  <2> QED
    BY <1>4, Zenon
<1>6. FlattenSeq(ss) = flatten[n]
  BY DEF FlattenSeq
<1> HIDE DEF flatten
<1> DEFINE T == {k \in Nat : k \in 1 .. n => flatten[k] = r[k]}
<1>7. 0 \in T
  OBVIOUS
<1>8. ASSUME NEW k \in Nat, k \in T
      PROVE  k + 1 \in T
  <2> SUFFICES ASSUME k + 1 \in 1 .. n
               PROVE  flatten[k + 1] = r[k + 1]
    OBVIOUS
  <2>1. flatten[k + 1] = Def(flatten)[k + 1]
    BY ONLY <1>5, Zenon
  <2>2. Def(flatten)[k + 1] = IF k + 1 = 1 THEN ss[k + 1] ELSE flatten[(k + 1) - 1] \o ss[k + 1]
    BY Zenon
  <2>3. (k + 1) - 1 = k /\ (k + 1 # 1 => k \in 1 .. n)
    OBVIOUS
  <2>4. CASE k + 1 = 1
    BY <1>2, <2>1, <2>2, <2>4, Zenon
  <2>5. CASE k + 1 # 1
    <3>1. flatten[k] = r[k]
      BY <1>8, <2>3, <2>5
    <3>2. r[k + 1] = r[(k + 1) - 1] \o ss[k + 1]
      BY <1>0, Zenon
    <3> QED
      BY ONLY <2>1, <2>2, <2>3, <2>5, <3>1, <3>2, Zenon
  <2> QED
    BY <2>4, <2>5
<1>9. Nat \subseteq T
  <2> HIDE DEF T
  <2> QED
    BY <1>7, <1>8, Induction
<1>10. n \in 1 .. n
  OBVIOUS
<1> QED
  BY <1>6, <1>9, <1>10

\* FlattenSeq puts pieces one after the other.
LEMMA Flattened ==
  ASSUME NEW B, NEW n \in Nat, NEW ss \in [1 .. n -> Seq(B)], Len(ss) = n
  PROVE  /\ FlattenSeq(ss) \in Seq(B)
         /\ \E off \in [0 .. n -> Nat] : LaidOut(FlattenSeq(ss), ss, off)
<1>1. CASE n = 0
  <2>1. FlattenSeq(ss) = ss
    BY <1>1 DEF FlattenSeq
  <2>2. ss = << >>
    BY <1>1
  <2> DEFINE off == [k \in 0 .. n |-> 0]
  <2>3. off \in [0 .. n -> Nat] /\ LaidOut(<< >>, << >>, off)
    BY <1>1 DEF LaidOut
  <2>4. << >> \in Seq(B)
    OBVIOUS
  <2> HIDE DEF off
  <2> QED
    BY ONLY <2>1, <2>2, <2>3, <2>4
<1>2. CASE n # 0
  <2>1. PICK r \in [0 .. n -> Seq(B)] : Appends(r, n, ss)
    BY Appending
  <2>2. FlattenSeq(ss) = r[n]
    BY <1>2, <2>1, FlattenRun
  <2>3. \A k \in 1 .. n : AppendStep(r, k, ss)
    BY <2>1, AppendingStep
  <2> DEFINE off == [k \in 0 .. n |-> Len(r[k])]
  <2>4. off \in [0 .. n -> Nat]
    <3>1. \A k \in 0 .. n : r[k] \in Seq(B)
      OBVIOUS
    <3>2. \A k \in 0 .. n : Len(r[k]) \in Nat
      BY ONLY <3>1
    <3> QED
      BY ONLY <3>2
  <2>5. \A k \in 1 .. n : off[k] = Len(r[k]) /\ off[k - 1] = Len(r[k - 1])
    <3> SUFFICES ASSUME NEW k \in 1 .. n
                 PROVE  off[k] = Len(r[k]) /\ off[k - 1] = Len(r[k - 1])
      OBVIOUS
    <3>1. k \in 0 .. n /\ k - 1 \in 0 .. n
      OBVIOUS
    <3> QED
      BY ONLY <3>1, Zenon
  <2>6. off[0] = 0 /\ off[n] = Len(r[n])
    <3>1. 0 \in 0 .. n /\ n \in 0 .. n
      OBVIOUS
    <3>2. off[0] = Len(r[0]) /\ off[n] = Len(r[n])
      BY ONLY <3>1, Zenon
    <3>3. Len(r[0]) = 0
      BY ONLY <2>1 DEF Appends
    <3> QED
      BY <3>2, <3>3
  <2> HIDE DEF off
  <2>7. \A k \in 0 .. n : off[k] <= off[n] /\ \A j \in 1 .. off[k] : r[n][j] = r[k][j]
    <3>1. ASSUME NEW k \in 1 .. n
          PROVE  off[k - 1] <= off[k] /\ \A j \in 1 .. off[k - 1] : r[k][j] = r[k - 1][j]
      <4>1. AppendStep(r, k, ss) /\ off[k] = Len(r[k]) /\ off[k - 1] = Len(r[k - 1])
        BY <2>3, <2>5
      <4>2. \A a, b, c \in Nat : a = b + c => b <= a
        OBVIOUS
      <4> QED
        BY ONLY <4>1, <4>2, Zenon DEF AppendStep
    <3> QED
      BY ONLY <2>4, <3>1, Growing, n \in Nat
  <2>8. ASSUME NEW k \in 1 .. n
        PROVE  /\ off[k] = off[k - 1] + Len(ss[k])
               /\ \A j \in 1 .. Len(ss[k]) : r[n][off[k - 1] + j] = ss[k][j]
    <3>1. AppendStep(r, k, ss) /\ off[k] = Len(r[k]) /\ off[k - 1] = Len(r[k - 1])
      BY <2>3, <2>5
    <3>2. ASSUME NEW j \in 1 .. Len(ss[k])
          PROVE  r[n][off[k - 1] + j] = ss[k][j]
      <4>1. \A a, b, c \in Nat : a = b + c => \A i \in 1 .. c : b + i \in 1 .. a
        OBVIOUS
      <4>2. off[k - 1] + j \in 1 .. off[k]
        BY ONLY <3>1, <4>1, j \in 1 .. Len(ss[k]), Zenon DEF AppendStep
      <4>3. k \in 0 .. n
        OBVIOUS
      <4>4. r[n][off[k - 1] + j] = r[k][off[k - 1] + j]
        BY ONLY <2>7, <4>2, <4>3, Zenon
      <4>5. r[k][off[k - 1] + j] = ss[k][j]
        BY ONLY <3>1, j \in 1 .. Len(ss[k]), Zenon DEF AppendStep
      <4> QED
        BY ONLY <4>4, <4>5
    <3> QED
      BY ONLY <3>1, <3>2, Zenon DEF AppendStep
  <2>9. LaidOut(r[n], ss, off)
    BY <2>6, <2>8, Zenon DEF LaidOut
  <2>10. r[n] \in Seq(B)
    <3>1. n \in 0 .. n
      OBVIOUS
    <3> QED
      BY <3>1
  <2> QED
    BY ONLY <2>2, <2>4, <2>9, <2>10, Zenon
<1> QED
  BY <1>1, <1>2

\* Pieces of the same length begin at its multiples.
LEMMA Uniform ==
  ASSUME NEW w \in Nat, NEW ss, Len(ss) \in Nat, NEW off \in [0 .. Len(ss) -> Nat],
         NEW out, LaidOut(out, ss, off), \A k \in 1 .. Len(ss) : Len(ss[k]) = w
  PROVE  \A k \in 0 .. Len(ss) : off[k] = k * w
<1> DEFINE T == {k \in Nat : k \in 0 .. Len(ss) => off[k] = k * w}
<1>1. 0 \in T
  BY DEF LaidOut
<1>2. ASSUME NEW k \in Nat, k \in T
      PROVE  k + 1 \in T
  <2>1. CASE k + 1 \in 0 .. Len(ss)
    <3>1. off[k] = k * w
      BY <1>2, <2>1
    <3>2. off[k + 1] = off[k] + w
      <4>1. k + 1 \in 1 .. Len(ss) /\ (k + 1) - 1 = k
        BY <2>1
      <4> QED
        BY <4>1 DEF LaidOut
    <3>3. (k + 1) * w = k * w + w
      OBVIOUS
    <3> QED
      BY <3>1, <3>2, <3>3
  <2> QED
    BY <2>1
<1>3. Nat \subseteq T
  <2> HIDE DEF T
  <2> QED
    BY <1>1, <1>2, Induction
<1> QED
  BY <1>3

\* A piece of a sequence that is known element by element.
LEMMA Piece ==
  ASSUME NEW S, NEW s \in Seq(S), NEW t \in Seq(S), NEW a \in Nat, a + Len(t) <= Len(s),
         \A j \in 1 .. Len(t) : s[a + j] = t[j]
  PROVE  SubSeq(s, a + 1, a + Len(t)) = t
<1> DEFINE q == SubSeq(s, a + 1, a + Len(t))
<1>0. Len(t) \in Nat /\ Len(s) \in Nat
  OBVIOUS
<1>1. q \in Seq(S) /\ Len(q) = Len(t) /\ \A j \in 1 .. Len(t) : q[j] = s[a + j]
  BY <1>0
<1> HIDE DEF q
<1>2. \A j \in 1 .. Len(q) : q[j] = t[j]
  BY <1>1
<1>3. q = t
  BY <1>1, <1>2, Same
<1> QED
  BY <1>3 DEF q

\* What comes after the first part of a sequence is the second.
LEMMA AfterFirst ==
  ASSUME NEW S, NEW s \in Seq(S), NEW t \in Seq(S), NEW n, n = Len(s)
  PROVE  SubSeq(s \o t, n + 1, Len(s \o t)) = t
<1> DEFINE a == s \o t
<1>1. /\ a \in Seq(S) /\ Len(a) = Len(s) + Len(t) /\ Len(s) \in Nat /\ Len(t) \in Nat
      /\ \A i \in 1 .. Len(t) : a[Len(s) + i] = t[i]
  BY Joined
<1> HIDE DEF a
<1>2. SubSeq(a, Len(s) + 1, Len(s) + Len(t)) = t
  BY <1>1, Piece
<1> QED
  BY <1>1, <1>2 DEF a

\* A reader that has v and leaves rest.
Took(v, rest) == [v |-> v, in |-> rest, ok |-> TRUE]

\* The multiples of a width.
LEMMA Multiples ==
  ASSUME NEW n \in Nat, NEW w \in Nat, NEW i \in 1 .. n
  PROVE  /\ (i - 1) * w \in Nat /\ i * w \in Nat /\ n * w \in Nat
         /\ (i - 1) * w + w = i * w /\ i * w <= n * w
<1>1. (i - 1) * w \in Nat /\ i * w \in Nat /\ n * w \in Nat
  OBVIOUS
<1>2. (i - 1) * w + w = i * w
  OBVIOUS
<1>3. n * w = i * w + (n - i) * w /\ (n - i) * w \in Nat
  <2>1. n - i \in Nat
    OBVIOUS
  <2> QED
    BY <2>1
<1> QED
  BY <1>1, <1>2, <1>3

\* Numbers that fit their width are read as they were written.
LEMMA NumbersSurvive ==
  ASSUME NEW w \in 1 .. 8, NEW v \in Seq(0 .. Pow[w] - 1), NEW rest \in Seq(Byte)
  PROVE  /\ PutNumbers(v, w) \in Seq(Byte)
         /\ GetNumbers(PutNumbers(v, w) \o rest, Len(v), w) = Took(v, rest)
<1> DEFINE n == Len(v)
           ss == [i \in 1 .. n |-> Bytes(v[i], w)]
           out == FlattenSeq(ss)
           in == out \o rest
<1>0. Pow[w] \in Nat /\ Pow[w] > 0 /\ n \in Nat /\ w \in Nat /\ w \in 0 .. 8
  <2>1. n \in Nat /\ w \in Nat /\ w \in 0 .. 8
    OBVIOUS
  <2>2. Pow[w] \in Nat /\ Pow[w] > 0
    BY ONLY <2>1, PowPositive
  <2> QED
    BY ONLY <2>1, <2>2
<1>1. \A i \in 1 .. n : v[i] \in Nat /\ v[i] < Pow[w]
  BY <1>0
<1>2. \A i \in 1 .. n : /\ Bytes(v[i], w) \in Seq(Byte) /\ Len(Bytes(v[i], w)) = w
                        /\ Value(Bytes(v[i], w)) = v[i]
  <2> SUFFICES ASSUME NEW i \in 1 .. n
               PROVE  /\ Bytes(v[i], w) \in Seq(Byte) /\ Len(Bytes(v[i], w)) = w
                      /\ Value(Bytes(v[i], w)) = v[i]
    OBVIOUS
  <2> DEFINE x == v[i]
  <2>1. x \in Nat /\ x < Pow[w]
    BY <1>1
  <2> HIDE DEF x
  <2>2. x % Pow[w] = x
    BY <1>0, <2>1, RestOfSmall
  <2>3. /\ Bytes(x, w) \in Seq(Byte) /\ Len(Bytes(x, w)) = w
        /\ Value(Bytes(x, w)) = x
    BY <1>0, <2>1, <2>2, BytesAre, ValueOfBytes
  <2> QED
    BY <2>3 DEF x
<1> HIDE DEF n
<1>3. ss \in [1 .. n -> Seq(Byte)] /\ Len(ss) = n
  BY <1>0, <1>2
<1>4. \A k \in 1 .. n : ss[k] = Bytes(v[k], w)
  OBVIOUS
<1> HIDE DEF ss
<1>5. out \in Seq(Byte) /\ \E off \in [0 .. n -> Nat] : LaidOut(out, ss, off)
  BY <1>0, <1>3, Flattened
<1> HIDE DEF out
<1>6. PICK off \in [0 .. n -> Nat] : LaidOut(out, ss, off)
  BY <1>5
<1>7. \A k \in 0 .. n : off[k] = k * w
  <2>1. \A k \in 1 .. Len(ss) : Len(ss[k]) = w
    BY <1>2, <1>3, <1>4
  <2>2. \A k \in 0 .. Len(ss) : off[k] = k * w
    BY ONLY <1>0, <1>3, <1>6, <2>1, Uniform, off \in [0 .. n -> Nat]
  <2> QED
    BY <1>3, <2>2
<1>8. Len(out) = n * w
  BY <1>0, <1>3, <1>6, <1>7 DEF LaidOut
<1>9. /\ in \in Seq(Byte) /\ Len(in) = Len(out) + Len(rest) /\ Len(rest) \in Nat
      /\ \A j \in 1 .. Len(out) : in[j] = out[j]
  BY <1>5, Joined
<1>10. SubSeq(in, n * w + 1, Len(in)) = rest
  BY <1>5, <1>8, AfterFirst
<1> HIDE DEF in
<1>11. ASSUME NEW i \in 1 .. n
       PROVE  Value(SubSeq(in, (i - 1) * w + 1, i * w)) = v[i]
  <2> DEFINE a == (i - 1) * w
             t == ss[i]
  <2>1. a \in Nat /\ a + w = i * w /\ i * w <= n * w /\ i * w \in Nat /\ n * w \in Nat
    BY <1>0, Multiples
  <2>2. t \in Seq(Byte) /\ Len(t) = w /\ Value(t) = v[i]
    BY <1>2, <1>4
  <2>3. \A j \in 1 .. w : out[a + j] = t[j]
    <3>1. i - 1 \in 0 .. n /\ i \in 1 .. Len(ss)
      BY <1>0, <1>3
    <3>2. off[i - 1] = a
      BY <1>7, <3>1
    <3>3. \A j \in 1 .. Len(ss[i]) : out[off[i - 1] + j] = ss[i][j]
      BY <1>6, <3>1 DEF LaidOut
    <3> QED
      BY ONLY <2>2, <3>2, <3>3, Zenon
  <2> HIDE DEF a, t
  <2>4. \A j \in 1 .. Len(t) : in[a + j] = t[j]
    <3> SUFFICES ASSUME NEW j \in 1 .. w
                 PROVE  in[a + j] = t[j]
      BY <2>2
    <3>1. a + j \in 1 .. Len(out)
      BY <1>0, <1>8, <2>1
    <3> QED
      BY ONLY <1>9, <2>3, <3>1, j \in 1 .. w, Zenon
  <2>5. a + Len(t) <= Len(in)
    BY <1>8, <1>9, <2>1, <2>2
  <2>6. SubSeq(in, a + 1, a + Len(t)) = t
    BY ONLY <1>9, <2>1, <2>2, <2>4, <2>5, Piece
  <2>7. SubSeq(in, a + 1, i * w) = t
    BY ONLY <2>1, <2>2, <2>6
  <2> QED
    BY ONLY <2>2, <2>7, Zenon DEF a
<1>12. [i \in 1 .. n |-> Value(SubSeq(in, (i - 1) * w + 1, i * w))] = v
  <2>1. v = [i \in 1 .. n |-> v[i]]
    BY DEF n
  <2> QED
    BY ONLY <1>11, <2>1, Zenon
<1>13. ~(Len(in) < n * w)
  BY <1>0, <1>8, <1>9
<1>14. GetNumbers(in, n, w) = Took(v, rest)
  BY ONLY <1>10, <1>12, <1>13, Zenon DEF GetNumbers, Took
<1> QED
  BY <1>5, <1>14 DEF PutNumbers, n, ss, out, in

\* One number is read as what its width keeps of it.
LEMMA NumberSurvives ==
  ASSUME NEW w \in 1 .. 8, NEW x \in Nat, NEW rest \in Seq(Byte)
  PROVE  LET r == GetNumbers(Bytes(x, w) \o rest, 1, w)
         IN  r.ok /\ r.in = rest /\ r.v[1] = x % Pow[w]
<1> DEFINE b == Bytes(x, w)
           in == b \o rest
<1>0. w \in 0 .. 8
  OBVIOUS
<1>1. b \in Seq(Byte) /\ Len(b) = w /\ Value(b) = x % Pow[w]
  BY <1>0, BytesAre, ValueOfBytes
<1> HIDE DEF b
<1>2. /\ in \in Seq(Byte) /\ Len(in) = w + Len(rest) /\ Len(rest) \in Nat
      /\ \A j \in 1 .. w : in[j] = b[j]
  BY <1>1, Joined
<1>3. SubSeq(in, w + 1, Len(in)) = rest
  BY <1>1, AfterFirst
<1> HIDE DEF in
<1>4. SubSeq(in, 1, w) = b
  <2>1. SubSeq(in, 0 + 1, 0 + Len(b)) = b
    BY <1>1, <1>2, Piece
  <2> QED
    BY <1>1, <2>1
<1>5. 1 * w = w /\ (1 - 1) * w + 1 = 1 /\ ~(Len(in) < w)
  BY <1>2
<1>6. 1 \in 1 .. 1
  OBVIOUS
<1>7. GetNumbers(in, 1, w) = [v  |-> [i \in 1 .. 1 |-> Value(SubSeq(in, (i - 1) * w + 1, i * w))],
                              in |-> rest, ok |-> TRUE]
  BY ONLY <1>3, <1>5, Zenon DEF GetNumbers
<1>8. [i \in 1 .. 1 |-> Value(SubSeq(in, (i - 1) * w + 1, i * w))][1] = x % Pow[w]
  BY ONLY <1>1, <1>4, <1>5, <1>6, Zenon
<1> DEFINE one == [i \in 1 .. 1 |-> Value(SubSeq(in, (i - 1) * w + 1, i * w))]
           r == GetNumbers(in, 1, w)
<1>9. r.ok /\ r.in = rest /\ r.v = one
  <2> HIDE DEF one
  <2> QED
    BY ONLY <1>7 DEF one
<1>10. r.v[1] = x % Pow[w]
  BY ONLY <1>8, <1>9, Zenon
<1> QED
  BY ONLY <1>9, <1>10, Zenon DEF in, b

\* A list of numbers, or a string, is read as it was written.
LEMMA ListSurvives ==
  ASSUME NEW lw \in 1 .. 2, NEW w \in 1 .. 8, NEW v \in Seq(0 .. Pow[w] - 1), Len(v) < Pow[lw],
         NEW rest \in Seq(Byte)
  PROVE  GetList(Bytes(Len(v), lw) \o (PutNumbers(v, w) \o rest), lw, w) = Took(v, rest)
<1> DEFINE more == PutNumbers(v, w) \o rest
           in == Bytes(Len(v), lw) \o more
           size == GetNumbers(in, 1, lw)
<1>0. lw \in 1 .. 8 /\ lw \in 0 .. 8 /\ Len(v) \in Nat
  OBVIOUS
<1>1. PutNumbers(v, w) \in Seq(Byte) /\ GetNumbers(more, Len(v), w) = Took(v, rest)
  BY NumbersSurvive
<1>2. more \in Seq(Byte)
  BY <1>1, Joined
<1> HIDE DEF more
<1>3. Len(v) % Pow[lw] = Len(v)
  BY <1>0, PowIs, RestOfSmall
<1>4. size.ok /\ size.in = more /\ size.v[1] = Len(v)
  <2>1. size.ok /\ size.in = more /\ size.v[1] = Len(v) % Pow[lw]
    BY <1>0, <1>2, NumberSurvives
  <2> QED
    BY <1>3, <2>1
<1> HIDE DEF size
<1>5. GetList(in, lw, w) = GetNumbers(size.in, size.v[1], w)
  BY ONLY <1>4, Zenon DEF GetList, size
<1> QED
  BY ONLY <1>1, <1>4, <1>5, Zenon DEF in, more

\* The values of a std::string.
Strings == Seq(Byte)

\* A byte is a number of one byte.
LEMMA ByteIs == Byte = 0 .. Pow[1] - 1
<1>1. Pow[1] = Base * Pow[0] /\ Pow[0] = 1
  BY PowIs
<1> QED
  BY <1>1, PacketsAssumption DEF Byte

\* A string is some bytes, and is read as it was written.
LEMMA StringSurvives ==
  ASSUME NEW s \in Strings, Len(s) < Pow[2], NEW rest \in Seq(Byte)
  PROVE  /\ PutString(s) \in Seq(Byte)
         /\ GetList(PutString(s) \o rest, 2, 1) = Took(s, rest)
<1> DEFINE b == Bytes(Len(s), 2)
           t == PutNumbers(s, 1)
<1>1. 2 \in 0 .. 8 /\ 1 \in 1 .. 8 /\ 2 \in 1 .. 2 /\ s \in Seq(0 .. Pow[1] - 1) /\ Len(s) \in Nat
  BY ByteIs DEF Strings
<1>2. b \in Seq(Byte)
  BY <1>1, BytesAre
<1>3. t \in Seq(Byte)
  BY <1>1, NumbersSurvive
<1>4. GetList(b \o (t \o rest), 2, 1) = Took(s, rest)
  BY <1>1, ListSurvives
<1> HIDE DEF b, t
<1>5. (b \o t) \o rest = b \o (t \o rest) /\ b \o t \in Seq(Byte)
  BY <1>2, <1>3
<1> QED
  BY <1>4, <1>5 DEF PutString, b, t

\* What is left of in behind its first k elements.
After(in, k) == SubSeq(in, k + 1, Len(in))

\* Taking the pieces ss off in, one after the other, ends with rest.
Peels(B, in, ss, off, n, rest) ==
  /\ \A k \in 0 .. n : After(in, off[k]) \in Seq(B)
  /\ \A k \in 1 .. n : After(in, off[k - 1]) = ss[k] \o After(in, off[k])
  /\ After(in, off[0]) = in
  /\ After(in, off[n]) = rest

\* Pieces are taken off one after the other.
LEMMA TakenOff ==
  ASSUME NEW B, NEW n \in Nat, NEW ss \in [1 .. n -> Seq(B)], Len(ss) = n,
         NEW off \in [0 .. n -> Nat], NEW out \in Seq(B), LaidOut(out, ss, off), NEW rest \in Seq(B)
  PROVE  Peels(B, out \o rest, ss, off, n, rest)
<1> DEFINE in == out \o rest
<1>1. /\ off[0] = 0 /\ off[n] = Len(out)
      /\ \A k \in 1 .. n : /\ off[k] = off[k - 1] + Len(ss[k])
                           /\ \A j \in 1 .. Len(ss[k]) : out[off[k - 1] + j] = ss[k][j]
  BY Zenon DEF LaidOut
<1>2. \A k \in 1 .. n : Len(ss[k]) \in Nat /\ off[k] \in Nat /\ off[k - 1] \in Nat
  OBVIOUS
<1>3. \A k \in 0 .. n : off[k] \in 0 .. Len(out)
  <2> DEFINE r == [k \in 0 .. n |-> out]
  <2>1. ASSUME NEW k \in 1 .. n
        PROVE  off[k - 1] <= off[k] /\ \A j \in 1 .. off[k - 1] : r[k][j] = r[k - 1][j]
    <3>1. off[k - 1] <= off[k]
      BY <1>1, <1>2
    <3>2. k \in 0 .. n /\ k - 1 \in 0 .. n
      OBVIOUS
    <3> QED
      BY <3>1, <3>2
  <2> HIDE DEF r
  <2>2. \A k \in 0 .. n : off[k] <= off[n] /\ \A j \in 1 .. off[k] : r[n][j] = r[k][j]
    BY ONLY <2>1, Growing, n \in Nat, off \in [0 .. n -> Nat]
  <2> QED
    BY <1>1, <2>2
<1>4. /\ in \in Seq(B) /\ Len(in) = Len(out) + Len(rest) /\ Len(out) \in Nat /\ Len(rest) \in Nat
      /\ \A j \in 1 .. Len(out) : in[j] = out[j]
  BY Joined
<1>5. After(in, off[n]) = rest
  BY <1>1, AfterFirst DEF After
<1> HIDE DEF in
<1>6. ASSUME NEW k \in 0 .. n
      PROVE  /\ After(in, off[k]) \in Seq(B) /\ Len(After(in, off[k])) = Len(in) - off[k]
             /\ \A j \in 1 .. Len(in) - off[k] : After(in, off[k])[j] = in[off[k] + j]
  <2> DEFINE a == off[k]
  <2>1. a \in 0 .. Len(in)
    BY <1>3, <1>4
  <2> HIDE DEF a
  <2>2. /\ After(in, a) \in Seq(B) /\ Len(After(in, a)) = Len(in) - a
        /\ \A j \in 1 .. Len(in) - a : After(in, a)[j] = in[a + j]
    BY ONLY <1>4, <2>1, SuffixTaken DEF After
  <2> QED
    BY <2>2 DEF a
<1>7. ASSUME NEW k \in 1 .. n
      PROVE  After(in, off[k - 1]) = ss[k] \o After(in, off[k])
  <2> DEFINE a == off[k - 1]
             c == off[k]
             s == ss[k]
             p == After(in, a)
             q == After(in, c)
  <2>1. /\ a \in Nat /\ c = a + Len(s) /\ c <= Len(in) /\ s \in Seq(B) /\ Len(s) \in Nat
        /\ \A j \in 1 .. Len(s) : out[a + j] = s[j]
    <3>1. k \in 0 .. n
      OBVIOUS
    <3>2. c \in 0 .. Len(out)
      BY <1>3, <3>1
    <3>3. c <= Len(in)
      BY <1>4, <3>2
    <3> QED
      BY <1>1, <1>2, <3>3
  <2>2. c \in 0 .. Len(out)
    BY <1>3
  <2>3. /\ p \in Seq(B) /\ Len(p) = Len(in) - a
        /\ \A j \in 1 .. Len(in) - a : p[j] = in[a + j]
    <3>1. k - 1 \in 0 .. n
      OBVIOUS
    <3> QED
      BY <1>6, <3>1
  <2>4. /\ q \in Seq(B) /\ Len(q) = Len(in) - c
        /\ \A j \in 1 .. Len(in) - c : q[j] = in[c + j]
    <3>1. k \in 0 .. n
      OBVIOUS
    <3> QED
      BY <1>6, <3>1
  <2> HIDE DEF a, c, s, p, q
  <2>5. /\ s \o q \in Seq(B) /\ Len(s \o q) = Len(s) + Len(q)
        /\ \A i \in 1 .. Len(s) : (s \o q)[i] = s[i]
        /\ \A i \in 1 .. Len(q) : (s \o q)[Len(s) + i] = q[i]
    BY ONLY <2>1, <2>4, Joined
  <2>6. Len(p) = Len(s \o q)
    BY ONLY <1>4, <2>1, <2>3, <2>4, <2>5
  <2>7. ASSUME NEW j \in 1 .. Len(p)
        PROVE  p[j] = (s \o q)[j]
    <3>1. p[j] = in[a + j]
      BY ONLY <2>3, j \in 1 .. Len(p)
    <3>2. CASE j \in 1 .. Len(s)
      <4>1. a + j \in 1 .. Len(out)
        BY ONLY <1>4, <2>1, <2>2, <3>2
      <4>2. in[a + j] = s[j]
        BY ONLY <1>4, <2>1, <3>2, <4>1, Zenon
      <4> QED
        BY ONLY <2>5, <3>1, <3>2, <4>2
    <3>3. CASE j \notin 1 .. Len(s)
      <4> DEFINE i == j - Len(s)
      <4>1. i \in 1 .. Len(q) /\ i \in 1 .. Len(in) - c /\ Len(s) + i = j /\ c + i = a + j
        BY ONLY <1>4, <2>1, <2>3, <2>4, <3>3, j \in 1 .. Len(p)
      <4> HIDE DEF i
      <4>2. (s \o q)[Len(s) + i] = q[i] /\ q[i] = in[c + i]
        BY ONLY <2>4, <2>5, <4>1, Zenon
      <4> QED
        BY ONLY <3>1, <4>1, <4>2, Zenon
    <3> QED
      BY <3>2, <3>3
  <2>8. p = s \o q
    BY ONLY <2>3, <2>5, <2>6, <2>7, Same
  <2> QED
    BY ONLY <2>8 DEF a, c, s, p, q
<1>8. After(in, off[0]) = in
  <2>1. SubSeq(in, 0 + 1, 0 + Len(in)) = in
    BY ONLY <1>4, Piece
  <2> QED
    BY <1>1, <1>4, <2>1 DEF After
<1> QED
  BY ONLY <1>5, <1>6, <1>7, <1>8, Zenon DEF in, Peels

\* A list of strings is read as it was written.
LEMMA NamesSurvive ==
  ASSUME NEW lw \in 1 .. 2, NEW n \in Nat, NEW v \in Seq(Strings), Len(v) = n, n < Pow[lw],
         \A i \in 1 .. n : Len(v[i]) < Pow[2], NEW rest \in Seq(Byte)
  PROVE  LET names == FlattenSeq([i \in 1 .. n |-> PutString(v[i])])
         IN  /\ names \in Seq(Byte)
             /\ GetNames(Bytes(n, lw) \o (names \o rest), lw) = Took(v, rest)
<1> DEFINE ss == [i \in 1 .. n |-> PutString(v[i])]
           names == FlattenSeq(ss)
           more == names \o rest
           in == Bytes(n, lw) \o more
           size == GetNumbers(in, 1, lw)
<1>0. lw \in 1 .. 8 /\ lw \in 0 .. 8
  OBVIOUS
<1>1. \A i \in 1 .. n : v[i] \in Strings
  OBVIOUS
<1>2. \A i \in 1 .. n : PutString(v[i]) \in Seq(Byte)
  <2>1. << >> \in Seq(Byte)
    OBVIOUS
  <2> QED
    BY <1>1, <2>1, StringSurvives
<1>3. ss \in [1 .. n -> Seq(Byte)] /\ Len(ss) = n /\ \A k \in 1 .. n : ss[k] = PutString(v[k])
  BY <1>2
<1> HIDE DEF ss
<1>4. names \in Seq(Byte) /\ \E off \in [0 .. n -> Nat] : LaidOut(names, ss, off)
  BY <1>3, Flattened
<1> HIDE DEF names
<1>5. PICK off \in [0 .. n -> Nat] : LaidOut(names, ss, off)
  BY <1>4
<1>6. /\ \A k \in 0 .. n : After(more, off[k]) \in Seq(Byte)
      /\ \A k \in 1 .. n : After(more, off[k - 1]) = ss[k] \o After(more, off[k])
      /\ After(more, off[0]) = more /\ After(more, off[n]) = rest
  <2>1. names \in Seq(Byte)
    BY <1>4
  <2>2. Peels(Byte, names \o rest, ss, off, n, rest)
    BY ONLY <1>3, <1>5, <2>1, TakenOff, n \in Nat, off \in [0 .. n -> Nat], rest \in Seq(Byte)
  <2> QED
    BY ONLY <2>2, Zenon DEF Peels
<1>7. more \in Seq(Byte)
  BY <1>4, Joined
<1> HIDE DEF more
<1>8. size.ok /\ size.in = more /\ size.v[1] = n
  <2>1. size.ok /\ size.in = more /\ size.v[1] = n % Pow[lw]
    BY <1>0, <1>7, NumberSurvives
  <2>2. n % Pow[lw] = n
    BY <1>0, PowIs, RestOfSmall
  <2> QED
    BY <2>1, <2>2
<1> HIDE DEF size
<1> DEFINE Def(f) == [k \in 0 .. size.v[1] |->
                        IF k = 0 THEN [v |-> << >>, in |-> size.in, ok |-> TRUE]
                                 ELSE GetString(f[k - 1])]
           q == [k \in 0 .. n |-> Took(SubSeq(v, 1, k), After(more, off[k]))]
           r == CHOOSE f : f = Def(f)
<1>9. ASSUME NEW k \in 1 .. n
      PROVE  GetString(q[k - 1]) = q[k]
  <2>0. k - 1 \in 0 .. n /\ k \in 0 .. n
    OBVIOUS
  <2> DEFINE in0 == After(more, off[k - 1])
             in1 == After(more, off[k])
             s == v[k]
             u == SubSeq(v, 1, k - 1)
  <2>1. in0 = PutString(s) \o in1 /\ in1 \in Seq(Byte)
    BY <1>3, <1>6, <2>0
  <2>2. s \in Strings /\ Len(s) < Pow[2]
    BY <1>1
  <2>3. GetList(in0, 2, 1) = Took(s, in1)
    <3> HIDE DEF s, in1, in0
    <3> QED
      BY <2>1, <2>2, StringSurvives
  <2>4. Append(u, s) = SubSeq(v, 1, k)
    <3> HIDE DEF s
    <3> QED
      BY <2>0 DEF s
  <2>5. q[k - 1] = Took(u, in0) /\ q[k] = Took(SubSeq(v, 1, k), in1)
    BY ONLY <2>0, Zenon
  <2> HIDE DEF in0, in1, s, u, q
  <2>6. GetString(Took(u, in0)) = Took(Append(u, s), in1)
    <3> DEFINE a == Took(u, in0)
               b == Took(s, in1)
    <3>1. a.ok /\ a.in = in0 /\ a.v = u /\ b.ok = TRUE /\ b.in = in1 /\ b.v = s
      BY ONLY DEF Took
    <3> HIDE DEF a, b
    <3>2. GetString(a) = [v |-> Append(u, s), in |-> in1, ok |-> TRUE]
      BY ONLY <2>3, <3>1, Zenon DEF GetString, b
    <3> QED
      BY ONLY <3>2, Zenon DEF Took, a
  <2> QED
    BY ONLY <2>4, <2>5, <2>6, Zenon
<1>10. q[0] = [v |-> << >>, in |-> size.in, ok |-> TRUE]
  <2>1. 0 \in 0 .. n
    OBVIOUS
  <2>2. q[0] = Took(SubSeq(v, 1, 0), After(more, off[0]))
    BY ONLY <2>1, Zenon
  <2>3. SubSeq(v, 1, 0) = << >>
    OBVIOUS
  <2> QED
    BY ONLY <1>6, <1>8, <2>2, <2>3, Zenon DEF Took
<1>11. q[n] = Took(v, rest)
  <2>1. n \in 0 .. n
    OBVIOUS
  <2>2. q[n] = Took(SubSeq(v, 1, n), After(more, off[n]))
    BY ONLY <2>1, Zenon
  <2>3. SubSeq(v, 1, n) = v
    OBVIOUS
  <2> QED
    BY ONLY <1>6, <2>2, <2>3, Zenon
<1>12. q = Def(q)
  <2>1. q = [k \in 0 .. n |-> q[k]]
    BY Zenon
  <2> HIDE DEF q
  <2>2. ASSUME NEW k \in 0 .. n
        PROVE  q[k] = IF k = 0 THEN [v |-> << >>, in |-> size.in, ok |-> TRUE]
                               ELSE GetString(q[k - 1])
    <3>1. k # 0 => k \in 1 .. n
      OBVIOUS
    <3> QED
      BY ONLY <1>9, <1>10, <3>1, Zenon
  <2> QED
    BY ONLY <1>8, <2>1, <2>2, Zenon
<1> HIDE DEF q
<1>13. r = Def(r)
  BY <1>12, Zenon
<1>14. GetNames(in, lw) = r[size.v[1]]
  BY <1>8, Zenon DEF GetNames, size
<1> HIDE DEF r
<1>15. ASSUME NEW k \in 0 .. n
       PROVE  r[k] = IF k = 0 THEN [v |-> << >>, in |-> size.in, ok |-> TRUE]
                              ELSE GetString(r[k - 1])
  <2>1. r[k] = Def(r)[k]
    BY ONLY <1>13, Zenon
  <2> QED
    BY ONLY <1>8, <2>1, k \in 0 .. n, Zenon
<1> DEFINE T == {k \in Nat : k \in 0 .. n => r[k] = q[k]}
<1>16. 0 \in T
  <2>1. 0 \in 0 .. n
    OBVIOUS
  <2>2. r[0] = q[0]
    BY ONLY <1>10, <1>15, <2>1, Zenon
  <2> QED
    BY ONLY <2>2
<1>17. ASSUME NEW k \in Nat, k \in T
       PROVE  k + 1 \in T
  <2> SUFFICES ASSUME k + 1 \in 0 .. n
               PROVE  r[k + 1] = q[k + 1]
    OBVIOUS
  <2>1. (k + 1) - 1 = k /\ k \in 0 .. n /\ k + 1 \in 1 .. n /\ k + 1 # 0
    OBVIOUS
  <2>2. r[k] = q[k]
    BY <1>17, <2>1
  <2>3. r[k + 1] = GetString(r[(k + 1) - 1])
    BY ONLY <1>15, <2>1, k + 1 \in 0 .. n, Zenon
  <2>4. q[k + 1] = GetString(q[(k + 1) - 1])
    BY ONLY <1>9, <2>1, Zenon
  <2> QED
    BY ONLY <2>1, <2>2, <2>3, <2>4, Zenon
<1>18. Nat \subseteq T
  <2> HIDE DEF T
  <2> QED
    BY ONLY <1>16, <1>17, Induction
<1>19. r[n] = q[n]
  <2>1. n \in 0 .. n
    OBVIOUS
  <2> QED
    BY <1>18, <2>1
<1> QED
  BY ONLY <1>4, <1>8, <1>11, <1>14, <1>19, Zenon DEF in, more, names, ss

-----------------------------------------------------------------------------
(* Members. *)

\* A type of a member, and the values that it has.
IsType(t) == t.lw \in {0, 1, 2} /\ t.n \in Nat /\ t.w \in {0, 1, 2, 4, 8} /\ (t.w = 0 => t.lw # 0)

IsOf(t, v) ==
  /\ t.w = 0 => v \in Seq(Strings)
  /\ t.w # 0 => v \in Seq(0 .. Pow[t.w] - 1)
  /\ t.lw = 0 => Len(v) = t.n

\* A value is written as bytes, from which it is read whatever follows them.
Survives(t, v, rest) == Put(t, v) \in Seq(Byte) /\ Get(t, Put(t, v) \o rest) = Took(v, rest)

\* Parts in front of a sequence.
LEMMA JoinIsAssociative ==
  ASSUME NEW a \in Seq(Byte), NEW b \in Seq(Byte), NEW c \in Seq(Byte)
  PROVE  a \o b \in Seq(Byte) /\ (a \o b) \o c = a \o (b \o c)
OBVIOUS

\* A member of any type is read as it was written, whatever follows it.
LEMMA MemberSurvives ==
  ASSUME NEW t, IsType(t), NEW v, IsOf(t, v), Fits(t, v), NEW rest \in Seq(Byte)
  PROVE  Survives(t, v, rest)
<1> DEFINE lw == t.lw
           w == t.w
           n == Len(v)
<1>0. lw \in {0, 1, 2} /\ t.n \in Nat /\ w \in {0, 1, 2, 4, 8} /\ (w = 0 => lw # 0)
  BY DEF IsType
<1>1. CASE w # 0
  <2> DEFINE num == PutNumbers(v, w)
             b == Bytes(n, lw)
  <2>1. w \in 1 .. 8
    BY <1>0, <1>1
  <2>2. v \in Seq(0 .. Pow[w] - 1)
    BY <1>1 DEF IsOf
  <2>3. num \in Seq(Byte) /\ GetNumbers(num \o rest, n, w) = Took(v, rest)
    <3> HIDE DEF w
    <3> QED
      BY <2>1, <2>2, NumbersSurvive
  <2>4. n \in Nat
    <3> HIDE DEF w
    <3> QED
      BY <2>2
  <2>5. Put(t, v) = b \o num
    BY ONLY <1>1, Zenon DEF Put
  <2>6. CASE lw = 0
    <3>1. b = << >>
      BY <2>6 DEF Bytes
    <3> HIDE DEF b, num, n, w
    <3>2. Put(t, v) = num
      BY ONLY <2>3, <2>5, <3>1
    <3>3. n = t.n
      BY <2>6 DEF IsOf, n
    <3>4. Get(t, num \o rest) = GetNumbers(num \o rest, t.n, t.w)
      BY <2>6 DEF Get
    <3> QED
      BY ONLY <2>3, <3>2, <3>3, <3>4, Zenon DEF Survives, w
  <2>7. CASE lw # 0
    <3>1. lw \in 1 .. 2
      BY <1>0, <2>7
    <3>2. n < Pow[lw]
      BY <2>7 DEF Fits
    <3>3. b \in Seq(Byte)
      <4>1. lw \in 0 .. 8
        BY <3>1
      <4> HIDE DEF lw, n
      <4> QED
        BY <2>4, <4>1, BytesAre
    <3>4. GetList(b \o (num \o rest), lw, w) = Took(v, rest)
      <4> HIDE DEF lw, w
      <4> QED
        BY <2>1, <2>2, <3>1, <3>2, ListSurvives
    <3>5. \A in : Get(t, in) = GetList(in, t.lw, t.w)
      BY <1>1, <2>7 DEF Get
    <3> HIDE DEF b, num, n, w, lw
    <3>6. b \o num \in Seq(Byte) /\ (b \o num) \o rest = b \o (num \o rest)
      BY ONLY <2>3, <3>3, rest \in Seq(Byte), JoinIsAssociative
    <3> QED
      BY ONLY <2>5, <3>4, <3>5, <3>6, Zenon DEF Survives, w, lw
  <2> QED
    BY <2>6, <2>7
<1>2. CASE w = 0
  <2> DEFINE names == FlattenSeq([i \in 1 .. n |-> PutString(v[i])])
             b == Bytes(n, lw)
  <2>1. lw \in 1 .. 2
    BY <1>0, <1>2
  <2>2. v \in Seq(Strings)
    BY <1>2 DEF IsOf
  <2>3. n \in Nat
    BY <2>2
  <2>4. n < Pow[lw] /\ \A i \in 1 .. n : Len(v[i]) < Pow[2]
    BY <1>2, <2>1 DEF Fits
  <2>5. b \in Seq(Byte)
    <3>1. lw \in 0 .. 8
      BY <2>1
    <3> HIDE DEF lw, n
    <3> QED
      BY <2>3, <3>1, BytesAre
  <2>6. Put(t, v) = b \o names
    BY ONLY <1>2, Zenon DEF Put
  <2>7. names \in Seq(Byte) /\ GetNames(b \o (names \o rest), lw) = Took(v, rest)
    <3>1. n = Len(v)
      OBVIOUS
    <3> HIDE DEF lw, n
    <3> QED
      BY ONLY <2>1, <2>2, <2>3, <2>4, <3>1, rest \in Seq(Byte), NamesSurvive
  <2>8. \A in : Get(t, in) = GetNames(in, t.lw)
    <3>1. lw # 0
      BY <2>1
    <3> QED
      BY <1>2, <3>1 DEF Get
  <2> HIDE DEF b, names, n, w, lw
  <2>9. b \o names \in Seq(Byte) /\ (b \o names) \o rest = b \o (names \o rest)
    BY ONLY <2>5, <2>7, rest \in Seq(Byte), JoinIsAssociative
  <2> QED
    BY ONLY <2>6, <2>7, <2>8, <2>9, Zenon DEF Survives, lw
<1> QED
  BY <1>1, <1>2

-----------------------------------------------------------------------------
(* Packets that are a list of members. *)

\* The two operators of the packet agree: they name the same members in the same order,
\* each member once; a member that may be absent comes after the member that says so,
\* which is always there.
Agrees(p) ==
  /\ p.get = p.put
  /\ p.put \in Seq(DOMAIN p.is)
  /\ \A i, j \in 1 .. Len(p.put) : p.put[i] = p.put[j] => i = j
  /\ \A m \in DOMAIN p.is : IsType(p.is[m]) /\ \E i \in 1 .. Len(p.put) : p.put[i] = m
  /\ \A m \in DOMAIN p.only :
       /\ \E i, j \in 1 .. Len(p.put) : i < j /\ p.put[j] = m /\ p.put[i] = p.only[m]
       /\ p.only[m] \notin DOMAIN p.only

\* A packet that the assertions let through: every member that is there has a value of its
\* type that fits its length field.
IsPacket(p, val) ==
  /\ val = [m \in DOMAIN p.is |-> val[m]]
  /\ \A m \in DOMAIN p.is :
       /\ Present(p, m, val) => IsOf(p.is[m], val[m]) /\ Fits(p.is[m], val[m])
       /\ ~Present(p, m, val) => val[m] = << >>

\* The members that come before step k have their values.
Part(p, val, k) == [m \in DOMAIN p.is |-> IF \E i \in 1 .. k : p.put[i] = m THEN val[m] ELSE << >>]

\* The condition on a member is the same for the reader, who has only the members before it.
LEMMA PresentAlike ==
  ASSUME NEW p, Agrees(p), NEW val, NEW k \in 1 .. Len(p.put)
  PROVE  Present(p, p.put[k], Part(p, val, k - 1)) <=> Present(p, p.put[k], val)
<1> DEFINE m == p.put[k]
<1>0. Len(p.put) \in Nat
  BY DEF Agrees
<1>1. CASE m \in DOMAIN p.only
  <2>1. PICK i \in 1 .. Len(p.put), j \in 1 .. Len(p.put) :
          i < j /\ p.put[j] = m /\ p.put[i] = p.only[m]
    BY <1>1 DEF Agrees
  <2>2. j = k
    BY <2>1 DEF Agrees
  <2>3. i \in 1 .. k - 1
    BY <1>0, <2>1, <2>2
  <2>4. p.only[m] \in DOMAIN p.is
    <3>1. p.put \in Seq(DOMAIN p.is)
      BY Zenon DEF Agrees
    <3>2. p.put[i] \in DOMAIN p.is
      BY ONLY <3>1, i \in 1 .. Len(p.put), ElementOf
    <3> QED
      BY <2>1, <3>2
  <2>5. Part(p, val, k - 1)[p.only[m]] = val[p.only[m]]
    BY ONLY <2>1, <2>3, <2>4, Zenon DEF Part
  <2> QED
    BY ONLY <2>5, Zenon DEF Present
<1>2. CASE m \notin DOMAIN p.only
  BY ONLY <1>2, Zenon DEF Present
<1> QED
  BY <1>1, <1>2

\* What step k adds.
LEMMA PartStep ==
  ASSUME NEW p, Agrees(p), NEW val, NEW k \in 1 .. Len(p.put)
  PROVE  /\ Part(p, val, k) = [Part(p, val, k - 1) EXCEPT ![p.put[k]] = val[p.put[k]]]
         /\ val[p.put[k]] = << >> => Part(p, val, k) = Part(p, val, k - 1)
<1> DEFINE a == Part(p, val, k - 1)
           b == Part(p, val, k)
           M == DOMAIN p.is
           x == p.put[k]
<1>0. Len(p.put) \in Nat /\ x \in M
  BY DEF Agrees
<1>1. \A m \in M : (\E i \in 1 .. k : p.put[i] = m) <=> (m = x \/ \E i \in 1 .. k - 1 : p.put[i] = m)
  <2> SUFFICES ASSUME NEW m \in M
               PROVE  (\E i \in 1 .. k : p.put[i] = m) <=> (m = x \/ \E i \in 1 .. k - 1 : p.put[i] = m)
    OBVIOUS
  <2>1. \A i : i \in 1 .. k <=> (i = k \/ i \in 1 .. k - 1)
    BY <1>0
  <2> QED
    BY ONLY <2>1, Zenon
<1>2. ~ \E i \in 1 .. k - 1 : p.put[i] = x
  <2> SUFFICES ASSUME NEW i \in 1 .. k - 1, p.put[i] = x
               PROVE  FALSE
    OBVIOUS
  <2>1. i \in 1 .. Len(p.put) /\ i # k
    BY <1>0
  <2>2. i = k
    BY <2>1 DEF Agrees
  <2> QED
    BY <2>1, <2>2
<1>3. /\ a = [m \in M |-> a[m]] /\ b = [m \in M |-> b[m]]
      /\ a[x] = << >> /\ b[x] = val[x] /\ \A m \in M : m # x => b[m] = a[m]
  <2>1. a = [m \in M |-> a[m]] /\ b = [m \in M |-> b[m]]
    BY Zenon DEF Part
  <2>2. a[x] = << >>
    BY ONLY <1>0, <1>2, Zenon DEF Part
  <2>3. b[x] = val[x]
    BY ONLY <1>0, <1>1, Zenon DEF Part
  <2>4. ASSUME NEW m \in M, m # x
        PROVE  b[m] = a[m]
    <3>1. a[m] = IF \E i \in 1 .. k - 1 : p.put[i] = m THEN val[m] ELSE << >>
      BY Zenon DEF Part
    <3>2. b[m] = IF \E i \in 1 .. k : p.put[i] = m THEN val[m] ELSE << >>
      BY Zenon DEF Part
    <3> QED
      BY ONLY <1>1, <2>4, <3>1, <3>2, m \in M, Zenon
  <2> QED
    BY <2>1, <2>2, <2>3, <2>4
<1> HIDE DEF a, b, x, M
<1>4. b = [a EXCEPT ![x] = val[x]]
  BY ONLY <1>0, <1>3
<1>5. val[x] = << >> => b = a
  BY ONLY <1>0, <1>3
<1> QED
  BY <1>4, <1>5 DEF a, b, x

\* Reading a member takes what writing it has put, and adds its value.
LEMMA MemberStep ==
  ASSUME NEW p, Agrees(p), NEW val, IsPacket(p, val), NEW k \in 1 .. Len(p.put),
         NEW b, b = (IF Present(p, p.put[k], val) THEN Put(p.is[p.put[k]], val[p.put[k]]) ELSE << >>),
         NEW rest \in Seq(Byte)
  PROVE  /\ b \in Seq(Byte)
         /\ GetMember(p, p.put[k], Took(Part(p, val, k - 1), b \o rest)) = Took(Part(p, val, k), rest)
<1> DEFINE m == p.put[k]
           u == Part(p, val, k - 1)
           in == b \o rest
           r == Took(u, in)
<1>0. m \in DOMAIN p.is /\ IsType(p.is[m])
  BY DEF Agrees
<1>1. Present(p, m, u) <=> Present(p, m, val)
  BY PresentAlike
<1>2. /\ Part(p, val, k) = [u EXCEPT ![m] = val[m]]
      /\ val[m] = << >> => Part(p, val, k) = u
  BY PartStep
<1>3. r.ok /\ r.in = in /\ r.v = u
  BY ONLY DEF Took
<1>4. CASE Present(p, m, val)
  <2> DEFINE x == Get(p.is[m], in)
  <2>1. IsOf(p.is[m], val[m]) /\ Fits(p.is[m], val[m])
    BY ONLY <1>0, <1>4, IsPacket(p, val), Zenon DEF IsPacket
  <2>2. b = Put(p.is[m], val[m])
    BY <1>4
  <2>3. Survives(p.is[m], val[m], rest)
    <3> DEFINE t == p.is[m]
               y == val[m]
    <3>1. IsType(t) /\ IsOf(t, y) /\ Fits(t, y)
      BY <1>0, <2>1
    <3> HIDE DEF t, y
    <3>2. Survives(t, y, rest)
      BY ONLY <3>1, rest \in Seq(Byte), MemberSurvives
    <3> QED
      BY <3>2 DEF t, y
  <2>4. b \in Seq(Byte) /\ x = Took(val[m], rest)
    BY ONLY <2>2, <2>3, Zenon DEF Survives
  <2> HIDE DEF x, r
  <2>5. x.v = val[m] /\ x.in = rest /\ x.ok = TRUE
    <3> DEFINE y == val[m]
    <3>1. x = Took(y, rest)
      BY <2>4
    <3> HIDE DEF y
    <3>2. x.v = y /\ x.in = rest /\ x.ok = TRUE
      BY ONLY <3>1 DEF Took
    <3> QED
      BY <3>2 DEF y
  <2>6. GetMember(p, m, r) = [v |-> [u EXCEPT ![m] = val[m]], in |-> rest, ok |-> TRUE]
    BY ONLY <1>1, <1>3, <1>4, <2>5, Zenon DEF GetMember, x
  <2>7. GetMember(p, m, r) = Took(Part(p, val, k), rest)
    BY ONLY <1>2, <2>6, Zenon DEF Took
  <2> QED
    BY ONLY <2>4, <2>7, Zenon DEF m, u, in, r
<1>5. CASE ~Present(p, m, val)
  <2>1. val[m] = << >>
    BY ONLY <1>0, <1>5, IsPacket(p, val), Zenon DEF IsPacket
  <2>2. b = << >>
    BY <1>5
  <2>3. b \in Seq(Byte) /\ in = rest
    BY ONLY <2>2, rest \in Seq(Byte)
  <2> HIDE DEF r
  <2>4. GetMember(p, m, r) = r
    BY ONLY <1>1, <1>3, <1>5, Zenon DEF GetMember
  <2>5. r = Took(Part(p, val, k), rest)
    BY ONLY <1>2, <2>1, <2>3, Zenon DEF r
  <2> QED
    BY ONLY <2>3, <2>4, <2>5, Zenon DEF m, u, in, r
<1> QED
  BY <1>4, <1>5

\* A packet whose operators agree is read as it was written, whatever follows it.
LEMMA StructSurvives ==
  ASSUME NEW p, Agrees(p), NEW val, IsPacket(p, val), NEW rest \in Seq(Byte)
  PROVE  /\ PutStruct(p, val) \in Seq(Byte)
         /\ GetStruct(p, PutStruct(p, val) \o rest) = Took(val, rest)
<1> DEFINE n == Len(p.put)
           ss == [i \in 1 .. n |->
                    IF Present(p, p.put[i], val) THEN Put(p.is[p.put[i]], val[p.put[i]]) ELSE << >>]
           out == FlattenSeq(ss)
           in == out \o rest
           empty == [m \in DOMAIN p.is |-> << >>]
<1>0. n \in Nat /\ p.get = p.put
  BY DEF Agrees
<1>1. \A k \in 1 .. n : ss[k] =
        IF Present(p, p.put[k], val) THEN Put(p.is[p.put[k]], val[p.put[k]]) ELSE << >>
  BY Zenon
<1>2. ss = [k \in 1 .. n |-> ss[k]]
  BY Zenon
<1> HIDE DEF ss
<1>3. ASSUME NEW k \in 1 .. n, NEW tail \in Seq(Byte)
      PROVE  /\ ss[k] \in Seq(Byte)
             /\ GetMember(p, p.put[k], Took(Part(p, val, k - 1), ss[k] \o tail))
                  = Took(Part(p, val, k), tail)
  <2> DEFINE b == ss[k]
  <2>1. b = (IF Present(p, p.put[k], val) THEN Put(p.is[p.put[k]], val[p.put[k]]) ELSE << >>)
    BY <1>1, Zenon
  <2> HIDE DEF b
  <2>2. /\ b \in Seq(Byte)
        /\ GetMember(p, p.put[k], Took(Part(p, val, k - 1), b \o tail)) = Took(Part(p, val, k), tail)
    BY ONLY <2>1, Agrees(p), IsPacket(p, val), k \in 1 .. n, tail \in Seq(Byte), MemberStep DEF n
  <2> QED
    BY ONLY <2>2 DEF b
<1>4. ss \in [1 .. n -> Seq(Byte)] /\ Len(ss) = n
  <2>1. ss \in [1 .. n -> Seq(Byte)]
    <3>1. << >> \in Seq(Byte)
      OBVIOUS
    <3>2. \A k \in 1 .. n : ss[k] \in Seq(Byte)
      BY ONLY <1>3, <3>1, Zenon
    <3> QED
      BY ONLY <1>2, <3>2, Zenon
  <2> HIDE DEF n
  <2> QED
    BY <1>0, <2>1
<1>5. out \in Seq(Byte) /\ \E off \in [0 .. n -> Nat] : LaidOut(out, ss, off)
  <2> HIDE DEF n
  <2> QED
    BY <1>0, <1>4, Flattened
<1> HIDE DEF out
<1>6. PICK off \in [0 .. n -> Nat] : LaidOut(out, ss, off)
  BY <1>5
<1>7. Peels(Byte, in, ss, off, n, rest)
  <2>1. out \in Seq(Byte)
    BY <1>5
  <2> HIDE DEF n
  <2> QED
    BY ONLY <1>0, <1>4, <1>6, <2>1, TakenOff, off \in [0 .. n -> Nat], rest \in Seq(Byte)
<1> HIDE DEF in, n
<1> DEFINE Def(f) == [k \in 0 .. Len(p.get) |->
                        IF k = 0 THEN [v |-> empty, in |-> in, ok |-> TRUE]
                                 ELSE GetMember(p, p.get[k], f[k - 1])]
           q == [k \in 0 .. n |-> Took(Part(p, val, k), After(in, off[k]))]
           r == CHOOSE f : f = Def(f)
<1>8. Len(p.get) = n
  BY <1>0 DEF n
<1>9. ASSUME NEW k \in 1 .. n
      PROVE  GetMember(p, p.get[k], q[k - 1]) = q[k]
  <2>0. k - 1 \in 0 .. n /\ k \in 0 .. n
    BY <1>0
  <2>1. After(in, off[k - 1]) = ss[k] \o After(in, off[k]) /\ After(in, off[k]) \in Seq(Byte)
    BY ONLY <1>7, <2>0, k \in 1 .. n, Zenon DEF Peels
  <2>2. q[k - 1] = Took(Part(p, val, k - 1), After(in, off[k - 1])) /\ q[k] = Took(Part(p, val, k), After(in, off[k]))
    BY ONLY <2>0, Zenon
  <2> HIDE DEF q
  <2> QED
    BY ONLY <1>0, <1>3, <2>1, <2>2, k \in 1 .. n, Zenon
<1>10. q[0] = [v |-> empty, in |-> in, ok |-> TRUE]
  <2>1. 0 \in 0 .. n
    BY <1>0
  <2>2. q[0] = Took(Part(p, val, 0), After(in, off[0]))
    BY ONLY <2>1, Zenon
  <2>3. Part(p, val, 0) = empty
    <3>1. \A i : i \notin 1 .. 0
      OBVIOUS
    <3> QED
      BY ONLY <3>1, Zenon DEF Part
  <2> HIDE DEF empty, q
  <2> QED
    BY ONLY <1>7, <2>2, <2>3, Zenon DEF Took, Peels
<1>11. q[n] = Took(val, rest)
  <2>1. n \in 0 .. n
    BY <1>0
  <2>2. q[n] = Took(Part(p, val, n), After(in, off[n]))
    BY ONLY <2>1, Zenon
  <2>3. \A m \in DOMAIN p.is : \E i \in 1 .. n : p.put[i] = m
    BY DEF Agrees, n
  <2>4. Part(p, val, n) = val
    <3>1. val = [m \in DOMAIN p.is |-> val[m]]
      BY Zenon DEF IsPacket
    <3>2. Part(p, val, n) = [m \in DOMAIN p.is |-> val[m]]
      BY ONLY <2>3, Zenon DEF Part
    <3> QED
      BY ONLY <3>1, <3>2
  <2> HIDE DEF q
  <2> QED
    BY ONLY <1>7, <2>2, <2>4, Zenon DEF Peels
<1>12. q = Def(q)
  <2>1. q = [k \in 0 .. n |-> q[k]]
    BY Zenon
  <2> HIDE DEF q
  <2>2. ASSUME NEW k \in 0 .. n
        PROVE  q[k] = IF k = 0 THEN [v |-> empty, in |-> in, ok |-> TRUE]
                               ELSE GetMember(p, p.get[k], q[k - 1])
    <3>1. k # 0 => k \in 1 .. n
      BY <1>0
    <3> QED
      BY ONLY <1>9, <1>10, <3>1, Zenon
  <2> QED
    BY ONLY <1>8, <2>1, <2>2, Zenon
<1> HIDE DEF q, empty
<1>13. r = Def(r)
  BY <1>12, Zenon
<1>14. GetStruct(p, in) = r[Len(p.get)]
  BY ONLY Zenon DEF GetStruct, empty
<1> HIDE DEF r
<1>15. ASSUME NEW k \in 0 .. n
       PROVE  r[k] = IF k = 0 THEN [v |-> empty, in |-> in, ok |-> TRUE]
                              ELSE GetMember(p, p.get[k], r[k - 1])
  <2>1. r[k] = Def(r)[k]
    BY ONLY <1>13, Zenon
  <2> QED
    BY ONLY <1>8, <2>1, k \in 0 .. n, Zenon
<1> DEFINE T == {k \in Nat : k \in 0 .. n => r[k] = q[k]}
<1>16. 0 \in T
  <2>1. 0 \in 0 .. n
    BY <1>0
  <2>2. r[0] = q[0]
    BY ONLY <1>10, <1>15, <2>1, Zenon
  <2> QED
    BY ONLY <2>2
<1>17. ASSUME NEW k \in Nat, k \in T
       PROVE  k + 1 \in T
  <2> SUFFICES ASSUME k + 1 \in 0 .. n
               PROVE  r[k + 1] = q[k + 1]
    OBVIOUS
  <2>1. (k + 1) - 1 = k /\ k \in 0 .. n /\ k + 1 \in 1 .. n /\ k + 1 # 0
    BY <1>0
  <2>2. r[k] = q[k]
    BY <1>17, <2>1
  <2>3. r[k + 1] = GetMember(p, p.get[k + 1], r[(k + 1) - 1])
    BY ONLY <1>15, <2>1, k + 1 \in 0 .. n, Zenon
  <2>4. q[k + 1] = GetMember(p, p.get[k + 1], q[(k + 1) - 1])
    BY ONLY <1>9, <2>1, Zenon
  <2> QED
    BY ONLY <2>1, <2>2, <2>3, <2>4, Zenon
<1>18. Nat \subseteq T
  <2> HIDE DEF T
  <2> QED
    BY ONLY <1>16, <1>17, Induction
<1>19. r[n] = q[n]
  <2>1. n \in 0 .. n /\ n \in Nat
    BY <1>0
  <2> QED
    BY ONLY <1>18, <2>1, Zenon
<1> QED
  BY ONLY <1>5, <1>8, <1>11, <1>14, <1>19, Zenon DEF in, out, ss, n, PutStruct

\* The types that the packets use.
LEMMA TypesAre ==
  /\ IsType(U8) /\ IsType(U16) /\ IsType(U32) /\ IsType(U64) /\ IsType(ID) /\ IsType(Bool)
  /\ IsType(U32x3) /\ IsType(Array(PatternBytes, 1)) /\ IsType(String) /\ IsType(IDs) /\ IsType(Names)
  /\ IsType(List(1, 8)) /\ IsType(List(2, 2))
BY PacketsAssumption DEF IsType, Number, Array, List, U8, U16, U32, U64, ID, Bool, U32x3, String, IDs, Names

\* The two operators of every packet agree.
LEMMA StructsAgree == \A name \in DOMAIN Structs : Agrees(Structs[name])
<1>1. Agrees(EnqueueKernel)
  BY TypesAre DEF Agrees, EnqueueKernel, Always
<1>2. Agrees(ImageRW)
  BY TypesAre DEF Agrees, ImageRW, Always
<1>3. Agrees(BufferRW)
  BY TypesAre DEF Agrees, BufferRW, Always
<1>4. Agrees(BufferRectRW)
  BY TypesAre DEF Agrees, BufferRectRW, Always
<1>5. Agrees(FillBuffer)
  BY TypesAre DEF Agrees, FillBuffer, Always
<1>6. Agrees(IDStringPair)
  BY TypesAre DEF Agrees, IDStringPair, Always
<1>7. Agrees(KernelArg)
  BY TypesAre DEF Agrees, KernelArg, Always
<1>8. Agrees(KernelArgInfo)
  BY TypesAre DEF Agrees, KernelArgInfo, Always
<1>9. Agrees(KernelWGInfo)
  BY TypesAre DEF Agrees, KernelWGInfo, Always
<1>10. Agrees(CreateKernels)
  BY TypesAre DEF Agrees, CreateKernels, Always
<1>11. Agrees(CompileProgram)
  BY TypesAre DEF Agrees, CompileProgram, Always
<1>12. Agrees(LinkProgram)
  BY TypesAre DEF Agrees, LinkProgram, Always
<1>13. Agrees(ProgramBuildInfo)
  BY TypesAre DEF Agrees, ProgramBuildInfo, Always
<1>14. Agrees(CreateImage)
  BY TypesAre DEF Agrees, CreateImage, Always
<1>15. Agrees(CreateBuffer)
  BY TypesAre DEF Agrees, CreateBuffer, Always
<1>16. Agrees(CreateSubBuffer)
  BY TypesAre DEF Agrees, CreateSubBuffer, Always
<1>17. Agrees(CreateQueue)
  BY TypesAre DEF Agrees, CreateQueue, Always
<1>18. Agrees(CreateQueueWithProp)
  BY TypesAre DEF Agrees, CreateQueueWithProp, Always
<1>19. Agrees(CreateContextFromType)
  BY TypesAre DEF Agrees, CreateContextFromType, Always
<1>20. Agrees(CreateContext)
  BY TypesAre DEF Agrees, CreateContext, Always
<1>21. Agrees(GetImageFormats)
  BY TypesAre DEF Agrees, GetImageFormats, Always
<1>22. Agrees(GetDeviceIDs)
  BY TypesAre DEF Agrees, GetDeviceIDs, Always
<1>23. Agrees(IDListPacket)
  BY TypesAre DEF Agrees, IDListPacket, Always
<1>24. Agrees(IDTypePair)
  BY TypesAre DEF Agrees, IDTypePair, Always
<1>25. Agrees(RefCount)
  BY TypesAre DEF Agrees, RefCount, Always
<1>26. Agrees(RegisterEventCallback)
  BY TypesAre DEF Agrees, RegisterEventCallback, Always
<1>27. Agrees(SignalPacket)
  BY TypesAre DEF Agrees, SignalPacket, Always
<1>28. ASSUME NEW t, IsType(t)
      PROVE  Agrees(SimplePacket(t))
  BY <1>28 DEF Agrees, SimplePacket, Always
<1> QED
  BY <1>1, <1>2, <1>3, <1>4, <1>5, <1>6, <1>7, <1>8, <1>9, <1>10, <1>11, <1>12, <1>13,
     <1>14, <1>15, <1>16, <1>17, <1>18, <1>19, <1>20, <1>21, <1>22, <1>23, <1>24, <1>25,
     <1>26, <1>27, <1>28, TypesAre
     DEF Structs

\* Every packet that is a list of members is read as it was written, member by member and with
\* nothing left of it, for all values that the assertions let through and whatever follows it.
THEOREM PacketsSurvive ==
  ASSUME NEW name \in DOMAIN Structs, NEW val, IsPacket(Structs[name], val), NEW rest \in Seq(Byte)
  PROVE  LET r == GetStruct(Structs[name], PutStruct(Structs[name], val) \o rest)
         IN  r.ok /\ r.v = val /\ r.in = rest
<1> DEFINE p == Structs[name]
           r == GetStruct(p, PutStruct(p, val) \o rest)
<1>1. Agrees(p) /\ IsPacket(p, val)
  BY StructsAgree, Zenon
<1> HIDE DEF p
<1>2. r = Took(val, rest)
  BY ONLY <1>1, rest \in Seq(Byte), StructSurvives
<1> HIDE DEF r
<1>3. r.ok /\ r.v = val /\ r.in = rest
  BY ONLY <1>2 DEF Took
<1> QED
  BY ONLY <1>3, Zenon DEF r, p

-----------------------------------------------------------------------------
(* Payloads. *)

\* The reader finds f as the size before compression, zero when there is none, and more behind.
FullIs(w, in, f, more) ==
  LET full == IF zlib THEN GetNumbers(in, 1, w) ELSE [v |-> <<0>>, in |-> in, ok |-> TRUE]
  IN  full.ok /\ full.in = more /\ full.v[1] = f

\* What is written of a payload that is not compressed, and of one that is.
PlainBytes(w, x, data) == (IF zlib THEN Bytes(0, w) ELSE << >>) \o Bytes(x, w) \o data
PackedBytes(w, n, c)   == Bytes(n, w) \o Bytes(Len(c), w) \o c

\* What it makes of the data.
Unpacked(data, f) == IF f # 0 THEN Decompress(data, f) ELSE data

\* What of a payload is read once it is known whether it is compressed.
LEMMA PayloadParts ==
  ASSUME NEW w \in 1 .. 8, NEW in, NEW f, NEW x \in Nat, NEW data \in Seq(Byte),
         x % Pow[w] = Len(data), NEW rest \in Seq(Byte),
         FullIs(w, in, f, Bytes(x, w) \o (data \o rest))
  PROVE  GetPayload(w, in) = Took(Unpacked(data, f), rest)
<1> DEFINE more == data \o rest
           full == IF zlib THEN GetNumbers(in, 1, w) ELSE [v |-> <<0>>, in |-> in, ok |-> TRUE]
           size == GetNumbers(full.in, 1, w)
<1>0. full.ok /\ full.in = Bytes(x, w) \o more /\ full.v[1] = f
  BY Zenon DEF FullIs
<1> HIDE DEF full
<1>1. /\ more \in Seq(Byte) /\ Len(more) = Len(data) + Len(rest)
      /\ Len(data) \in Nat /\ Len(rest) \in Nat
      /\ \A i \in 1 .. Len(data) : more[i] = data[i]
  BY Joined
<1>2. SubSeq(more, Len(data) + 1, Len(more)) = rest
  BY AfterFirst
<1> HIDE DEF more
<1>3. SubSeq(more, 1, Len(data)) = data
  <2>1. SubSeq(more, 0 + 1, 0 + Len(data)) = data
    BY <1>1, Piece
  <2> QED
    BY <1>1, <2>1
<1>4. size.ok /\ size.in = more /\ size.v[1] = Len(data)
  <2> DEFINE r == GetNumbers(Bytes(x, w) \o more, 1, w)
  <2>2. r.ok /\ r.in = more /\ r.v[1] = x % Pow[w]
    <3>1. more \in Seq(Byte)
      BY <1>1
    <3> QED
      BY ONLY <3>1, w \in 1 .. 8, x \in Nat, NumberSurvives
  <2>3. size = r
    BY ONLY <1>0, Zenon
  <2> HIDE DEF r, size
  <2> QED
    BY <2>2, <2>3
<1> HIDE DEF size
<1>5. (full.ok /\ size.ok /\ Len(size.in) >= size.v[1]) = TRUE
  BY <1>0, <1>1, <1>4
<1>6. GetPayload(w, in) = [v |-> Unpacked(data, f), in |-> rest, ok |-> TRUE]
  BY ONLY <1>0, <1>2, <1>3, <1>4, <1>5, Zenon DEF GetPayload, Unpacked, full, size
<1> QED
  BY ONLY <1>6, Zenon DEF Took

\* A payload that is not compressed: its data, cut to what its size says, is read.
LEMMA PlainSurvives ==
  ASSUME NEW w \in 1 .. 8, NEW x \in Nat, NEW data \in Seq(Byte), x % Pow[w] = Len(data),
         NEW rest \in Seq(Byte), NEW b, b = PlainBytes(w, x, data)
  PROVE  b \in Seq(Byte) /\ GetPayload(w, b \o rest) = Took(data, rest)
<1> DEFINE zero == IF zlib THEN Bytes(0, w) ELSE << >>
           num == Bytes(x, w)
           tail == num \o (data \o rest)
           in == zero \o tail
           full == IF zlib THEN GetNumbers(in, 1, w) ELSE [v |-> <<0>>, in |-> in, ok |-> TRUE]
<1>0. w \in 0 .. 8 /\ 0 \in Nat
  OBVIOUS
<1>1. num \in Seq(Byte) /\ Bytes(0, w) \in Seq(Byte)
  BY <1>0, BytesAre
<1>2. zero \in Seq(Byte)
  BY <1>1
<1>3. b = (zero \o num) \o data
  BY Zenon DEF PlainBytes
<1>4. Pow[w] \in Nat /\ Pow[w] > 0
  BY ONLY <1>0, PowPositive
<1>5. 0 % Pow[w] = 0
  BY ONLY <1>0, <1>4, RestOfSmall
<1> HIDE DEF zero, num
<1>6. b \in Seq(Byte) /\ b \o rest = in /\ tail \in Seq(Byte)
  <2>1. zero \o num \in Seq(Byte)
    BY ONLY <1>1, <1>2, JoinIsAssociative
  <2>2. /\ (zero \o num) \o data \in Seq(Byte)
        /\ ((zero \o num) \o data) \o rest = (zero \o num) \o (data \o rest)
    BY ONLY <2>1, data \in Seq(Byte), rest \in Seq(Byte), JoinIsAssociative
  <2>3. data \o rest \in Seq(Byte)
    BY ONLY data \in Seq(Byte), rest \in Seq(Byte), JoinIsAssociative
  <2>4. /\ (zero \o num) \o (data \o rest) = zero \o (num \o (data \o rest))
        /\ num \o (data \o rest) \in Seq(Byte)
    <3> DEFINE e == data \o rest
    <3>1. e \in Seq(Byte)
      BY ONLY <2>3
    <3> HIDE DEF e
    <3>2. (zero \o num) \o e = zero \o (num \o e) /\ num \o e \in Seq(Byte)
      <4>1. (zero \o num) \o e = zero \o (num \o e)
        <5>1. num \in Seq(Byte)
          BY ONLY <1>1, Zenon
        <5> QED
          BY ONLY <5>1, <1>2, <3>1
      <4>2. num \o e \in Seq(Byte)
        BY ONLY <1>1, <3>1, JoinIsAssociative, Zenon
      <4> QED
        BY ONLY <4>1, <4>2
    <3> QED
      BY ONLY <3>2 DEF e
  <2> QED
    BY ONLY <1>3, <2>2, <2>4, Zenon
<1> HIDE DEF tail
<1>7. full.ok /\ full.in = tail /\ full.v[1] = 0
  <2>1. CASE zlib
    <3>1. in = Bytes(0, w) \o tail
      BY <2>1 DEF zero
    <3> HIDE DEF in
    <3> DEFINE r == GetNumbers(Bytes(0, w) \o tail, 1, w)
    <3>2. r.ok /\ r.in = tail /\ r.v[1] = 0 % Pow[w]
      <4> DEFINE z == 0
      <4>1. z \in Nat /\ tail \in Seq(Byte)
        BY <1>6
      <4> HIDE DEF z
      <4>2. LET s == GetNumbers(Bytes(z, w) \o tail, 1, w)
            IN  s.ok /\ s.in = tail /\ s.v[1] = z % Pow[w]
        BY ONLY <4>1, w \in 1 .. 8, NumberSurvives
      <4> QED
        BY <4>2 DEF z
    <3>3. full = r
      BY ONLY <2>1, <3>1, Zenon
    <3> HIDE DEF r
    <3> QED
      BY ONLY <1>5, <3>2, <3>3
  <2>2. CASE ~zlib
    <3>1. in = tail
      <4>1. zero = << >>
        BY <2>2 DEF zero
      <4> QED
        BY <1>6, <4>1
    <3> HIDE DEF in
    <3>2. full = [v |-> <<0>>, in |-> in, ok |-> TRUE]
      BY <2>2
    <3> QED
      BY <3>1, <3>2
  <2> QED
    BY <2>1, <2>2
<1> HIDE DEF in
<1>8. FullIs(w, in, 0, Bytes(x, w) \o (data \o rest))
  BY ONLY <1>7, Zenon DEF FullIs, full, tail, num
<1> DEFINE z == 0
<1>9. FullIs(w, in, z, Bytes(x, w) \o (data \o rest)) /\ Unpacked(data, z) = data
  BY <1>8, Zenon DEF Unpacked
<1> HIDE DEF z
<1>10. GetPayload(w, in) = Took(data, rest)
  <2>1. GetPayload(w, in) = Took(Unpacked(data, z), rest)
    BY ONLY <1>9, w \in 1 .. 8, x \in Nat, data \in Seq(Byte), x % Pow[w] = Len(data),
            rest \in Seq(Byte), PayloadParts
  <2> QED
    BY ONLY <1>9, <2>1, Zenon
<1> QED
  BY ONLY <1>6, <1>10, Zenon

\* What compress() makes of data that is not empty, and what uncompress() makes of that when it
\* is shorter.
LEMMA CompressIs ==
  ASSUME NEW d \in Seq(Byte), Len(d) > 0
  PROVE  /\ Compress(d) \in Seq(Byte)
         /\ Len(Compress(d)) < Len(d) /\ Len(d) < Pow[4] => Decompress(Compress(d), Len(d)) = d
<1> DEFINE n == Len(d)
           c == Compress(d)
           x == d[1]
           num == Bytes(n, 4)
           k == n \div 2 - 5
           zeros == [i \in 1 .. k |-> 0]
<1>0. n \in Nat /\ x \in Byte /\ 0 \in Byte /\ 4 \in 0 .. 8 /\ k \in Int
  <2>1. Base \in Nat /\ Base > 1
    BY PacketsAssumption
  <2> QED
    BY <2>1 DEF Byte
<1>1. CASE \A i \in 1 .. n : d[i] = x
  <2>1. c = (<<x>> \o num) \o zeros
    BY ONLY <1>1, Zenon DEF Compress
  <2>2. num \in Seq(Byte) /\ Len(num) = 4 /\ Value(num) = n % Pow[4]
    <3> HIDE DEF n
    <3> QED
      BY ONLY <1>0, BytesAre, ValueOfBytes
  <2>3. zeros \in Seq(Byte) /\ Len(zeros) \in Nat
    <3>1. CASE k \in Nat
      <4> HIDE DEF k
      <4> QED
        BY ONLY <1>0, <3>1 DEF zeros
    <3>2. CASE k \notin Nat
      <4>1. 1 .. k = 1 .. 0
        <5> HIDE DEF k
        <5> QED
          BY <1>0, <3>2
      <4>2. zeros = [i \in 1 .. 0 |-> 0]
        BY ONLY <4>1, Zenon
      <4>3. [i \in 1 .. 0 |-> 0] \in Seq(Byte) /\ Len([i \in 1 .. 0 |-> 0]) \in Nat
        BY ONLY <1>0
      <4> QED
        BY ONLY <4>2, <4>3, Zenon
    <3> QED
      BY <3>1, <3>2
  <2> HIDE DEF c, x, num, zeros, n, k
  <2> DEFINE h == <<x>> \o num
  <2>4. h \in Seq(Byte) /\ Len(h) = 5 /\ h[1] = x /\ \A j \in 1 .. 4 : h[1 + j] = num[j]
    <3> DEFINE first == <<x>>
    <3>1. first \in Seq(Byte) /\ Len(first) = 1 /\ first[1] = x
      BY ONLY <1>0
    <3> HIDE DEF first
    <3>2. /\ first \o num \in Seq(Byte) /\ Len(first \o num) = Len(first) + Len(num)
          /\ \A i \in 1 .. Len(first) : (first \o num)[i] = first[i]
          /\ \A i \in 1 .. Len(num) : (first \o num)[Len(first) + i] = num[i]
      <4>1. first \in Seq(Byte) /\ num \in Seq(Byte)
        BY <2>2, <3>1
      <4> QED
        BY ONLY <4>1, Joined
    <3> QED
      BY ONLY <2>2, <3>1, <3>2 DEF first
  <2> HIDE DEF h
  <2>5. c \in Seq(Byte) /\ Len(c) = 5 + Len(zeros) /\ \A j \in 1 .. 5 : c[j] = h[j]
    <3>1. c = h \o zeros
      BY <2>1 DEF h
    <3>2. /\ h \o zeros \in Seq(Byte) /\ Len(h \o zeros) = Len(h) + Len(zeros)
          /\ \A i \in 1 .. Len(h) : (h \o zeros)[i] = h[i]
      <4>1. h \in Seq(Byte) /\ zeros \in Seq(Byte)
        BY <2>3, <2>4
      <4> QED
        BY ONLY <4>1, Joined
    <3> QED
      BY ONLY <2>4, <3>1, <3>2
  <2>6. c[1] = x /\ \A j \in 1 .. 4 : c[1 + j] = num[j]
    BY ONLY <2>4, <2>5
  <2>7. SubSeq(c, 2, 5) = num
    <3>1. SubSeq(c, 1 + 1, 1 + Len(num)) = num
      <4> DEFINE one == 1
      <4>1. one \in Nat /\ one + Len(num) <= Len(c) /\ \A j \in 1 .. Len(num) : c[one + j] = num[j]
        BY ONLY <2>2, <2>3, <2>5, <2>6
      <4> HIDE DEF one
      <4>2. SubSeq(c, one + 1, one + Len(num)) = num
        BY ONLY <2>2, <2>5, <4>1, Piece
      <4> QED
        BY <4>2 DEF one
    <3> QED
      BY ONLY <2>2, <3>1
  <2>8. ASSUME n < Pow[4]
        PROVE  Decompress(c, n) = d
    <3> DEFINE y == [i \in 1 .. Value(SubSeq(c, 2, 5)) |-> c[1]]
               z == IF Len(c) < 5 THEN << >> ELSE y
    <3>1. Value(SubSeq(c, 2, 5)) = n
      <4>1. Pow[4] \in Nat
        BY ONLY <1>0, PowIs
      <4>2. n % Pow[4] = n
        BY ONLY <1>0, <2>8, <4>1, RestOfSmall
      <4> QED
        BY ONLY <2>2, <2>7, <4>2, Zenon
    <3>2. ~(Len(c) < 5)
      BY ONLY <2>3, <2>5
    <3>3. z = [i \in 1 .. n |-> x]
      BY ONLY <2>6, <3>1, <3>2, Zenon
    <3>4. d = [i \in 1 .. n |-> x]
      <4>1. d = [i \in 1 .. n |-> d[i]]
        BY DEF n
      <4> QED
        BY ONLY <1>1, <4>1, Zenon
    <3>5. z = d
      BY ONLY <3>3, <3>4
    <3>6. Decompress(c, n) = [i \in 1 .. n |-> IF i <= Len(z) THEN z[i] ELSE 0]
      BY ONLY Zenon DEF Decompress
    <3> HIDE DEF z
    <3>7. \A i \in 1 .. n : i <= Len(z)
      BY <1>0, <3>5 DEF n
    <3>8. Decompress(c, n) = [i \in 1 .. n |-> d[i]]
      BY ONLY <3>5, <3>6, <3>7, Zenon
    <3>9. d = [i \in 1 .. n |-> d[i]]
      BY DEF n
    <3> QED
      BY ONLY <3>8, <3>9
  <2> QED
    BY <2>5, <2>8 DEF c, n
<1>2. CASE ~ \A i \in 1 .. n : d[i] = x
  <2>1. c = <<0>> \o d
    BY ONLY <1>2, Zenon DEF Compress
  <2> HIDE DEF c, x, k
  <2>2. c \in Seq(Byte) /\ Len(c) = n + 1
    BY <1>0, <2>1
  <2>3. ~(Len(c) < n)
    BY <1>0, <2>2
  <2> QED
    BY <2>2, <2>3 DEF c
<1> QED
  BY <1>1, <1>2

\* A payload that is compressed is read as it was before.
LEMMA CompressedSurvives ==
  ASSUME NEW w \in 1 .. 4, zlib, NEW d \in Seq(Byte), Len(d) > 0, Len(d) < Pow[w],
         NEW c, c = Compress(d), Len(c) < Len(d), NEW rest \in Seq(Byte), NEW b,
         b = PackedBytes(w, Len(d), c)
  PROVE  b \in Seq(Byte) /\ GetPayload(w, b \o rest) = Took(d, rest)
<1> DEFINE n == Len(d)
           full == Bytes(n, w)
           num == Bytes(Len(c), w)
           tail == num \o (c \o rest)
<1>0. n \in Nat /\ n # 0 /\ w \in 0 .. 8 /\ w \in 1 .. 8 /\ w \in 0 .. 4 /\ 4 \in w .. 8
  OBVIOUS
<1>1. Pow[w] \in Nat /\ Pow[4] \in Nat /\ Pow[w] <= Pow[4]
  <2>1. 4 \in 0 .. 8
    OBVIOUS
  <2> QED
    BY ONLY <1>0, <2>1, PowGrows, PowIs
<1>2. n < Pow[4]
  BY ONLY <1>0, <1>1, Len(d) < Pow[w]
<1>3. c \in Seq(Byte) /\ Decompress(c, n) = d
  BY ONLY <1>2, d \in Seq(Byte), Len(d) > 0, c = Compress(d), Len(c) < Len(d), CompressIs
<1>4. Len(c) \in Nat
  BY <1>3
<1>5. Len(c) % Pow[w] = Len(c) /\ n % Pow[w] = n
  <2>1. Len(c) < Pow[w]
    BY ONLY <1>0, <1>1, <1>4, Len(c) < Len(d), Len(d) < Pow[w]
  <2>2. Len(c) % Pow[w] = Len(c)
    BY ONLY <1>1, <1>4, <2>1, RestOfSmall
  <2>3. n % Pow[w] = n
    BY ONLY <1>0, <1>1, Len(d) < Pow[w], RestOfSmall
  <2> QED
    BY <2>2, <2>3
<1>6. full \in Seq(Byte) /\ num \in Seq(Byte)
  <2> DEFINE k == Len(c)
  <2>1. k \in Nat
    BY <1>4
  <2> HIDE DEF n, k
  <2>2. Bytes(n, w) \in Seq(Byte) /\ Bytes(k, w) \in Seq(Byte)
    BY ONLY <1>0, <2>1, BytesAre
  <2> QED
    BY <2>2 DEF k
<1>7. b = (full \o num) \o c
  BY Zenon DEF PackedBytes
<1> HIDE DEF full, num
<1>8. b \in Seq(Byte) /\ b \o rest = full \o tail /\ tail \in Seq(Byte)
  <2>0. c \in Seq(Byte)
    BY <1>3
  <2>1. full \o num \in Seq(Byte)
    BY ONLY <1>6, JoinIsAssociative
  <2>2. /\ (full \o num) \o c \in Seq(Byte)
        /\ ((full \o num) \o c) \o rest = (full \o num) \o (c \o rest)
    BY ONLY <2>0, <2>1, rest \in Seq(Byte), JoinIsAssociative
  <2> DEFINE e == c \o rest
  <2>3. e \in Seq(Byte)
    BY ONLY <2>0, rest \in Seq(Byte), JoinIsAssociative
  <2> HIDE DEF e
  <2>4. (full \o num) \o e = full \o (num \o e) /\ num \o e \in Seq(Byte)
    <3>1. (full \o num) \o e = full \o (num \o e)
      BY ONLY <1>6, <2>3
    <3>2. num \o e \in Seq(Byte)
      BY ONLY <1>6, <2>3, JoinIsAssociative, Zenon
    <3> QED
      BY ONLY <3>1, <3>2
  <2> QED
    BY ONLY <1>7, <2>2, <2>4, Zenon DEF e
<1> HIDE DEF tail, n
<1>9. FullIs(w, full \o tail, n, tail)
  <2> DEFINE r == GetNumbers(Bytes(n, w) \o tail, 1, w)
  <2>1. r.ok /\ r.in = tail /\ r.v[1] = n % Pow[w]
    <3>1. tail \in Seq(Byte)
      BY <1>8
    <3> QED
      BY ONLY <1>0, <3>1, NumberSurvives
  <2> QED
    BY <1>5, <2>1, Zenon DEF FullIs, full
<1>10. GetPayload(w, full \o tail) = Took(Unpacked(c, n), rest)
  <2> DEFINE in == full \o tail
             x == Len(c)
  <2>1. FullIs(w, in, n, Bytes(x, w) \o (c \o rest))
    BY ONLY <1>9, Zenon DEF tail, num
  <2>2. x \in Nat /\ c \in Seq(Byte) /\ x % Pow[w] = Len(c)
    BY <1>3, <1>4, <1>5
  <2> HIDE DEF in, x
  <2>3. GetPayload(w, in) = Took(Unpacked(c, n), rest)
    BY ONLY <1>0, <2>1, <2>2, rest \in Seq(Byte), PayloadParts
  <2> QED
    BY <2>3 DEF in
<1>11. Unpacked(c, n) = d
  BY ONLY <1>0, <1>3, Zenon DEF Unpacked
<1> QED
  BY ONLY <1>8, <1>10, <1>11, Zenon

\* What is read of a payload: all of it when its SizeT can say its size, and its bytes, no more
\* and no fewer, in any case where it is not compressed.
Delivers(w, d, b, rest) ==
  /\ Len(d) < Pow[w] => GetPayload(w, b \o rest) = Took(d, rest)
  /\ ~zlib => \E v : GetPayload(w, b \o rest) = Took(v, rest)

\* Writing a payload delivers it, from a Payload or a PayloadPtr and whether or not zlib fails.
LEMMA PayloadSurvives ==
  ASSUME NEW w \in 1 .. 4, NEW ptr \in BOOLEAN, NEW fails \in BOOLEAN, NEW d \in Seq(Byte),
         NEW rest \in Seq(Byte)
  PROVE  PutPayload(w, ptr, d, fails) \in Seq(Byte) /\ Delivers(w, d, PutPayload(w, ptr, d, fails), rest)
<1> DEFINE n == Len(d)
           size == IF ptr THEN n % Pow[w] ELSE n
           part == SubSeq(d, 1, size)
           c == IF fails \/ d = << >> THEN << >> ELSE Compress(part)
           b == PutPayload(w, ptr, d, fails)
<1>0. n \in Nat /\ w \in 0 .. 8 /\ w \in 1 .. 8
  OBVIOUS
<1>1. Pow[w] \in Nat /\ Pow[w] > 0
  BY ONLY <1>0, PowPositive
<1>2. n % Pow[w] \in Nat /\ n % Pow[w] <= n /\ n % Pow[w] < Pow[w] /\ (n < Pow[w] => n % Pow[w] = n)
  <2>1. n % Pow[w] \in Nat /\ n % Pow[w] <= n /\ n % Pow[w] < Pow[w]
    BY ONLY <1>0, <1>1, RestBelow
  <2>2. n < Pow[w] => n % Pow[w] = n
    BY ONLY <1>0, <1>1, RestOfSmall
  <2> QED
    BY ONLY <2>1, <2>2
<1>3. size \in Nat /\ size <= n /\ (n < Pow[w] => size = n)
  BY ONLY <1>0, <1>2
<1>4. part \in Seq(Byte) /\ Len(part) = size
  <2> HIDE DEF size
  <2> QED
    BY ONLY <1>3, d \in Seq(Byte)
<1>5. n = size => part = d
  <2> HIDE DEF size
  <2> QED
    BY ONLY <1>3, d \in Seq(Byte)
<1> DEFINE Packed == zlib /\ size >= Threshold /\ Len(c) # 0 /\ Len(c) < size
<1>6. CASE Packed
  <2>1. b = PackedBytes(w, size, c)
    BY ONLY <1>6, Zenon DEF PutPayload, PackedBytes
  <2>2. size > 0
    <3>1. Threshold > 0 /\ Threshold \in Nat
      <4>1. 2 \in 0 .. 8
        OBVIOUS
      <4>2. Pow[2] \in Nat
        BY ONLY <4>1, PowIs
      <4> QED
        BY ONLY <4>2, PacketsAssumption
    <3> HIDE DEF c
    <3> QED
      BY ONLY <1>3, <1>6, <3>1
  <2>3. c = Compress(part)
    <3>1. c # << >>
      BY ONLY <1>6
    <3> QED
      BY ONLY <3>1
  <2>4. c \in Seq(Byte)
    <3>1. Len(part) > 0
      BY ONLY <1>4, <2>2
    <3> HIDE DEF c, part
    <3> QED
      BY ONLY <1>4, <2>3, <3>1, CompressIs
  <2>5. zlib /\ Len(c) < size
    BY ONLY <1>6, Zenon
  <2> HIDE DEF c, part, size, n, Packed
  <2>6. b \in Seq(Byte)
    <3> DEFINE k == Len(c)
    <3>1. k \in Nat
      BY ONLY <2>4
    <3>2. b = (Bytes(size, w) \o Bytes(k, w)) \o c
      BY ONLY <2>1, Zenon DEF PackedBytes
    <3> HIDE DEF k, b
    <3>3. Bytes(size, w) \in Seq(Byte) /\ Bytes(k, w) \in Seq(Byte)
      BY ONLY <1>0, <1>3, <3>1, BytesAre
    <3>4. Bytes(size, w) \o Bytes(k, w) \in Seq(Byte)
      BY ONLY <3>3, JoinIsAssociative
    <3> QED
      BY ONLY <2>4, <3>2, <3>4, JoinIsAssociative
  <2>7. ASSUME n < Pow[w]
        PROVE  GetPayload(w, b \o rest) = Took(d, rest)
    <3>1. size = Len(d) /\ part = d
      BY <1>3, <1>5, <2>7 DEF n
    <3>2. /\ Len(d) > 0 /\ Len(d) < Pow[w] /\ c = Compress(d) /\ Len(c) < Len(d)
          /\ b = PackedBytes(w, Len(d), c)
      <4> HIDE DEF b
      <4> QED
        BY ONLY <2>1, <2>2, <2>3, <2>5, <2>7, <3>1, Zenon DEF n
    <3> HIDE DEF b
    <3> QED
      BY <2>5, <3>2, CompressedSurvives
  <2> HIDE DEF b
  <2>8. Delivers(w, d, b, rest)
    BY ONLY <2>5, <2>7, Zenon DEF Delivers, n
  <2> QED
    BY ONLY <2>6, <2>8, Zenon DEF b
<1>7. CASE ~Packed
  <2> DEFINE data == SubSeq(d, 1, size % Pow[w])
  <2>1. b = PlainBytes(w, size, data)
    BY ONLY <1>7, Zenon DEF PutPayload, PlainBytes
  <2>2. size % Pow[w] \in Nat /\ size % Pow[w] <= n
    <3> HIDE DEF size, n
    <3>1. size % Pow[w] \in Nat /\ size % Pow[w] <= size
      BY ONLY <1>1, <1>3, RestBelow
    <3> QED
      BY ONLY <1>0, <1>3, <3>1
  <2>3. data \in Seq(Byte) /\ Len(data) = size % Pow[w]
    <3> DEFINE k == size % Pow[w]
    <3>1. k \in Nat /\ k <= Len(d)
      BY ONLY <2>2
    <3> HIDE DEF k
    <3>2. SubSeq(d, 1, k) \in Seq(Byte) /\ Len(SubSeq(d, 1, k)) = k
      BY ONLY <3>1, d \in Seq(Byte)
    <3> QED
      BY ONLY <3>2 DEF k
  <2>4. n < Pow[w] => data = d
    <3> SUFFICES ASSUME n < Pow[w]
                 PROVE  data = d
      OBVIOUS
    <3>1. size % Pow[w] = Len(d)
      BY <1>2, <1>3
    <3>2. SubSeq(d, 1, Len(d)) = d
      BY ONLY d \in Seq(Byte)
    <3> QED
      BY ONLY <3>1, <3>2, Zenon
  <2> HIDE DEF data, size, n, b
  <2>5. b \in Seq(Byte) /\ GetPayload(w, b \o rest) = Took(data, rest)
    <3>1. size % Pow[w] = Len(data) /\ data \in Seq(Byte) /\ size \in Nat
      BY ONLY <1>3, <2>3
    <3> QED
      BY ONLY <1>0, <2>1, <3>1, rest \in Seq(Byte), PlainSurvives
  <2>6. Delivers(w, d, b, rest)
    BY ONLY <2>4, <2>5, Zenon DEF Delivers, n
  <2> QED
    BY ONLY <2>5, <2>6, Zenon DEF b
<1> QED
  BY <1>6, <1>7

\* Every payload that its SizeT can measure is read as it was written: from a Payload or a
\* PayloadPtr, compressed or not, whether or not zlib fails, and whatever follows it.
THEOREM PayloadsSurvive ==
  ASSUME NEW w \in SizeTs, NEW ptr \in BOOLEAN, NEW fails \in BOOLEAN, NEW d \in Seq(Byte),
         Len(d) < Pow[w], NEW rest \in Seq(Byte)
  PROVE  LET r == GetPayload(w, PutPayload(w, ptr, d, fails) \o rest)
         IN  r.ok /\ r.v = d /\ r.in = rest
<1> DEFINE r == GetPayload(w, PutPayload(w, ptr, d, fails) \o rest)
<1>1. w \in 1 .. 4
  BY PacketsAssumption
<1>2. Delivers(w, d, PutPayload(w, ptr, d, fails), rest)
  BY <1>1, PayloadSurvives
<1>3. r = Took(d, rest)
  BY <1>2, Zenon DEF Delivers
<1> HIDE DEF r
<1>4. r.ok /\ r.v = d /\ r.in = rest
  BY ONLY <1>3 DEF Took
<1> QED
  BY <1>4 DEF r

-----------------------------------------------------------------------------
(* The packets that are written. *)

\* The elements that are chosen have their width.
LEMMA ElemIs ==
  ASSUME NEW t, IsType(t), t.w # 0, NEW p \in Nat, NEW i \in Nat, NEW s \in Nat
  PROVE  Elem(t, p, i, s) \in 0 .. Pow[t.w] - 1
<1> DEFINE m == Pow[t.w]
           e == 5 * p + 2 * i + 7 * s
<1>1. t.w \in 1 .. 8 /\ 1 \in 0 .. 8 /\ t.w \in 0 .. 8
  BY DEF IsType
<1>2. m \in Nat /\ m > 1
  <2>1. Pow[1] = Base * Pow[0] /\ Pow[0] = 1 /\ Base \in Nat /\ Base > 1
    BY PowIs, PacketsAssumption
  <2> DEFINE k == t.w
  <2>2. k \in 1 .. 8
    BY <1>1
  <2> HIDE DEF k
  <2>3. Pow[1] <= Pow[k] /\ Pow[k] \in Nat
    BY ONLY <1>1, <2>2, PowGrows, PowIs
  <2> QED
    BY <2>1, <2>3 DEF k
<1>3. e \in Nat
  OBVIOUS
<1> HIDE DEF m, e
<1>4. e % m \in 0 .. m - 1
  BY <1>2, <1>3, RestBelow
<1>5. 0 \in 0 .. m - 1 /\ 1 \in 0 .. m - 1
  BY <1>2
<1>6. Elem(t, p, i, s) \in {0, 1, e % m}
  BY DEF Elem, e, m
<1> QED
  BY <1>4, <1>5, <1>6 DEF m

\* The lengths that are chosen.
ChoiceLen(t, n, l) ==
  IF t.w = 0 THEN n ELSE CASE t.lw = 0 -> t.n [] t.lw = 1 -> n [] t.lw = 2 -> l

\* The shape of what is chosen: lists n and l long, and the strings of a list l or s.
Shape(t, v, s, n, l) ==
  /\ Len(v) = ChoiceLen(t, n, l)
  /\ t.w = 0 => \A i \in 1 .. n : Len(v[i]) \in {l, s}

\* The values that are chosen are of their types.
LEMMA ChoiceIs ==
  ASSUME NEW t, IsType(t), NEW p \in Nat, NEW s \in Nat, NEW n \in Nat, NEW l \in Nat
  PROVE  IsOf(t, Choice(t, p, s, n, l)) /\ Shape(t, Choice(t, p, s, n, l), s, n, l)
<1> DEFINE v == Choice(t, p, s, n, l)
<1>1. CASE t.w # 0
  <2> DEFINE k == CASE t.lw = 0 -> t.n [] t.lw = 1 -> n [] t.lw = 2 -> l
  <2>1. k \in Nat /\ (t.lw = 0 => k = t.n)
    BY DEF IsType
  <2>2. v = [i \in 1 .. k |-> Elem(t, p, i, s)]
    BY ONLY <1>1, Zenon DEF Choice
  <2>3. k = ChoiceLen(t, n, l)
    BY <1>1 DEF ChoiceLen, IsType
  <2> DEFINE S == 0 .. Pow[t.w] - 1
  <2> HIDE DEF k
  <2>4. \A i \in 1 .. k : Elem(t, p, i, s) \in S
    <3> SUFFICES ASSUME NEW i \in 1 .. k
                 PROVE  Elem(t, p, i, s) \in 0 .. Pow[t.w] - 1
      OBVIOUS
    <3>1. i \in Nat
      BY ONLY <2>1, i \in 1 .. k
    <3> QED
      BY ONLY <1>1, <3>1, IsType(t), p \in Nat, s \in Nat, ElemIs
  <2> HIDE DEF S, v
  <2>5. v \in Seq(S) /\ Len(v) = k
    BY ONLY <2>1, <2>2, <2>4
  <2>6. IsOf(t, v)
    BY ONLY <1>1, <2>1, <2>5, Zenon DEF IsOf, S
  <2> QED
    BY ONLY <1>1, <2>3, <2>5, <2>6, Zenon DEF v, Shape
<1>2. CASE t.w = 0
  <2> DEFINE Name(i) == [j \in 1 .. (IF i = 1 THEN l ELSE s) |-> (i + j + s) % Base]
  <2>1. v = [i \in 1 .. n |-> Name(i)]
    BY ONLY <1>2, Zenon DEF Choice
  <2>2. ASSUME NEW i \in 1 .. n
        PROVE  Name(i) \in Strings /\ Len(Name(i)) \in {l, s}
    <3> DEFINE k == IF i = 1 THEN l ELSE s
    <3>1. k \in Nat /\ k \in {l, s}
      OBVIOUS
    <3>2. ASSUME NEW j \in 1 .. k
          PROVE  (i + j + s) % Base \in Byte
      <4> DEFINE e == i + j + s
      <4>1. e \in Nat /\ Base \in Nat /\ Base > 0
        BY <3>1, PacketsAssumption
      <4> HIDE DEF e
      <4>2. e % Base \in Nat /\ e % Base < Base
        BY ONLY <4>1, RestBelow
      <4> QED
        BY <4>1, <4>2 DEF Byte, e
    <3> HIDE DEF k
    <3> DEFINE x == [j \in 1 .. k |-> (i + j + s) % Base]
    <3>3. x \in Strings /\ Len(x) = k
      BY ONLY <3>1, <3>2 DEF Strings
    <3>4. x = Name(i)
      BY ONLY Zenon DEF k
    <3> HIDE DEF x
    <3> QED
      BY ONLY <3>1, <3>3, <3>4, Zenon
  <2> HIDE DEF Name, v
  <2>3. v \in Seq(Strings) /\ Len(v) = n /\ \A i \in 1 .. n : v[i] = Name(i)
    BY ONLY <2>1, <2>2, n \in Nat
  <2>4. t.lw # 0
    BY <1>2 DEF IsType
  <2>5. IsOf(t, v)
    BY ONLY <1>2, <2>3, <2>4, Zenon DEF IsOf
  <2>6. Len(v) = ChoiceLen(t, n, l)
    BY ONLY <1>2, <2>3, Zenon DEF ChoiceLen
  <2> QED
    BY ONLY <2>2, <2>3, <2>5, <2>6, Zenon DEF v, Shape
<1> QED
  BY <1>1, <1>2

\* Lengths that every length field can say.
Short(s, n, l) == n < Pow[1] /\ l < Pow[2] /\ s < Pow[2]

\* Values that are chosen with short lengths pass the assertions.
LEMMA ShortFits ==
  ASSUME NEW t, IsType(t), NEW p \in Nat, NEW s \in Nat, NEW n \in Nat, NEW l \in Nat, Short(s, n, l)
  PROVE  Fits(t, Choice(t, p, s, n, l))
<1> DEFINE v == Choice(t, p, s, n, l)
<1>0. n < Pow[1] /\ l < Pow[2] /\ s < Pow[2] /\ t.lw \in {0, 1, 2}
  BY DEF Short, IsType
<1>1. /\ Len(v) = ChoiceLen(t, n, l)
      /\ t.w = 0 => \A i \in 1 .. n : Len(v[i]) \in {l, s}
  <2>1. Shape(t, v, s, n, l)
    BY ChoiceIs
  <2> QED
    BY ONLY <2>1, Zenon DEF Shape
<1>2. Pow[1] \in Nat /\ Pow[2] \in Nat /\ Pow[1] <= Pow[2]
  <2> DEFINE one == 1
             two == 2
  <2>1. one \in 0 .. 8 /\ two \in one .. 8 /\ two \in 0 .. 8
    OBVIOUS
  <2> HIDE DEF one, two
  <2>2. Pow[one] \in Nat /\ Pow[two] \in Nat /\ Pow[one] <= Pow[two]
    BY ONLY <2>1, PowGrows, PowIs
  <2> QED
    BY <2>2 DEF one, two
<1> HIDE DEF v
<1>3. t.lw # 0 => Len(v) < Pow[t.lw]
  <2>1. CASE t.w = 0
    <3>1. Len(v) = n
      BY ONLY <1>1, <2>1, Zenon DEF ChoiceLen
    <3> QED
      BY <1>0, <1>2, <3>1
  <2>2. CASE t.w # 0
    <3>1. (t.lw = 1 => Len(v) = n) /\ (t.lw = 2 => Len(v) = l)
      BY <1>1, <2>2 DEF ChoiceLen
    <3> QED
      BY <1>0, <3>1
  <2> QED
    BY <2>1, <2>2
<1>4. t.w = 0 => \A i \in 1 .. Len(v) : Len(v[i]) < Pow[2]
  <2> SUFFICES ASSUME t.w = 0
               PROVE  \A i \in 1 .. Len(v) : Len(v[i]) < Pow[2]
    OBVIOUS
  <2>1. Len(v) = n
    BY ONLY <1>1, t.w = 0, Zenon DEF ChoiceLen
  <2>2. \A i \in 1 .. n : Len(v[i]) \in {l, s}
    BY <1>1
  <2> QED
    BY ONLY <1>0, <2>1, <2>2, Zenon
<1> QED
  BY ONLY <1>3, <1>4, Zenon DEF Fits, v

\* What WriteStruct writes is a packet, when the assertions let it through or its lengths are short.
LEMMA FilledIs ==
  ASSUME NEW p, Agrees(p), NEW s \in Nat, NEW n \in Nat, NEW l \in Nat,
         NEW val, val = Filled(p, s, n, l),
         (\A m \in DOMAIN val : Fits(p.is[m], val[m])) \/ Short(s, n, l)
  PROVE  IsPacket(p, val)
<1> DEFINE M == DOMAIN p.is
           At(m) == CHOOSE i \in 1 .. Len(p.put) : p.put[i] = m
           all == [m \in M |-> Choice(p.is[m], At(m), s, n, l)]
<1>0. Len(p.put) \in Nat
  BY DEF Agrees
<1>1. ASSUME NEW m \in M
      PROVE  IsType(p.is[m]) /\ At(m) \in Nat
  <2>1. IsType(p.is[m]) /\ \E i \in 1 .. Len(p.put) : p.put[i] = m
    BY DEF Agrees
  <2>2. At(m) \in 1 .. Len(p.put)
    BY ONLY <2>1, Zenon
  <2> HIDE DEF At
  <2> QED
    BY ONLY <1>0, <2>1, <2>2
<1>2. ASSUME NEW m \in M
      PROVE  /\ all[m] = Choice(p.is[m], At(m), s, n, l) /\ IsOf(p.is[m], all[m])
             /\ Short(s, n, l) => Fits(p.is[m], all[m])
  <2>1. all[m] = Choice(p.is[m], At(m), s, n, l)
    BY Zenon
  <2> DEFINE t == p.is[m]
             k == At(m)
  <2>2. IsType(t) /\ k \in Nat
    BY <1>1
  <2> HIDE DEF t, k
  <2>3. IsOf(t, Choice(t, k, s, n, l))
    BY ONLY <2>2, s \in Nat, n \in Nat, l \in Nat, ChoiceIs
  <2>4. Short(s, n, l) => Fits(t, Choice(t, k, s, n, l))
    BY ONLY <2>2, s \in Nat, n \in Nat, l \in Nat, ShortFits
  <2> QED
    BY ONLY <2>1, <2>3, <2>4, Zenon DEF t, k
<1>3. val = [m \in M |-> IF Present(p, m, all) THEN all[m] ELSE << >>]
  BY ONLY val = Filled(p, s, n, l), Zenon DEF Filled
<1> HIDE DEF all, At
<1>4. val = [m \in M |-> val[m]] /\ DOMAIN val = M
  BY ONLY <1>3, Zenon
<1>5. \A m \in M : val[m] = IF Present(p, m, all) THEN all[m] ELSE << >>
  BY ONLY <1>3, Zenon
<1>6. ASSUME NEW m \in M
      PROVE  Present(p, m, val) <=> Present(p, m, all)
  <2>1. CASE m \in DOMAIN p.only
    <3> DEFINE f == p.only[m]
    <3>1. f \in M /\ f \notin DOMAIN p.only
      <4>1. PICK i \in 1 .. Len(p.put), j \in 1 .. Len(p.put) : p.put[i] = f
        BY <2>1 DEF Agrees
      <4>2. p.put[i] \in M
        <5>1. p.put \in Seq(M)
          BY Zenon DEF Agrees
        <5> QED
          BY ONLY <5>1, i \in 1 .. Len(p.put), ElementOf
      <4>3. f \notin DOMAIN p.only
        BY <2>1 DEF Agrees
      <4> QED
        BY ONLY <4>1, <4>2, <4>3
    <3>2. Present(p, f, all)
      BY ONLY <3>1, Zenon DEF Present
    <3>3. val[f] = all[f]
      BY ONLY <1>5, <3>1, <3>2, Zenon
    <3> QED
      BY ONLY <3>3, Zenon DEF Present
  <2>2. CASE m \notin DOMAIN p.only
    BY ONLY <2>2, Zenon DEF Present
  <2> QED
    BY <2>1, <2>2
<1>7. ASSUME NEW m \in M
      PROVE  /\ Present(p, m, val) => IsOf(p.is[m], val[m]) /\ Fits(p.is[m], val[m])
             /\ ~Present(p, m, val) => val[m] = << >>
  <2>1. (\A x \in M : Fits(p.is[x], val[x])) \/ Short(s, n, l)
    BY ONLY <1>4, (\A x \in DOMAIN val : Fits(p.is[x], val[x])) \/ Short(s, n, l), Zenon
  <2> HIDE DEF M
  <2> QED
    BY ONLY <1>2, <1>5, <1>6, <2>1, m \in M, Zenon
<1> QED
  BY ONLY <1>4, <1>7, Zenon DEF IsPacket, M

-----------------------------------------------------------------------------
(* The stream. *)

\* What the reader makes of in when p comes next.
Taking(p, in) ==
  LET r == GetPayload(p.w, in)
  IN  IF p.name # "Payload" THEN GetStruct(Structs[p.name], in)
      ELSE [v |-> [mData |-> r.v], in |-> r.in, ok |-> r.ok]

\* The bytes b give p, whatever follows them.
Arrives(p, b) ==
  /\ b \in Seq(Byte)
  /\ \A rest \in Seq(Byte) :
       /\ (zlib => Small(p)) => Taking(p, b \o rest).ok /\ Taking(p, b \o rest).in = rest
       /\ Small(p) => Taking(p, b \o rest).v = p.val

\* The assertions are compiled in, or every length is one that its field can say.
Guarded ==
  \/ Debug
  \/ /\ Counts \subseteq 0 .. Pow[1] - 1
     /\ Lengths \subseteq 0 .. Pow[2] - 1
     /\ Seeds \subseteq 0 .. Pow[2] - 1

\* A packet of members arrives.
LEMMA StructArrives ==
  ASSUME NEW name \in DOMAIN Structs, NEW val, IsPacket(Structs[name], val)
  PROVE  Arrives([name |-> name, w |-> 0, val |-> val], PutStruct(Structs[name], val))
<1> DEFINE p == [name |-> name, w |-> 0, val |-> val]
           b == PutStruct(Structs[name], val)
           st == Structs[name]
<1>1. Agrees(st) /\ IsPacket(st, val)
  BY StructsAgree, Zenon
<1>2. name # "Payload"
  BY DEF Structs
<1>3. p.name = name /\ p.w = 0 /\ p.val = val
  OBVIOUS
<1> HIDE DEF p, st
<1>4. << >> \in Seq(Byte)
  OBVIOUS
<1>5. b \in Seq(Byte)
  <2>1. PutStruct(st, val) \in Seq(Byte)
    BY ONLY <1>1, <1>4, StructSurvives
  <2> QED
    BY ONLY <2>1 DEF st
<1>6. ASSUME NEW rest \in Seq(Byte)
      PROVE  Taking(p, b \o rest).ok /\ Taking(p, b \o rest).in = rest /\ Taking(p, b \o rest).v = p.val
  <2>1. GetStruct(st, PutStruct(st, val) \o rest) = Took(val, rest)
    BY ONLY <1>1, rest \in Seq(Byte), StructSurvives
  <2> DEFINE r == Taking(p, b \o rest)
  <2>2. r = Took(val, rest)
    BY ONLY <1>2, <1>3, <2>1, Zenon DEF Taking, st
  <2> HIDE DEF r
  <2>3. r.ok /\ r.in = rest /\ r.v = val
    BY ONLY <2>2 DEF Took
  <2> QED
    BY ONLY <1>3, <2>3, Zenon DEF r
<1> QED
  BY ONLY <1>5, <1>6, Zenon DEF Arrives, p

\* A payload arrives.
LEMMA PayloadArrives ==
  ASSUME NEW w \in SizeTs, NEW ptr \in BOOLEAN, NEW fails \in BOOLEAN, NEW d \in Seq(Byte)
  PROVE  Arrives([name |-> "Payload", w |-> w, val |-> [mData |-> d]], PutPayload(w, ptr, d, fails))
<1> DEFINE p == [name |-> "Payload", w |-> w, val |-> [mData |-> d]]
           b == PutPayload(w, ptr, d, fails)
<1>0. w \in 1 .. 4 /\ w # 0
  BY PacketsAssumption
<1>1. p.name = "Payload" /\ p.w = w /\ p.val = [mData |-> d] /\ p.val.mData = d
  OBVIOUS
<1>2. \A rest \in Seq(Byte) : b \in Seq(Byte) /\ Delivers(w, d, b, rest)
  BY <1>0, PayloadSurvives
<1> HIDE DEF p, b
<1>3. << >> \in Seq(Byte)
  OBVIOUS
<1>4. Small(p) => Len(d) < Pow[w]
  BY ONLY <1>0, <1>1 DEF Small
<1>5. ASSUME NEW rest \in Seq(Byte)
      PROVE  /\ (zlib => Small(p)) => Taking(p, b \o rest).ok /\ Taking(p, b \o rest).in = rest
             /\ Small(p) => Taking(p, b \o rest).v = p.val
  <2> DEFINE r == GetPayload(w, b \o rest)
             x == Taking(p, b \o rest)
  <2>1. x = [v |-> [mData |-> r.v], in |-> r.in, ok |-> r.ok]
    BY ONLY <1>1, Zenon DEF Taking
  <2>2. /\ Len(d) < Pow[w] => r = Took(d, rest)
        /\ ~zlib => \E v : r = Took(v, rest)
    BY ONLY <1>2, rest \in Seq(Byte), Zenon DEF Delivers
  <2> HIDE DEF r
  <2>3. x.v = [mData |-> r.v] /\ x.in = r.in /\ x.ok = r.ok
    <3> HIDE DEF x
    <3> QED
      BY ONLY <2>1
  <2> HIDE DEF x
  <2>4. ASSUME NEW v, r = Took(v, rest)
        PROVE  r.ok /\ r.in = rest /\ r.v = v
    BY ONLY <2>4 DEF Took
  <2>5. ASSUME Small(p)
        PROVE  x.ok /\ x.in = rest /\ x.v = p.val
    <3>1. r.ok /\ r.in = rest /\ r.v = d
      BY ONLY <1>4, <2>2, <2>4, <2>5, Zenon
    <3> QED
      BY ONLY <1>1, <2>3, <3>1, Zenon
  <2>6. ASSUME ~zlib
        PROVE  x.ok /\ x.in = rest
    <3>1. r.ok /\ r.in = rest
      BY ONLY <2>2, <2>4, <2>6, Zenon
    <3> QED
      BY ONLY <2>3, <3>1, Zenon
  <2> QED
    BY ONLY <2>5, <2>6, Zenon DEF x
<1> QED
  BY ONLY <1>2, <1>3, <1>5, Zenon DEF Arrives, p, b

\* A sequence of anything.
IsSeq(s) == \E S : s \in Seq(S)

\* What is known of a sequence, and of one that has grown.
Grown(s, t, x) ==
  /\ IsSeq(t) /\ Len(s) \in Nat /\ Len(t) = Len(s) + 1
  /\ DOMAIN s = 1 .. Len(s) /\ DOMAIN t = 1 .. Len(s) + 1
  /\ t[Len(s) + 1] = x /\ \A i \in 1 .. Len(s) : t[i] = s[i]

\* Appending to a sequence.
LEMMA AppendIs == ASSUME NEW s, IsSeq(s), NEW x PROVE Grown(s, Append(s, x), x)
<1>1. PICK S : s \in Seq(S)
  BY DEF IsSeq
<1> DEFINE R == S \cup {x}
           t == Append(s, x)
<1>2. s \in Seq(R) /\ x \in R
  <2>1. \A i \in 1 .. Len(s) : s[i] \in R
    BY <1>1
  <2> QED
    BY <1>1, <2>1
<1> HIDE DEF R
<1>3. /\ t \in Seq(R) /\ Len(s) \in Nat /\ Len(t) = Len(s) + 1
      /\ DOMAIN s = 1 .. Len(s) /\ DOMAIN t = 1 .. Len(s) + 1
      /\ t[Len(s) + 1] = x /\ \A i \in 1 .. Len(s) : t[i] = s[i]
  BY ONLY <1>2
<1> HIDE DEF t
<1>4. IsSeq(t)
  BY ONLY <1>3, Zenon DEF IsSeq
<1> QED
  BY ONLY <1>3, <1>4, Zenon DEF Grown, t

\* The length of a sequence.
LEMMA SeqLen == ASSUME NEW s, IsSeq(s) PROVE Len(s) \in Nat /\ DOMAIN s = 1 .. Len(s)
BY DEF IsSeq

\* What InStep asks of the payloads.
Measured == zlib => \A i \in DOMAIN sent : Small(sent[i])

\* tail[k] is what is on the wire behind packet k: the bytes of each packet that was not read yet
\* give this packet, and then come the bytes of the next.
Tails(tail) ==
  /\ tail \in [Len(got) .. Len(sent) -> Seq(Byte)]
  /\ tail[Len(got)] = wire /\ tail[Len(sent)] = << >>
  /\ \A k \in Len(got) + 1 .. Len(sent) :
       \E p, b : sent[k] = p /\ tail[k - 1] = b \o tail[k] /\ Arrives(p, b)

\* The inductive invariant.
WireInv ==
  /\ IsSeq(sent) /\ IsSeq(got) /\ Len(got) <= Len(sent)
  /\ Measured => \E tail : Tails(tail)
  /\ RoundTrip

\* Whether bytes give a packet depends on the build only.
LEMMA ArrivesSame ==
  ASSUME zlib' = zlib, NEW p, NEW b, Arrives(p, b)
  PROVE  Arrives(p, b)'
<1> DEFINE T(in) == Taking(p, in)
<1>1. \A in : T(in)' = T(in)
  BY zlib' = zlib DEF Taking, GetPayload
<1> HIDE DEF T
<1>2. /\ b \in Seq(Byte)
      /\ \A rest \in Seq(Byte) :
           /\ (zlib => Small(p)) => T(b \o rest).ok /\ T(b \o rest).in = rest
           /\ Small(p) => T(b \o rest).v = p.val
  BY DEF Arrives, T
<1> QED
  BY <1>1, <1>2 DEF Arrives, T

\* A step that leaves the stream alone.
LEMMA WireIdle == ASSUME WireInv, UNCHANGED <<zlib, sent, got, wire>> PROVE WireInv'
<1>1. IsSeq(sent)' /\ IsSeq(got)' /\ (Len(got) <= Len(sent))' /\ RoundTrip'
  BY DEF WireInv, RoundTrip, IsSeq, Small
<1>2. ASSUME Measured'
      PROVE  \E tail : Tails(tail)'
  <2>1. Measured
    BY <1>2 DEF Measured, Small
  <2>2. PICK tail : Tails(tail)
    BY <2>1 DEF WireInv
  <2>3. ASSUME NEW k \in Len(got) + 1 .. Len(sent)
        PROVE  \E p, b : sent[k] = p /\ tail[k - 1] = b \o tail[k] /\ Arrives(p, b)'
    <3>1. PICK p, b : sent[k] = p /\ tail[k - 1] = b \o tail[k] /\ Arrives(p, b)
      BY ONLY <2>2, k \in Len(got) + 1 .. Len(sent), Zenon DEF Tails
    <3>2. Arrives(p, b)'
      BY <3>1, ArrivesSame
    <3> QED
      BY ONLY <3>1, <3>2, Zenon
  <2>4. Tails(tail)'
    BY <2>2, <2>3 DEF Tails
  <2> QED
    BY <2>4
<1> QED
  BY <1>1, <1>2 DEF WireInv

\* Packets written earlier are as they were: what InStep asks, it has asked before.
LEMMA MeasuredBefore ==
  ASSUME WireInv, NEW p, sent' = Append(sent, p), zlib' = zlib
  PROVE  /\ Measured' => Measured
         /\ (\A i \in DOMAIN sent : Small(sent[i]))' => \A i \in DOMAIN sent : Small(sent[i])
<1> DEFINE t == Append(sent, p)
<1>1. Grown(sent, t, p)
  BY AppendIs DEF WireInv
<1> HIDE DEF t
<1>2. sent' = t
  BY DEF t
<1>3. \A i \in DOMAIN sent : i \in DOMAIN t /\ t[i] = sent[i]
  BY <1>1 DEF Grown
<1>4. (\A i \in DOMAIN t : Small(t[i])) => \A i \in DOMAIN sent : Small(sent[i])
  BY ONLY <1>3, Zenon
<1>5. (\A i \in DOMAIN sent : Small(sent[i]))' <=> \A i \in DOMAIN t : Small(t[i])
  BY <1>2
<1> QED
  BY <1>4, <1>5 DEF Measured

\* A packet is written whose bytes arrive.
LEMMA WireGrows ==
  ASSUME WireInv, NEW p, NEW b, Arrives(p, b), sent' = Append(sent, p), wire' = wire \o b,
         UNCHANGED <<zlib, got>>
  PROVE  WireInv'
<1> DEFINE t == Append(sent, p)
           n == Len(sent)
           g == Len(got)
<1>1. Grown(sent, t, p)
  BY AppendIs DEF WireInv
<1> HIDE DEF t
<1>2. sent' = t /\ got' = got /\ zlib' = zlib /\ Len(sent') = n + 1
  BY <1>1 DEF t, Grown
<1>3. n \in Nat /\ g \in Nat /\ g <= n /\ IsSeq(got)
  BY SeqLen DEF WireInv
<1>4. IsSeq(sent)' /\ IsSeq(got)' /\ (Len(got) <= Len(sent))'
  BY <1>1, <1>2, <1>3 DEF Grown, IsSeq
<1>5. RoundTrip'
  <2> SUFFICES ASSUME (\A i \in DOMAIN sent : Small(sent[i]))'
               PROVE  (\A i \in DOMAIN got : got[i] = sent[i].val)'
    BY DEF RoundTrip
  <2>1. \A i \in DOMAIN sent : Small(sent[i])
    BY MeasuredBefore
  <2>2. \A i \in DOMAIN got : got[i] = sent[i].val
    BY <2>1 DEF WireInv, RoundTrip
  <2>3. \A i \in DOMAIN got : t[i] = sent[i]
    <3>1. DOMAIN got = 1 .. g
      BY <1>3, SeqLen
    <3> QED
      BY <1>1, <1>3, <3>1 DEF Grown
  <2> QED
    BY <1>2, <2>2, <2>3
<1>6. ASSUME Measured'
      PROVE  \E tail : Tails(tail)'
  <2>1. Measured
    BY <1>6, MeasuredBefore
  <2>2. PICK old : Tails(old)
    BY <2>1 DEF WireInv
  <2>3. /\ old \in [g .. n -> Seq(Byte)] /\ old[g] = wire /\ old[n] = << >>
        /\ \A k \in g + 1 .. n : \E q, c : sent[k] = q /\ old[k - 1] = c \o old[k] /\ Arrives(q, c)
    BY ONLY <2>2, Zenon DEF Tails
  <2>4. b \in Seq(Byte)
    BY DEF Arrives
  <2> DEFINE tail == [k \in g .. n + 1 |-> IF k <= n THEN old[k] \o b ELSE << >>]
  <2>5. ASSUME NEW k \in g .. n
        PROVE  tail[k] = old[k] \o b /\ old[k] \in Seq(Byte) /\ old[k] \o b \in Seq(Byte)
    <3>1. k \in g .. n + 1 /\ k <= n
      BY <1>3
    <3>2. tail[k] = old[k] \o b
      BY ONLY <3>1, Zenon
    <3>3. old[k] \in Seq(Byte)
      BY <2>3
    <3> QED
      BY ONLY <2>4, <3>2, <3>3, JoinIsAssociative
  <2>6. tail[n + 1] = << >>
    <3>1. n + 1 \in g .. n + 1 /\ ~(n + 1 <= n)
      BY <1>3
    <3> QED
      BY ONLY <3>1, Zenon
  <2>7. tail \in [g .. n + 1 -> Seq(Byte)]
    <3>1. ASSUME NEW k \in g .. n + 1
          PROVE  tail[k] \in Seq(Byte)
      <4>1. k \in g .. n \/ k = n + 1
        BY <1>3
      <4>2. << >> \in Seq(Byte)
        OBVIOUS
      <4> HIDE DEF tail
      <4> QED
        BY ONLY <2>5, <2>6, <4>1, <4>2, Zenon
    <3>2. tail = [k \in g .. n + 1 |-> tail[k]]
      BY ONLY Zenon
    <3> HIDE DEF tail
    <3> QED
      BY ONLY <3>1, <3>2, Zenon
  <2> HIDE DEF tail
  <2>8. tail[g] = wire \o b
    <3>1. g \in g .. n
      BY <1>3
    <3> QED
      BY ONLY <2>3, <2>5, <3>1, Zenon
  <2>9. ASSUME NEW k \in g + 1 .. n + 1
        PROVE  \E q, c : t[k] = q /\ tail[k - 1] = c \o tail[k] /\ Arrives(q, c)'
    <3>1. CASE k = n + 1
      <4>1. t[k] = p
        BY <1>1, <3>1 DEF Grown
      <4>2. k - 1 = n /\ n \in g .. n
        BY <1>3, <3>1
      <4>3. tail[k - 1] = << >> \o b
        BY ONLY <2>3, <2>5, <4>2, Zenon
      <4>4. << >> \o b = b \o << >>
        BY ONLY <2>4
      <4>5. Arrives(p, b)'
        BY ArrivesSame
      <4> QED
        BY ONLY <2>6, <3>1, <4>1, <4>3, <4>4, <4>5, Zenon
    <3>2. CASE k # n + 1
      <4>1. k \in g + 1 .. n /\ k \in g .. n /\ k - 1 \in g .. n /\ k \in 1 .. n
        BY <1>3, <3>2
      <4>2. PICK q, c : sent[k] = q /\ old[k - 1] = c \o old[k] /\ Arrives(q, c)
        BY ONLY <2>3, <4>1, Zenon
      <4>3. t[k] = q
        BY <1>1, <4>1, <4>2 DEF Grown
      <4>4. c \in Seq(Byte)
        BY <4>2 DEF Arrives
      <4> DEFINE u == old[k]
      <4>5. u \in Seq(Byte) /\ tail[k] = u \o b /\ tail[k - 1] = (c \o u) \o b
        BY ONLY <2>5, <4>1, <4>2, Zenon
      <4> HIDE DEF u
      <4>6. (c \o u) \o b = c \o (u \o b)
        BY ONLY <2>4, <4>4, <4>5, JoinIsAssociative
      <4>7. Arrives(q, c)'
        BY <4>2, ArrivesSame
      <4> QED
        BY ONLY <4>3, <4>5, <4>6, <4>7, Zenon
    <3> QED
      BY <3>1, <3>2
  <2>10. \E new : Tails(new)'
    <3>0. PICK new : new = tail
      BY Zenon
    <3>1. Len(got)' = g /\ Len(sent)' = n + 1 /\ wire' = wire \o b /\ sent' = t
      BY <1>2
    <3> HIDE DEF g, n
    <3>2. (new \in [Len(got) .. Len(sent) -> Seq(Byte)])'
      BY ONLY <3>0, <2>7, <3>1
    <3>3. (new[Len(got)] = wire /\ new[Len(sent)] = << >>)'
      BY ONLY <3>0, <2>6, <2>8, <3>1
    <3>4. (\A k \in Len(got) + 1 .. Len(sent) :
             \E q, c : sent[k] = q /\ new[k - 1] = c \o new[k] /\ Arrives(q, c))'
      BY ONLY <3>0, <2>9, <3>1
    <3> QED
      BY ONLY <3>2, <3>3, <3>4 DEF Tails
  <2> QED
    BY <2>10
<1> QED
  BY <1>4, <1>5, <1>6 DEF WireInv

\* A packet is read.
LEMMA WireRead == ASSUME WireInv, Read PROVE WireInv'
<1> DEFINE n == Len(sent)
           g == Len(got)
           x == Taken
           t == Append(got, x.v)
<1>1. /\ g < n /\ got' = t /\ wire' = x.in /\ zlib' = zlib /\ sent' = sent
  BY DEF Read
<1>2. Grown(got, t, x.v)
  <2> DEFINE y == x.v
  <2> HIDE DEF y
  <2>1. Grown(got, Append(got, y), y)
    BY AppendIs DEF WireInv
  <2> QED
    BY <2>1 DEF y
<1>3. n \in Nat /\ g \in Nat /\ DOMAIN got = 1 .. g
  BY SeqLen DEF WireInv
<1> HIDE DEF x, t
<1>4. IsSeq(sent)' /\ IsSeq(got)' /\ (Len(got) <= Len(sent))' /\ Len(got') = g + 1
  BY <1>1, <1>2, <1>3 DEF Grown, IsSeq, WireInv
<1>5. x = Taking(sent[g + 1], wire)
  BY ONLY Zenon DEF x, Taken, Taking
<1>6. ASSUME Measured
      PROVE  (\E tail : Tails(tail)') /\ (Small(sent[g + 1]) => x.v = sent[g + 1].val)
  <2>1. PICK old : Tails(old)
    BY <1>6 DEF WireInv
  <2>2. /\ old \in [g .. n -> Seq(Byte)] /\ old[g] = wire /\ old[n] = << >>
        /\ \A k \in g + 1 .. n : \E q, c : sent[k] = q /\ old[k - 1] = c \o old[k] /\ Arrives(q, c)
    BY ONLY <2>1, Zenon DEF Tails
  <2>3. g + 1 \in g + 1 .. n /\ (g + 1) - 1 = g /\ g + 1 \in g .. n /\ g + 1 \in 1 .. n
    BY <1>1, <1>3
  <2> DEFINE k0 == g + 1
             rest == old[k0]
  <2>4. PICK q, c : sent[k0] = q /\ old[k0 - 1] = c \o rest /\ Arrives(q, c)
    BY ONLY <2>2, <2>3, Zenon
  <2>5. wire = c \o rest /\ rest \in Seq(Byte)
    <3>1. rest \in Seq(Byte)
      BY <2>2, <2>3
    <3> QED
      BY ONLY <2>2, <2>3, <2>4, <3>1, Zenon
  <2>6. x = Taking(q, c \o rest)
    BY ONLY <1>5, <2>4, <2>5, Zenon
  <2>7. zlib => Small(q)
    <3>1. g + 1 \in DOMAIN sent
      BY <2>3, SeqLen DEF WireInv
    <3> QED
      BY ONLY <1>6, <2>4, <3>1, Zenon DEF Measured
  <2>8. x.in = rest /\ (Small(q) => x.v = q.val)
    BY ONLY <2>4, <2>5, <2>6, <2>7, Zenon DEF Arrives
  <2> DEFINE tail == [k \in k0 .. n |-> old[k]]
  <2>9. ASSUME NEW k \in k0 .. n
        PROVE  k \in g .. n /\ tail[k] = old[k]
    BY <1>3
  <2>10. tail \in [k0 .. n -> Seq(Byte)]
    BY <2>2, <2>9
  <2>11. tail[k0] = rest /\ tail[n] = << >>
    <3>1. k0 \in k0 .. n /\ n \in k0 .. n
      BY <1>1, <1>3
    <3> HIDE DEF tail
    <3> QED
      BY ONLY <2>2, <2>9, <3>1, Zenon
  <2> HIDE DEF tail
  <2>12. ASSUME NEW k \in k0 + 1 .. n
         PROVE  \E p, b : sent[k] = p /\ tail[k - 1] = b \o tail[k] /\ Arrives(p, b)'
    <3>1. k \in k0 .. n /\ k - 1 \in k0 .. n /\ k \in g + 1 .. n
      BY <1>3
    <3>2. PICK p, b : sent[k] = p /\ old[k - 1] = b \o old[k] /\ Arrives(p, b)
      BY ONLY <2>2, <3>1, Zenon
    <3>3. tail[k] = old[k] /\ tail[k - 1] = old[k - 1]
      BY ONLY <2>9, <3>1, Zenon
    <3>4. Arrives(p, b)'
      BY <1>1, <3>2, ArrivesSame
    <3> QED
      BY ONLY <3>2, <3>3, <3>4, Zenon
  <2>13. \E new : Tails(new)'
    <3>0. PICK new : new = tail
      BY Zenon
    <3>1. Len(got)' = k0 /\ Len(sent)' = n /\ wire' = rest /\ sent' = sent
      BY <1>1, <1>4, <2>8
    <3> HIDE DEF k0, n, rest
    <3>2. (new \in [Len(got) .. Len(sent) -> Seq(Byte)])'
      BY ONLY <3>0, <2>10, <3>1
    <3>3. (new[Len(got)] = wire /\ new[Len(sent)] = << >>)'
      BY ONLY <3>0, <2>11, <3>1
    <3>4. (\A k \in Len(got) + 1 .. Len(sent) :
             \E p, b : sent[k] = p /\ new[k - 1] = b \o new[k] /\ Arrives(p, b))'
      BY ONLY <3>0, <2>12, <3>1
    <3> QED
      BY ONLY <3>2, <3>3, <3>4 DEF Tails
  <2> QED
    BY ONLY <2>4, <2>8, <2>13, Zenon
<1>7. Measured' => \E tail : Tails(tail)'
  <2>1. Measured' => Measured
    BY <1>1 DEF Measured
  <2> QED
    BY ONLY <1>6, <2>1, Zenon
<1>8. RoundTrip'
  <2> SUFFICES ASSUME \A i \in DOMAIN sent : Small(sent[i])
               PROVE  \A i \in DOMAIN t : t[i] = sent[i].val
    BY <1>1 DEF RoundTrip
  <2>1. \A i \in DOMAIN got : got[i] = sent[i].val
    BY DEF WireInv, RoundTrip
  <2>2. Small(sent[g + 1])
    <3>1. g + 1 \in DOMAIN sent
      BY <1>1, <1>3, SeqLen DEF WireInv
    <3> QED
      BY ONLY <3>1, \A i \in DOMAIN sent : Small(sent[i]), Zenon
  <2>3. x.v = sent[g + 1].val
    <3>1. Measured
      BY DEF Measured
    <3> QED
      BY ONLY <1>6, <2>2, <3>1, Zenon
  <2>4. \A i \in DOMAIN t : i = g + 1 \/ i \in 1 .. g
    BY <1>2, <1>3 DEF Grown
  <2>5. t[g + 1] = x.v /\ \A i \in 1 .. g : t[i] = got[i]
    BY ONLY <1>2, Zenon DEF Grown
  <2> QED
    BY ONLY <1>3, <2>1, <2>3, <2>4, <2>5, Zenon
<1> QED
  BY <1>4, <1>7, <1>8 DEF WireInv

\* A struct is written, or an assertion ends the writer.
LEMMA WireStruct == ASSUME Guarded, WireInv, WriteStruct PROVE WireInv'
<1>1. PICK name \in DOMAIN Structs, s \in Seeds :
        LET p == Structs[name]
        IN  \E n \in IF HasLength(p, 1) THEN Counts ELSE {0},
               l \in IF HasLength(p, 2) THEN Lengths ELSE {0} :
              LET val == Filled(p, s, n, l)
              IN  IF Debug /\ \E m \in DOMAIN val : ~Fits(p.is[m], val[m])
                  THEN aborted' = TRUE /\ UNCHANGED <<zlib, sent, got, wire>>
                  ELSE /\ sent' = Append(sent, [name |-> name, w |-> 0, val |-> val])
                       /\ wire' = wire \o PutStruct(p, val)
                       /\ UNCHANGED <<zlib, got, aborted>>
  BY Zenon DEF WriteStruct
<1> DEFINE p == Structs[name]
<1>2. PICK n \in (IF HasLength(p, 1) THEN Counts ELSE {0}),
           l \in (IF HasLength(p, 2) THEN Lengths ELSE {0}) :
        LET val == Filled(p, s, n, l)
        IN  IF Debug /\ \E m \in DOMAIN val : ~Fits(p.is[m], val[m])
            THEN aborted' = TRUE /\ UNCHANGED <<zlib, sent, got, wire>>
            ELSE /\ sent' = Append(sent, [name |-> name, w |-> 0, val |-> val])
                 /\ wire' = wire \o PutStruct(p, val)
                 /\ UNCHANGED <<zlib, got, aborted>>
  BY <1>1, Zenon
<1> DEFINE val == Filled(p, s, n, l)
           Fit == \A m \in DOMAIN val : Fits(p.is[m], val[m])
<1>3. CASE Debug /\ ~Fit
  <2>1. UNCHANGED <<zlib, sent, got, wire>>
    BY <1>2, <1>3, Zenon
  <2> QED
    BY <2>1, WireIdle
<1>4. CASE ~Debug \/ Fit
  <2>1. /\ sent' = Append(sent, [name |-> name, w |-> 0, val |-> val])
        /\ wire' = wire \o PutStruct(p, val)
        /\ UNCHANGED <<zlib, got>>
    BY <1>2, <1>4, Zenon
  <2>2. s \in Nat /\ n \in Nat /\ l \in Nat
    <3>1. n \in Counts \cup {0} /\ l \in Lengths \cup {0} /\ s \in Seeds
      BY Zenon
    <3> QED
      BY ONLY <3>1, PacketsAssumption
  <2>3. Fit \/ Short(s, n, l)
    <3>1. CASE ~Debug
      <4>1. Pow[1] \in Nat /\ Pow[2] \in Nat /\ Pow[1] > 0 /\ Pow[2] > 0
        <5> DEFINE one == 1
                   two == 2
        <5>1. one \in 0 .. 8 /\ two \in 0 .. 8 /\ one \in one .. 8 /\ two \in two .. 8
          OBVIOUS
        <5> HIDE DEF one, two
        <5>2. Pow[one] \in Nat /\ Pow[two] \in Nat /\ Pow[one] > 0 /\ Pow[two] > 0
          BY ONLY <5>1, PowGrows
        <5> QED
          BY <5>2 DEF one, two
      <4>2. n \in Counts \cup {0} /\ l \in Lengths \cup {0} /\ s \in Seeds
        BY Zenon
      <4>3. /\ Counts \subseteq 0 .. Pow[1] - 1 /\ Lengths \subseteq 0 .. Pow[2] - 1
            /\ Seeds \subseteq 0 .. Pow[2] - 1
        BY <3>1 DEF Guarded
      <4>4. n < Pow[1] /\ l < Pow[2] /\ s < Pow[2]
        BY ONLY <2>2, <4>1, <4>2, <4>3
      <4> QED
        BY ONLY <4>4, Zenon DEF Short
    <3>2. CASE Fit
      BY <3>2
    <3> QED
      BY <1>4, <3>1, <3>2
  <2>4. IsPacket(Structs[name], val)
    <3>1. Agrees(p)
      BY StructsAgree, Zenon
    <3>2. val = Filled(p, s, n, l)
      OBVIOUS
    <3> HIDE DEF p, val
    <3>3. IsPacket(p, val)
      BY ONLY <2>2, <2>3, <3>1, <3>2, FilledIs
    <3> QED
      BY ONLY <3>3 DEF p
  <2> HIDE DEF val
  <2> DEFINE q == [name |-> name, w |-> 0, val |-> val]
             b == PutStruct(Structs[name], val)
  <2>5. Arrives(q, b)
    BY ONLY <2>4, name \in DOMAIN Structs, StructArrives
  <2>6. sent' = Append(sent, q) /\ wire' = wire \o b /\ UNCHANGED <<zlib, got>>
    BY ONLY <2>1, Zenon DEF p
  <2> HIDE DEF q, b
  <2> QED
    BY ONLY <2>5, <2>6, WireInv, WireGrows
<1> QED
  BY <1>3, <1>4, Zenon

\* A payload is written.
LEMMA WirePayload == ASSUME WireInv, WritePayload PROVE WireInv'
<1>1. PICK w \in SizeTs, ptr \in BOOLEAN, same \in BOOLEAN, fails \in BOOLEAN, n \in DataSizes :
        LET d == [i \in 1 .. n |-> IF same THEN 1 ELSE i % Base]
        IN  /\ sent' = Append(sent, [name |-> "Payload", w |-> w, val |-> [mData |-> d]])
            /\ wire' = wire \o PutPayload(w, ptr, d, fails)
            /\ UNCHANGED <<zlib, got, aborted>>
  BY Zenon DEF WritePayload
<1> DEFINE d == [i \in 1 .. n |-> IF same THEN 1 ELSE i % Base]
           p == [name |-> "Payload", w |-> w, val |-> [mData |-> d]]
<1>2. d \in Seq(Byte)
  <2>1. n \in Nat /\ Base \in Nat /\ Base > 1
    BY PacketsAssumption
  <2>2. ASSUME NEW i \in 1 .. n
        PROVE  (IF same THEN 1 ELSE i % Base) \in Byte
    <3>1. i \in Nat
      BY <2>1
    <3>2. i % Base \in Nat /\ i % Base < Base
      BY ONLY <2>1, <3>1, RestBelow
    <3> QED
      BY <2>1, <3>2 DEF Byte
  <2> QED
    BY ONLY <2>1, <2>2
<1>3. sent' = Append(sent, p) /\ wire' = wire \o PutPayload(w, ptr, d, fails) /\ UNCHANGED <<zlib, got>>
  BY <1>1, Zenon
<1> HIDE DEF d
<1>4. Arrives(p, PutPayload(w, ptr, d, fails))
  BY ONLY <1>2, w \in SizeTs, ptr \in BOOLEAN, fails \in BOOLEAN, PayloadArrives
<1>5. PICK b : b = PutPayload(w, ptr, d, fails)
  BY Zenon
<1> HIDE DEF p
<1>6. Arrives(p, b) /\ wire' = wire \o b
  BY ONLY <1>3, <1>4, <1>5, Zenon
<1> QED
  BY ONLY <1>3, <1>6, WireInv, WireGrows

\* The invariant is inductive.
LEMMA WireInvariant == ASSUME Guarded PROVE Spec => []WireInv
<1>1. Init => WireInv
  <2> SUFFICES ASSUME Init
               PROVE  WireInv
    OBVIOUS
  <2>1. sent = << >> /\ got = << >> /\ wire = << >>
    BY DEF Init
  <2>2. IsSeq(<< >>)
    <3>1. << >> \in Seq(Byte)
      OBVIOUS
    <3> QED
      BY ONLY <3>1, Zenon DEF IsSeq
  <2>3. Len(<< >>) = 0 /\ DOMAIN << >> = {}
    OBVIOUS
  <2>4. RoundTrip
    BY <2>1, <2>3 DEF RoundTrip
  <2> DEFINE tail == [k \in 0 .. 0 |-> << >>]
  <2>5. Tails(tail)
    <3>1. tail \in [0 .. 0 -> Seq(Byte)] /\ tail[0] = << >>
      OBVIOUS
    <3>2. 0 + 1 .. 0 = {}
      OBVIOUS
    <3> HIDE DEF tail
    <3> QED
      BY <2>1, <2>3, <3>1, <3>2 DEF Tails
  <2> QED
    BY <2>1, <2>2, <2>3, <2>4, <2>5 DEF WireInv
<1>2. WireInv /\ [Next]_vars => WireInv'
  <2> SUFFICES ASSUME WireInv, [Next]_vars
               PROVE  WireInv'
    OBVIOUS
  <2>1. CASE WriteStruct
    BY <2>1, WireStruct
  <2>2. CASE WritePayload
    BY <2>2, WirePayload
  <2>3. CASE Read
    BY <2>3, WireRead
  <2>4. CASE UNCHANGED vars
    BY <2>4, WireIdle DEF vars
  <2> QED
    BY <2>1, <2>2, <2>3, <2>4 DEF Next
<1> QED
  BY <1>1, <1>2, PTL DEF Spec

\* What is read is what was written, member by member and in order, for any number of packets of
\* any kind that are written before, between and after the reads (RoundTrip).
THEOREM RoundTripHolds == ASSUME Guarded PROVE Spec => []RoundTrip
<1>1. WireInv => RoundTrip
  BY DEF WireInv
<1> QED
  BY <1>1, WireInvariant, PTL

\* The stream stays in step: the reader leaves no byte behind when it has read every packet, and
\* never waits for a byte that nobody has written (InStep).
THEOREM InStepHolds == ASSUME Guarded PROVE Spec => []InStep
<1>1. WireInv => InStep
  <2> SUFFICES ASSUME WireInv, Measured
               PROVE  /\ Len(got) = Len(sent) => wire = << >>
                      /\ Len(got) < Len(sent) => Taken.ok
    BY DEF InStep, Measured
  <2> DEFINE n == Len(sent)
             g == Len(got)
  <2>1. PICK tail : Tails(tail)
    BY DEF WireInv
  <2>2. /\ tail \in [g .. n -> Seq(Byte)] /\ tail[g] = wire /\ tail[n] = << >>
        /\ \A k \in g + 1 .. n : \E p, b : sent[k] = p /\ tail[k - 1] = b \o tail[k] /\ Arrives(p, b)
    BY ONLY <2>1, Zenon DEF Tails
  <2>3. g = n => wire = << >>
    BY ONLY <2>2, Zenon
  <2>4. ASSUME g < n
        PROVE  Taken.ok
    <3>1. n \in Nat /\ g \in Nat /\ DOMAIN sent = 1 .. n
      BY SeqLen DEF WireInv
    <3>2. g + 1 \in g + 1 .. n /\ (g + 1) - 1 = g /\ g + 1 \in g .. n /\ g + 1 \in DOMAIN sent
      BY <2>4, <3>1
    <3>3. PICK p, b : sent[g + 1] = p /\ tail[(g + 1) - 1] = b \o tail[g + 1] /\ Arrives(p, b)
      BY ONLY <2>2, <3>2, Zenon
    <3> DEFINE rest == tail[g + 1]
    <3>4. rest \in Seq(Byte)
      BY <2>2, <3>2
    <3>5. wire = b \o rest
      BY ONLY <2>2, <3>2, <3>3, Zenon
    <3>6. zlib => Small(p)
      BY ONLY <3>2, <3>3, Measured, Zenon DEF Measured
    <3>7. Taking(p, b \o rest).ok
      BY ONLY <3>3, <3>4, <3>6, Zenon DEF Arrives
    <3>8. Taken = Taking(sent[g + 1], wire)
      BY ONLY Zenon DEF Taken, Taking
    <3> QED
      BY ONLY <3>3, <3>5, <3>7, <3>8, Zenon
  <2> QED
    BY <2>3, <2>4
<1> QED
  BY <1>1, WireInvariant, PTL
=============================================================================
