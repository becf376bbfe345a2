---- MODULE PrimesProofs ----
(***************************************************************************)
(* Theorems about the prime sieves, parallel_primes.c,                     *)
(* parallel_primes_iterative.c and sequential_primes.c: for every limit and*)
(* every number of processes they deliver exactly the primes, in order.    *)
(***************************************************************************)
EXTENDS MCPrimes, WellFoundedInduction, FiniteSetTheorems, TLAPS
----
(* Numbers. *)

(* A set of numbers has a least element, which takes the place of
   induction. *)
LEMMA LeastNumber ==
  ASSUME NEW T, T \subseteq Nat, T # {}
  PROVE  \E m \in T : \A k \in T : m <= k
<1>1. PICK m \in T : \A k \in T : <<k, m>> \notin OpToRel(<, Nat)
  BY WFMin, NatLessThanWellFounded, Zenon
<1>2. \A k \in T : ~ (k < m)
  BY <1>1, Zenon DEF OpToRel
<1> QED BY <1>2

(* Division with remainder. *)
LEMMA DivMod ==
  ASSUME NEW a \in Nat, NEW d \in Nat \ {0}
  PROVE  /\ a \div d \in Nat /\ a % d \in 0 .. d-1
         /\ a = d * (a \div d) + (a % d)
OBVIOUS

LEMMA DivModIs ==
  ASSUME NEW d \in Nat \ {0}, NEW q \in Nat, NEW r \in 0 .. d-1
  PROVE  (d * q + r) % d = r /\ (d * q + r) \div d = q
OBVIOUS

LEMMA Multiple ==
  ASSUME NEW a \in Nat, NEW d \in Nat \ {0}
  PROVE  a % d = 0 <=> \E q \in Nat : a = d * q
<1>1. ASSUME NEW q \in Nat, a = d * q
      PROVE  a % d = 0
  <2>1. (d * q + 0) % d = 0
    BY DivModIs
  <2>2. d * q + 0 = a
    BY <1>1
  <2> QED BY <2>1, <2>2
<1>2. a % d = 0 => a = d * (a \div d) /\ a \div d \in Nat
  BY DivMod
<1> QED BY <1>1, <1>2

(* A divisor is not larger. *)
LEMMA FactorsBelow ==
  ASSUME NEW d \in Nat \ {0}, NEW q \in Nat \ {0}
  PROVE  q <= d * q /\ d <= d * q
OBVIOUS

LEMMA DivisorBelow ==
  ASSUME NEW a \in Nat \ {0}, NEW d \in Nat \ {0}, a % d = 0
  PROVE  d <= a
<1>1. PICK q \in Nat : a = d * q
  BY Multiple
<1>2. q # 0
  BY <1>1
<1> QED BY <1>1, <1>2, FactorsBelow

(* Dividing is transitive. *)
LEMMA DivisorOfDivisor ==
  ASSUME NEW a \in Nat, NEW d \in Nat \ {0}, NEW e \in Nat \ {0}, a % d = 0, d % e = 0
  PROVE  a % e = 0
<1>1. PICK q \in Nat : a = d * q
  BY Multiple
<1>2. PICK r \in Nat : d = e * r
  BY Multiple
<1>3. r * q \in Nat /\ a = e * (r * q)
  BY <1>1, <1>2
<1> QED BY <1>3, Multiple

(* The multiples of a number are closed under sum and difference. *)
LEMMA SumOfMultiples ==
  ASSUME NEW a \in Nat, NEW b \in Nat, NEW d \in Nat \ {0}, b % d = 0
  PROVE  (a + b) % d = a % d
<1>1. PICK q \in Nat : b = d * q
  BY Multiple
<1>2. PICK p \in Nat, r \in 0 .. d-1 : a = d * p + r /\ r = a % d
  BY DivMod
<1>3. d * (p + q) = d * p + d * q /\ p + q \in Nat
  OBVIOUS
<1>4. a + b = d * (p + q) + r
  BY <1>1, <1>2, <1>3
<1>5. (d * (p + q) + r) % d = r
  BY <1>3, DivModIs
<1> QED BY <1>2, <1>4, <1>5

(* An odd number that divides an even number divides its half. *)
LEMMA OddDivisor ==
  ASSUME NEW x \in Nat, NEW d \in Nat \ {0}, d % 2 = 1, (2 * x) % d = 0
  PROVE  x % d = 0
<1>1. PICK q \in Nat : 2 * x = d * q
  BY Multiple
<1>2. PICK e \in Nat : d = 2 * e + 1
  BY DivMod
<1>3. d * q = 2 * (e * q) + q /\ e * q \in Nat
  BY <1>2
<1>4. PICK y \in Int : y = x - e * q
  BY <1>3
<1>5. q = 2 * y
  BY <1>1, <1>3, <1>4
<1>6. y \in Nat
  BY <1>5
<1>7. d * (2 * y) = 2 * (d * y) /\ d * y \in Nat
  BY <1>6
<1>8. x = d * y
  BY <1>1, <1>5, <1>7
<1> QED BY <1>6, <1>8, Multiple

(* A divisor of an odd number is odd. *)
LEMMA DivisorIsOdd ==
  ASSUME NEW a \in Nat, a % 2 = 1, NEW d \in Nat \ {0}, a % d = 0
  PROVE  d % 2 = 1
<1>1. ASSUME d % 2 = 0
      PROVE  a % 2 = 0
  <2>1. 2 \in Nat \ {0}
    OBVIOUS
  <2> QED BY <1>1, <2>1, DivisorOfDivisor
<1>2. d % 2 \in 0 .. 1
  BY DivMod
<1> QED BY <1>1, <1>2

(* What is greater than 1 has a prime divisor, and unless it is prime a
   prime divisor up to its square root. *)
LEMMA PrimeDivisor ==
  ASSUME NEW m \in Nat, m > 1
  PROVE  \E q \in 2 .. m : IsPrime(q) /\ m % q = 0 /\ (IsPrime(m) \/ q * q <= m)
<1> DEFINE T == {d \in 2 .. m : m % d = 0}
<1>1. m % m = 0
  BY Multiple, m = m * 1
<1>2. T \subseteq Nat /\ m \in T
  BY <1>1
<1>3. PICK q \in T : \A k \in T : q <= k
  BY <1>2, LeastNumber
<1>t. q \in Nat /\ q > 1 /\ q <= m /\ m % q = 0
  BY <1>3
<1>4. IsPrime(q)
  <2> SUFFICES ASSUME NEW d \in 2 .. q-1, q % d = 0
               PROVE  FALSE
    BY <1>t DEF IsPrime
  <2>1. d \in Nat \ {0} /\ q \in Nat \ {0}
    BY <1>t
  <2>2. m % d = 0
    BY DivisorOfDivisor, <1>t, <2>1
  <2>3. d \in T
    BY <1>t, <2>1, <2>2
  <2>4. q <= d
    <3> HIDE DEF T
    <3> QED BY <2>3, <1>3
  <2>5. d <= q-1
    BY <1>t
  <2> QED BY <2>1, <2>4, <2>5, <1>t
<1>5. ASSUME ~ IsPrime(m)
      PROVE  q * q <= m
  <2>1. PICK e \in Nat : m = q * e
    BY Multiple, <1>3
  <2>2. e # 0 /\ e # 1
    <3>1. q # m
      BY <1>4, <1>5
    <3> QED BY <2>1, <3>1, <1>3
  <2>3. m = e * q /\ q \in Nat
    BY <2>1, <1>3
  <2>4. m % e = 0 /\ e <= m
    BY <2>2, <2>3, Multiple, FactorsBelow, <1>3
  <2>5. q <= e
    BY <2>2, <2>4, <1>3
  <2>6. q * q <= q * e
    BY <2>5, <2>3
  <2> QED BY <2>1, <2>6
<1> QED BY <1>3, <1>4, <1>5

(* The roots are what they are called. *)
LEMMA CeilSqrtIs ==
  ASSUME NEW m \in Nat \ {0, 1}
  PROVE  /\ CeilSqrt(m) \in 2 .. m
         /\ CeilSqrt(m) * CeilSqrt(m) >= m
         /\ (CeilSqrt(m) - 1) * (CeilSqrt(m) - 1) < m
<1> DEFINE T == {r \in Nat : r * r >= m}
<1>1. m \in T /\ T \subseteq Nat
  <2>1. m * m >= m
    BY FactorsBelow
  <2> QED BY <2>1
<1>2. PICK r \in T : \A k \in T : r <= k
  BY <1>1, LeastNumber
<1>3. r \in 0 .. m /\ r * r >= m /\ r # 0
  BY <1>1, <1>2
<1>4. (r-1) * (r-1) < m
  <2>1. r-1 \in Nat /\ r-1 \notin T
    BY <1>2, <1>3
  <2> QED BY <2>1
<1>5. /\ CeilSqrt(m) \in 0 .. m /\ CeilSqrt(m) * CeilSqrt(m) >= m
      /\ CeilSqrt(m) = 0 \/ (CeilSqrt(m) - 1) * (CeilSqrt(m) - 1) < m
  BY <1>3, <1>4 DEF CeilSqrt
<1>6. CeilSqrt(m) # 0 /\ CeilSqrt(m) # 1
  BY <1>5
<1> QED BY <1>5, <1>6

LEMMA FloorSqrtIs ==
  ASSUME NEW m \in Nat \ {0, 1}
  PROVE  /\ FloorSqrt(m) \in 1 .. m
         /\ FloorSqrt(m) * FloorSqrt(m) <= m
         /\ m < (FloorSqrt(m) + 1) * (FloorSqrt(m) + 1)
<1> DEFINE T == {r \in Nat : m < (r+1) * (r+1)}
<1>1. m \in T /\ T \subseteq Nat
  <2>1. m+1 <= (m+1) * (m+1)
    BY FactorsBelow
  <2> QED BY <2>1
<1>2. PICK r \in T : \A k \in T : r <= k
  BY <1>1, LeastNumber
<1>3. r \in 0 .. m /\ m < (r+1) * (r+1) /\ r # 0
  BY <1>1, <1>2
<1>4. r * r <= m
  <2>1. r-1 \in Nat /\ r-1 \notin T /\ (r-1) + 1 = r
    BY <1>2, <1>3
  <2> QED BY <2>1
<1>5. /\ FloorSqrt(m) \in 0 .. m /\ FloorSqrt(m) * FloorSqrt(m) <= m
      /\ m < (FloorSqrt(m) + 1) * (FloorSqrt(m) + 1)
  BY <1>3, <1>4 DEF FloorSqrt
<1>6. FloorSqrt(m) # 0
  BY <1>5
<1> QED BY <1>5, <1>6

(* Squares grow. *)
LEMMA SquaresGrow ==
  ASSUME NEW a \in Nat, NEW b \in Nat
  PROVE  /\ a <= b => a * a <= b * b
         /\ a < b => a * a < b * b
         /\ a * a < b * b => a < b
<1>1. ASSUME NEW x \in Nat, NEW y \in Nat, x <= y
      PROVE  x * x <= y * y /\ (x < y => x * x < y * y)
  <2>1. PICK z \in Nat : y = x + z
    BY <1>1
  <2>2. (x + z) * (x + z) = x * x + 2 * (x * z) + z * z /\ x * z \in Nat /\ z * z \in Nat
    OBVIOUS
  <2>3. z # 0 => z * z # 0
    OBVIOUS
  <2> QED BY <2>1, <2>2, <2>3
<1> QED BY <1>1

(* An odd number that no smaller odd prime up to its root divides is prime. *)
LEMMA OddPrime ==
  ASSUME NEW m \in Nat, m > 1, m % 2 = 1, ~ IsPrime(m)
  PROVE  \E q \in 3 .. m-1 : IsPrime(q) /\ q % 2 = 1 /\ m % q = 0 /\ q * q <= m
<1>1. PICK q \in 2 .. m : IsPrime(q) /\ m % q = 0 /\ q * q <= m
  BY PrimeDivisor
<1>2. q \in Nat \ {0} /\ q % 2 = 1
  BY <1>1, DivisorIsOdd
<1>3. q # 2 /\ q # m
  BY <1>1, <1>2
<1> QED BY <1>1, <1>2, <1>3

(* A prime has no divisor but itself. *)
LEMMA PrimeIsNoMultiple ==
  ASSUME NEW m \in Nat, IsPrime(m), NEW q \in Nat, q > 1, m % q = 0
  PROVE  m = q
<1>1. m > 1 /\ \A d \in 2 .. m-1 : m % d # 0
  BY DEF IsPrime
<1>2. q <= m
  BY <1>1, DivisorBelow
<1> QED BY <1>1, <1>2
----
(* The blocks. *)

(* The limit and the number of processes are what the programs make them. *)
SizesOK == n \in Nat \ {0, 1} /\ P \in Nat \ {0}

LEMMA OddsAre ==
  ASSUME NEW m \in Nat \ {0, 1}
  PROVE  /\ OddsUpTo(m) \in Nat
         /\ m = 2 * OddsUpTo(m) + 1 \/ m = 2 * OddsUpTo(m) + 2
BY DEF OddsUpTo

LEMMA DivGrows ==
  ASSUME NEW a \in Nat, NEW b \in Nat, NEW d \in Nat \ {0}, a <= b
  PROVE  a \div d <= b \div d
<1>1. PICK p \in Nat, q \in 0 .. d-1 : a = d * p + q /\ p = a \div d
  BY DivMod
<1>2. PICK u \in Nat, v \in 0 .. d-1 : b = d * u + v /\ u = b \div d
  BY DivMod
<1>3. ASSUME u < p
      PROVE  FALSE
  <2>1. PICK w \in Nat : p = u + 1 + w
    BY <1>3
  <2>2. d * (u + 1 + w) = d * u + d + d * w /\ d * w \in Nat /\ d * u \in Nat
    OBVIOUS
  <2> QED BY <1>1, <1>2, <2>1, <2>2
<1> QED BY <1>1, <1>2, <1>3

(* Blocks lie one behind the other and cover everything. *)
LEMMA BlocksAre ==
  ASSUME SizesOK
  PROVE  /\ \A s \in Procs : /\ Left(s) \in Nat /\ Right(s) \in Nat
                               /\ Left(s) <= Right(s) /\ Right(s) <= OddsUpTo(n)
         /\ \A s, t \in Procs : s < t => Right(s) <= Left(t)
         /\ Left(0) = 0
         /\ \A k \in 0 .. OddsUpTo(n) - 1 : \E s \in Procs : k \in Block(s)
         /\ \A s \in Procs : Block(s) \subseteq 0 .. OddsUpTo(n) - 1
         /\ \A s, t \in Procs : s # t => Block(s) \cap Block(t) = {}
<1> DEFINE O == OddsUpTo(n)
           Cut(s) == (s * O) \div P
<1>t. O \in Nat /\ P \in Nat \ {0}
  BY OddsAre DEF SizesOK
<1>1. \A s : Left(s) = Cut(s) /\ Right(s) = Cut(s + 1)
  BY DEF Left, Right
<1> HIDE DEF O
<1>2. ASSUME NEW s \in Nat, NEW t \in Nat, s <= t
      PROVE  Cut(s) \in Nat /\ Cut(s) <= Cut(t)
  <2>1. PICK z \in Nat : t = s + z
    BY <1>2
  <2>2. s * O \in Nat /\ z * O \in Nat /\ t * O \in Nat /\ (s + z) * O = s * O + z * O
    BY <1>t
  <2>3. s * O <= t * O
    BY <2>1, <2>2
  <2> QED BY <1>t, <2>2, <2>3, DivGrows, DivMod
<1>3. Cut(0) = 0 /\ Cut(P) = O
  <2>1. (P * 0 + 0) \div P = 0 /\ (P * O + 0) \div P = O
    BY <1>t, DivModIs
  <2>2. P * 0 + 0 = 0 * O /\ P * O + 0 = P * O
    BY <1>t
  <2> QED BY <2>1, <2>2
<1> HIDE DEF Cut
<1>4. \A s \in Procs : s \in Nat /\ s + 1 \in Nat /\ s + 1 <= P
  BY <1>t DEF Procs
<1>5. \A s \in Procs : /\ Left(s) \in Nat /\ Right(s) \in Nat
                        /\ Left(s) <= Right(s) /\ Right(s) <= O
  <2> TAKE s \in Procs
  <2>1. Cut(s) \in Nat /\ Cut(s) <= Cut(s + 1)
    BY <1>2, <1>4
  <2>2. Cut(s + 1) \in Nat /\ Cut(s + 1) <= Cut(P)
    BY <1>2, <1>4, <1>t
  <2> QED BY <1>1, <1>3, <2>1, <2>2
<1>6. \A s, t \in Procs : s < t => Right(s) <= Left(t)
  <2> SUFFICES ASSUME NEW s \in Procs, NEW t \in Procs, s < t
               PROVE  Cut(s + 1) <= Cut(t)
    BY <1>1
  <2> QED BY <1>2, <1>4
<1>7. \A k \in 0 .. O - 1 : \E s \in Procs : k \in Block(s)
  <2> TAKE k \in 0 .. O - 1
  <2> DEFINE T == {s \in Nat : s < P /\ k < Cut(s + 1)}
  <2>1. P - 1 \in T
    <3>1. P - 1 \in Nat /\ (P - 1) + 1 = P
      BY <1>t
    <3> QED BY <3>1, <1>3, <1>t
  <2>2. PICK s \in T : \A t \in T : s <= t
    <3>1. T \subseteq Nat /\ T # {}
      BY <2>1
    <3> HIDE DEF T
    <3> QED BY <3>1, LeastNumber
  <2>3. s \in Procs /\ k < Cut(s + 1)
    BY <2>2, <1>t DEF Procs
  <2>4. Cut(s) <= k
    <3>1. CASE s = 0
      BY <3>1, <1>3
    <3>2. CASE s # 0
      <4>1. s - 1 \in Nat /\ (s - 1) + 1 = s /\ s - 1 < P /\ ~ (s <= s - 1)
        <5>1. s \in Nat /\ s + 1 <= P
          BY <2>3, <1>4
        <5> QED BY <5>1, <3>2, <1>t
      <4>2. s - 1 \notin T
        <5> HIDE DEF T
        <5> QED BY <4>1, <2>2
      <4>3. Cut(s) \in Nat
        BY <1>2, <1>4, <2>3
      <4> QED BY <4>1, <4>2, <4>3
    <3> QED BY <3>1, <3>2
  <2>5. k \in Block(s)
    <3>1. Left(s) = Cut(s) /\ Right(s) = Cut(s + 1) /\ Left(s) \in Nat /\ Right(s) \in Nat
      BY <1>1, <1>5, <2>3
    <3> QED BY <3>1, <2>3, <2>4, <1>t DEF Block
  <2> QED BY <2>3, <2>5
<1>8. \A s \in Procs : Block(s) \subseteq 0 .. O - 1
  BY <1>5, <1>t DEF Block
<1>9. \A s, t \in Procs : s # t => Block(s) \cap Block(t) = {}
  <2>1. \A s, t \in Procs : s < t => Block(s) \cap Block(t) = {}
    BY <1>5, <1>6 DEF Block
  <2> QED BY <2>1, <1>4
<1> QED BY <1>1, <1>3, <1>5, <1>6, <1>7, <1>8, <1>9 DEF O

(* Steps of a prime in the array are steps of twice the prime in numbers. *)
LEMMA StepsOf ==
  ASSUME NEW g \in Nat, NEW k \in Nat, k >= g,
         NEW p \in Nat \ {0}, p % 2 = 1, (2 * g + 3) % p = 0
  PROVE  (k - g) % p = 0 <=> (2 * k + 3) % p = 0
<1>1. PICK d \in Nat : k = g + d
  OBVIOUS
<1>t. 2 * d \in Nat /\ 2 * g + 3 \in Nat
  OBVIOUS
<1>2. k - g = d /\ 2 * k + 3 = 2 * d + (2 * g + 3)
  BY <1>1
<1>3. (2 * d + (2 * g + 3)) % p = (2 * d) % p
  BY <1>t, SumOfMultiples
<1>4. d % p = 0 => (2 * d) % p = 0
  <2>1. ASSUME d % p = 0
        PROVE  (2 * d) % p = 0
    <3>1. PICK q \in Nat : d = p * q
      BY <2>1, Multiple
    <3>2. 2 * q \in Nat /\ 2 * d = p * (2 * q)
      BY <3>1
    <3> QED BY <1>t, <3>2, Multiple
  <2> QED BY <2>1
<1>5. (2 * d) % p = 0 => d % p = 0
  BY OddDivisor
<1> QED BY <1>2, <1>3, <1>4, <1>5

(* What is crossed off is what has to be: no multiple is missed because of
   where the block begins or ends. *)
LEMMA CrossedOffIs ==
  ASSUME SizesOK, NEW s \in Procs, NEW p \in Nat, p > 1, p % 2 = 1
  PROVE  CrossedOff(s, p) = {k \in Block(s) : NumberAt(k) % p = 0 /\ NumberAt(k) # p}
<1> DEFINE L == Left(s)
           R == Right(s)
           g == GetStart(L, R, p)
<1>t. L \in Nat /\ R \in Nat /\ p \in Nat \ {0}
  BY BlocksAre
<1>b. Block(s) = L .. R-1
  BY DEF Block
<1>c. CrossedOff(s, p) = {k \in Block(s) : /\ g # -1 /\ k >= g /\ (k - g) % p = 0
                                           /\ NumberAt(k) # p}
  BY DEF CrossedOff
<1> HIDE DEF L, R
<1>1. PICK f \in Nat, m \in 0 .. p-1 : 2 * L + 3 = p * f + m /\ m = (2 * L + 3) % p
  <2>1. 2 * L + 3 \in Nat
    BY <1>t
  <2> QED BY <1>t, <2>1, DivMod
<1>2. p * f \in Nat /\ p * (f + 1) = p * f + p /\ p * (f + 2) = p * f + p + p
  OBVIOUS
<1> DEFINE start == p * (f + 1)
<1>3. g = IF m = 0 /\ 2 * L + 3 # p THEN L
          ELSE IF start > 2 * R + 1 THEN -1
          ELSE IF start % 2 = 0 THEN (start + p - 1) \div 2 - 1
          ELSE (start - 1) \div 2 - 1
  <2>1. (2 * L + 3) - ((2 * L + 3) % p) + p = start
    BY <1>1, <1>2, <1>t
  <2> QED BY <2>1, <1>1 DEF GetStart
<1> HIDE DEF g
<1>4. ASSUME NEW k \in L .. R-1, NumberAt(k) # p
      PROVE  (g # -1 /\ k >= g /\ (k - g) % p = 0) <=> NumberAt(k) % p = 0
  <2> DEFINE N == 2 * k + 3
  <2>t. N \in Nat /\ k \in Nat /\ N >= 2 * L + 3 /\ N <= 2 * R + 1 /\ NumberAt(k) = N
        /\ k >= L
    BY <1>t, <1>4 DEF NumberAt
  <2> HIDE DEF N
  <2>1. CASE m = 0 /\ 2 * L + 3 # p
    <3>1. g = L
      BY <1>3, <2>1
    <3>2. (2 * L + 3) % p = 0
      BY <1>1, <2>1
    <3>3. (k - L) % p = 0 <=> (2 * k + 3) % p = 0
      BY <1>t, <2>t, <3>2, StepsOf
    <3> QED BY <3>1, <3>3, <2>t, <1>t DEF N
  <2>2. CASE ~ (m = 0 /\ 2 * L + 3 # p)
    <3>1. ASSUME N % p = 0
          PROVE  /\ N >= start
                 /\ start % 2 = 0 => N >= start + p
      <4>1. PICK q \in Nat : N = p * q
        BY <3>1, <1>t, <2>t, Multiple
      <4>2. q >= f + 1
        <5>1. ASSUME q <= f
              PROVE  FALSE
          <6>1. PICK z \in Nat : f = q + z
            BY <5>1
          <6>2. p * (q + z) = p * q + p * z /\ p * z \in Nat /\ p * q \in Nat
            OBVIOUS
          <6>3. N = p * f /\ m = 0 /\ N = 2 * L + 3
            BY <6>1, <6>2, <4>1, <1>1, <2>t, <1>t
          <6> QED BY <6>3, <2>2, <2>t, <1>4
        <5> QED BY <5>1
      <4>3. PICK z \in Nat : q = f + 1 + z
        BY <4>2
      <4>4. /\ p * (f + 1 + z) = p * (f + 1) + p * z
            /\ p * z \in Nat /\ (z # 0 => p * z >= p)
        OBVIOUS
      <4>5. N = start + p * z
        BY <4>1, <4>3, <4>4
      <4>6. z = 0 => N = start
        BY <4>5, <1>2
      <4>7. N % 2 = 1
        BY <2>t DEF N
      <4> QED BY <4>4, <4>5, <4>6, <4>7, <1>2, <1>t
    <3>s. start \in Nat /\ start > 2 * L + 3
      BY <1>1, <1>2, <1>t
    <3>m. start % p = 0 /\ (start + p) % p = 0
      <4>1. f + 1 \in Nat /\ f + 2 \in Nat /\ start = p * (f + 1) /\ start + p = p * (f + 2)
        BY <1>2
      <4> HIDE DEF start
      <4> QED BY <4>1, <3>s, <1>t, Multiple
    <3> HIDE DEF start
    <3>2. CASE start > 2 * R + 1
      <4>1. g = -1
        BY <1>3, <2>2, <3>2
      <4>2. ~ (N >= start)
        BY <2>t, <3>s, <3>2, <1>t
      <4> QED BY <4>1, <4>2, <3>1, <2>t
    <3>3. ASSUME NEW G \in Nat, g \in Nat, G = 2 * g + 3, G % p = 0,
                 N % p = 0 => N >= G
          PROVE  (g # -1 /\ k >= g /\ (k - g) % p = 0) <=> NumberAt(k) % p = 0
      <4>1. k >= g => ((k - g) % p = 0 <=> N % p = 0)
        <5> SUFFICES ASSUME k >= g
                     PROVE  (k - g) % p = 0 <=> N % p = 0
          OBVIOUS
        <5>1. (2 * g + 3) % p = 0
          BY <3>3
        <5>2. (k - g) % p = 0 <=> (2 * k + 3) % p = 0
          BY <1>t, <2>t, <3>3, <5>1, StepsOf
        <5> QED BY <5>2 DEF N
      <4>2. N >= G => k >= g
        BY <3>3, <2>t DEF N
      <4> QED BY <3>3, <4>1, <4>2, <2>t
    <3>4. CASE ~ (start > 2 * R + 1) /\ start % 2 = 0
      <4>1. g = (start + p - 1) \div 2 - 1
        BY <1>3, <2>2, <3>4
      <4>2. g \in Nat /\ start + p = 2 * g + 3
        BY <4>1, <3>4, <3>s, <1>t
      <4> QED BY <4>2, <3>m, <3>1, <3>3, <3>4, <3>s, <1>t
    <3>5. CASE ~ (start > 2 * R + 1) /\ start % 2 # 0
      <4>1. g = (start - 1) \div 2 - 1
        BY <1>3, <2>2, <3>5
      <4>2. g \in Nat /\ start = 2 * g + 3
        BY <4>1, <3>5, <3>s, <1>t
      <4> QED BY <4>2, <3>m, <3>1, <3>3, <3>s
    <3> QED BY <3>2, <3>4, <3>5
  <2> QED BY <2>1, <2>2
<1> QED BY <1>4, <1>b, <1>c
----
(* Sieving. *)

(* The block of s after the multiples of all odd primes below b are crossed
   off, and what shall be left in the end. *)
SievedBelow(s, b) ==
  {k \in Block(s) : \A q \in 3 .. b-1 : IsPrime(q) => NumberAt(k) = q \/ NumberAt(k) % q # 0}

PrimesOf(s) == {k \in Block(s) : IsPrime(NumberAt(k))}

LEMMA BlockNumbers ==
  ASSUME SizesOK, NEW s \in Procs, NEW k \in Block(s)
  PROVE  /\ k \in Nat /\ NumberAt(k) \in Nat /\ NumberAt(k) >= 3 /\ NumberAt(k) <= n
         /\ NumberAt(k) % 2 = 1
<1>1. k \in 0 .. OddsUpTo(n) - 1
  BY BlocksAre
<1>2. n \in Nat \ {0, 1}
  BY DEF SizesOK
<1>3. OddsUpTo(n) \in Nat /\ 2 * OddsUpTo(n) + 1 <= n /\ n \in Nat
  <2>1. OddsUpTo(n) \in Nat /\ (n = 2 * OddsUpTo(n) + 1 \/ n = 2 * OddsUpTo(n) + 2)
    BY <1>2, OddsAre, Zenon
  <2> QED BY <2>1
<1> QED BY <1>1, <1>3 DEF NumberAt

(* Primes other than 2 are odd. *)
LEMMA PrimesAreOdd ==
  ASSUME NEW q \in Nat, q >= 3, IsPrime(q)
  PROVE  q % 2 = 1
<1>1. 2 \in 2 .. q-1
  OBVIOUS
<1>2. q % 2 # 0
  BY <1>1 DEF IsPrime
<1> QED BY <1>2

(* A round of the loop. *)
LEMMA SieveOne ==
  ASSUME SizesOK, NEW s \in Procs, NEW b \in Nat, b >= 3, b % 2 = 1
  PROVE  SievedBelow(s, b) \ CrossedOff(s, b) = SievedBelow(s, b + 1)
<1>t. b \in Nat /\ b > 1 /\ 3 .. (b+1)-1 = 3 .. b /\ 3 .. b-1 = (3 .. b) \ {b}
  OBVIOUS
<1>1. CrossedOff(s, b) = {k \in Block(s) : NumberAt(k) % b = 0 /\ NumberAt(k) # b}
  BY CrossedOffIs, <1>t
<1>2. CASE IsPrime(b)
  BY <1>t, <1>1, <1>2 DEF SievedBelow
<1>3. CASE ~ IsPrime(b)
  <2>1. SievedBelow(s, b + 1) = SievedBelow(s, b)
    BY <1>t, <1>3 DEF SievedBelow
  <2>2. PICK q \in 3 .. b-1 : IsPrime(q) /\ b % q = 0
    BY <1>t, <1>3, OddPrime
  <2>3. ASSUME NEW k \in SievedBelow(s, b), NumberAt(k) % b = 0
        PROVE  FALSE
    <3>1. NumberAt(k) \in Nat /\ NumberAt(k) >= 3 /\ k \in Block(s)
      BY BlockNumbers DEF SievedBelow
    <3>2. NumberAt(k) % q = 0 /\ NumberAt(k) >= b
      <4>1. q \in Nat \ {0} /\ b \in Nat \ {0} /\ NumberAt(k) \in Nat \ {0}
        BY <3>1, <2>2, <1>t
      <4> QED BY <4>1, <2>2, <2>3, DivisorOfDivisor, DivisorBelow
    <3>3. NumberAt(k) # q
      BY <3>1, <3>2, <2>2
    <3> QED BY <3>2, <3>3, <2>2, <2>3 DEF SievedBelow
  <2> QED BY <2>1, <2>3, <1>1
<1> QED BY <1>2, <1>3

(* Even numbers and numbers that are no primes can be left out. *)
LEMMA SkipComposites ==
  ASSUME NEW s, NEW b \in Nat, NEW c \in Nat, b <= c,
         \A q \in 3 .. c-1 : q >= b => ~ IsPrime(q)
  PROVE  SievedBelow(s, c) = SievedBelow(s, b)
<1>1. \A q \in 3 .. c-1 : IsPrime(q) => q \in 3 .. b-1
  OBVIOUS
<1>2. \A q \in 3 .. b-1 : q \in 3 .. c-1
  OBVIOUS
<1> QED BY <1>1, <1>2 DEF SievedBelow

(* A number whose mark is gone is no prime. *)
LEMMA UnmarkedIsComposite ==
  ASSUME SizesOK, NEW s \in Procs, NEW b \in Nat, NEW k \in Block(s) \ SievedBelow(s, b)
  PROVE  ~ IsPrime(NumberAt(k))
<1>1. PICK q \in 3 .. b-1 : NumberAt(k) # q /\ NumberAt(k) % q = 0
  BY DEF SievedBelow
<1>2. NumberAt(k) \in Nat /\ q \in Nat /\ q > 1
  BY BlockNumbers
<1> QED BY <1>1, <1>2, PrimeIsNoMultiple

(* Sieving with the odd numbers up to the root is enough. *)
LEMMA SievedIsPrime ==
  ASSUME SizesOK, NEW s \in Procs, NEW b \in Nat,
         \A q \in Nat : q % 2 = 1 /\ q * q <= n => q < b
  PROVE  SievedBelow(s, b) = PrimesOf(s)
<1>1. ASSUME NEW k \in SievedBelow(s, b)
      PROVE  IsPrime(NumberAt(k))
  <2>1. k \in Block(s) /\ NumberAt(k) \in Nat /\ NumberAt(k) >= 3 /\ NumberAt(k) <= n
        /\ NumberAt(k) % 2 = 1
    BY BlockNumbers DEF SievedBelow
  <2>2. ASSUME ~ IsPrime(NumberAt(k))
        PROVE  FALSE
    <3>1. PICK q \in 3 .. NumberAt(k) - 1 :
            IsPrime(q) /\ q % 2 = 1 /\ NumberAt(k) % q = 0 /\ q * q <= NumberAt(k)
      BY <2>1, <2>2, OddPrime
    <3>2. q \in Nat /\ q * q \in Nat /\ n \in Nat
      BY <3>1, <2>1 DEF SizesOK
    <3>3. q * q <= n
      BY <2>1, <3>1, <3>2
    <3>4. q \in 3 .. b-1 /\ q # NumberAt(k)
      BY <3>1, <3>2, <3>3, <2>1
    <3> QED BY <3>1, <3>4 DEF SievedBelow
  <2> QED BY <2>2
<1>2. ASSUME NEW k \in PrimesOf(s)
      PROVE  k \in SievedBelow(s, b)
  BY <1>2, UnmarkedIsComposite DEF PrimesOf
<1>3. SievedBelow(s, b) \subseteq Block(s)
  BY DEF SievedBelow
<1> QED BY <1>1, <1>2, <1>3 DEF PrimesOf

(* Nothing is crossed off at first. *)
LEMMA SievedAtFirst == \A s : SievedBelow(s, 3) = Block(s) /\ SievedBelow(s, 2) = Block(s)
BY DEF SievedBelow
----
(* Sums. *)
SumOver(c, S) == MapThenSumSet(LAMBDA t : c[t], S)

(* The function the sum is defined by, on the subsets of S. *)
Sums(c, S, f) ==
  f = [s \in SUBSET S |->
         IF s = {} THEN 0
         ELSE c[CHOOSE x \in s : TRUE] + f[s \ {CHOOSE x \in s : TRUE}]]

LEMMA SumOverIs == \A c, S : SumOver(c, S) = (CHOOSE f : Sums(c, S, f))[S]
BY DEF SumOver, Sums, MapThenSumSet, MapThenFoldSet

LEMMA PickOne ==
  ASSUME NEW S, IsFiniteSet(S), S # {}
  PROVE  /\ (CHOOSE x \in S : TRUE) \in S
         /\ IsFiniteSet(S \ {CHOOSE x \in S : TRUE})
         /\ Cardinality(S \ {CHOOSE x \in S : TRUE}) = Cardinality(S) - 1
         /\ Cardinality(S) \in Nat /\ Cardinality(S) # 0
<1>1. (CHOOSE x \in S : TRUE) \in S
  OBVIOUS
<1> QED BY <1>1, FS_RemoveElement, FS_CardinalityType, FS_EmptySet

(* It exists: it does for the subsets of at most m elements, for every m. *)
LEMMA SumsExist ==
  ASSUME NEW S, IsFiniteSet(S), NEW c
  PROVE  \E f : Sums(c, S, f)
<1> DEFINE Z(s) == CHOOSE x \in s : TRUE
           Few(m) == {s \in SUBSET S : Cardinality(s) <= m}
           Def(f, s) == IF s = {} THEN 0 ELSE c[Z(s)] + f[s \ {Z(s)}]
           Has(m) == \E f : f = [s \in Few(m) |-> Def(f, s)]
           T == {m \in Nat : ~ Has(m)}
<1>t. \A s \in SUBSET S : IsFiniteSet(s) /\ Cardinality(s) \in Nat /\ Cardinality(s) <= Cardinality(S)
  BY FS_Subset, FS_CardinalityType
<1>1. Has(0)
  <2> DEFINE g == [s \in Few(0) |-> 0]
  <2>1. \A s \in Few(0) : s = {}
    BY <1>t, FS_EmptySet
  <2>2. g = [s \in Few(0) |-> Def(g, s)]
    BY <2>1
  <2> QED BY <2>2
<1>2. ASSUME NEW m \in Nat, Has(m)
      PROVE  Has(m + 1)
  <2>1. PICK f : f = [s \in Few(m) |-> Def(f, s)]
    BY <1>2
  <2> DEFINE g == [s \in Few(m + 1) |-> Def(f, s)]
  <2>2. ASSUME NEW s \in Few(m + 1), s # {}
        PROVE  s \ {Z(s)} \in Few(m) /\ s \ {Z(s)} \in Few(m + 1)
    <3>1. IsFiniteSet(s) /\ Cardinality(s) <= m + 1 /\ s \in SUBSET S
      BY <1>t
    <3>2. Cardinality(s \ {Z(s)}) = Cardinality(s) - 1 /\ Cardinality(s) \in Nat
      BY <3>1, <2>2, PickOne
    <3> QED BY <3>1, <3>2
  <2>3. \A s \in Few(m) : g[s] = f[s]
    <3> TAKE s \in Few(m)
    <3>1. s \in Few(m + 1)
      BY <1>t
    <3>2. f[s] = Def(f, s)
      BY <2>1
    <3>3. g[s] = Def(f, s)
      BY <3>1
    <3> QED BY <3>2, <3>3
  <2>4. \A s \in Few(m + 1) : Def(f, s) = Def(g, s)
    <3> TAKE s \in Few(m + 1)
    <3>1. CASE s = {}
      BY <3>1
    <3>2. CASE s # {}
      <4>1. g[s \ {Z(s)}] = f[s \ {Z(s)}]
        <5> HIDE DEF g, Few, Z
        <5> QED BY <2>2, <2>3, <3>2
      <4> QED BY <4>1
    <3> QED BY <3>1, <3>2
  <2>5. g = [s \in Few(m + 1) |-> Def(g, s)]
    <3> HIDE DEF Def
    <3> QED BY <2>4
  <2> QED BY <2>5
<1>3. ASSUME T # {}
      PROVE  FALSE
  <2>1. PICK m \in T : \A k \in T : m <= k
    <3>1. T \subseteq Nat
      OBVIOUS
    <3> HIDE DEF T
    <3> QED BY <3>1, <1>3, LeastNumber
  <2> HIDE DEF Has
  <2>2. m \in Nat /\ m # 0 /\ ~ Has(m)
    BY <2>1, <1>1
  <2>3. m - 1 \in Nat /\ (m - 1) + 1 = m /\ Has(m - 1)
    BY <2>1, <2>2
  <2> QED BY <2>2, <2>3, <1>2
<1>4. Cardinality(S) \in Nat /\ Few(Cardinality(S)) = SUBSET S
  BY <1>t, FS_CardinalityType
<1>5. Has(Cardinality(S))
  <2> HIDE DEF Has, Few
  <2> QED BY <1>3, <1>4
<1>6. PICK f : f = [s \in Few(Cardinality(S)) |-> Def(f, s)]
  BY <1>5
<1> QED
  <2> HIDE DEF Few
  <2> QED BY <1>4, <1>6 DEF Sums

(* Two of them agree where both are defined. *)
LEMMA SumsAgree ==
  ASSUME NEW S, IsFiniteSet(S), NEW R \in SUBSET S, NEW c,
         NEW f, Sums(c, S, f), NEW g, Sums(c, R, g)
  PROVE  \A s \in SUBSET R : f[s] = g[s]
<1> DEFINE Z(s) == CHOOSE x \in s : TRUE
           T == {m \in Nat : \E s \in SUBSET R : Cardinality(s) = m /\ f[s] # g[s]}
<1>t. \A s \in SUBSET R : IsFiniteSet(s) /\ Cardinality(s) \in Nat /\ s \in SUBSET S
  BY FS_Subset, FS_CardinalityType
<1>1. ASSUME NEW s \in SUBSET R, f[s] # g[s]
      PROVE  FALSE
  <2>1. Cardinality(s) \in T
    BY <1>t, <1>1
  <2>2. PICK m \in T : \A k \in T : m <= k
    <3>1. T \subseteq Nat /\ T # {}
      BY <2>1
    <3> HIDE DEF T
    <3> QED BY <3>1, LeastNumber
  <2>3. PICK r \in SUBSET R : Cardinality(r) = m /\ f[r] # g[r]
    BY <2>2
  <2>4. r # {}
    <3>1. f[{}] = 0 /\ g[{}] = 0
      BY DEF Sums
    <3> QED BY <3>1, <2>3
  <2>5. f[r] = c[Z(r)] + f[r \ {Z(r)}] /\ g[r] = c[Z(r)] + g[r \ {Z(r)}]
    BY <2>4, <1>t DEF Sums
  <2>6. f[r \ {Z(r)}] # g[r \ {Z(r)}]
    BY <2>5, <2>3
  <2>7. Cardinality(r \ {Z(r)}) = m - 1 /\ m \in Nat /\ m # 0
    BY <1>t, <2>3, <2>4, PickOne
  <2>8. m - 1 \in T /\ m - 1 \in Nat
    BY <2>6, <2>7
  <2> HIDE DEF T
  <2> QED BY <2>2, <2>7, <2>8
<1> QED BY <1>1

(* A sum is that of all but the chosen element, and its value. *)
LEMMA SumOverStep ==
  ASSUME NEW S, IsFiniteSet(S), NEW c
  PROVE  SumOver(c, S) = IF S = {} THEN 0
                         ELSE c[CHOOSE x \in S : TRUE] + SumOver(c, S \ {CHOOSE x \in S : TRUE})
<1> DEFINE R == S \ {CHOOSE x \in S : TRUE}
           F(X) == CHOOSE f : Sums(c, X, f)
<1>1. IsFiniteSet(R) /\ R \in SUBSET S
  BY FS_Subset
<1>2. Sums(c, S, F(S)) /\ Sums(c, R, F(R))
  BY <1>1, SumsExist
<1>3. F(S)[R] = F(R)[R]
  <2> HIDE DEF F, R
  <2> QED BY <1>1, <1>2, SumsAgree
<1>4. F(S)[S] = IF S = {} THEN 0 ELSE c[CHOOSE x \in S : TRUE] + F(S)[R]
  <2> HIDE DEF F
  <2> QED BY <1>2 DEF Sums
<1>5. SumOver(c, S) = F(S)[S] /\ SumOver(c, R) = F(R)[R]
  BY SumOverIs
<1> QED BY <1>3, <1>4, <1>5

(* It does not matter which element is taken last. *)
LEMMA SumOverAdd ==
  ASSUME NEW S, IsFiniteSet(S), NEW x, x \notin S, NEW c, c[x] \in Nat, \A y \in S : c[y] \in Nat
  PROVE  SumOver(c, S) \in Nat /\ SumOver(c, S \cup {x}) = SumOver(c, S) + c[x]
<1> DEFINE Z(s) == CHOOSE y \in s : TRUE
           U == S \cup {x}
           Adds(R, y) == SumOver(c, R) \in Nat /\ SumOver(c, R \cup {y}) = SumOver(c, R) + c[y]
           T == {m \in Nat : \E R \in SUBSET U : \E y \in U \ R : Cardinality(R) = m /\ ~ Adds(R, y)}
<1>t. IsFiniteSet(U) /\ \A y \in U : c[y] \in Nat
  BY FS_AddElement
<1>f. \A R \in SUBSET U : IsFiniteSet(R) /\ Cardinality(R) \in Nat
  BY <1>t, FS_Subset, FS_CardinalityType
<1>1. ASSUME NEW R \in SUBSET U, NEW y \in U \ R, ~ Adds(R, y)
      PROVE  FALSE
  <2>1. Cardinality(R) \in T
    BY <1>f, <1>1
  <2>2. PICK m \in T : \A k \in T : m <= k
    <3>1. T \subseteq Nat /\ T # {}
      BY <2>1
    <3> HIDE DEF T
    <3> QED BY <3>1, LeastNumber
  <2>3. PICK Q \in SUBSET U : \E w \in U \ Q : Cardinality(Q) = m /\ ~ Adds(Q, w)
    BY <2>2
  <2>4. PICK w \in U \ Q : Cardinality(Q) = m /\ ~ Adds(Q, w)
    BY <2>3
  <2>5. \A A \in SUBSET U : \A v \in U \ A : Cardinality(A) < m => Adds(A, v)
    <3> TAKE A \in SUBSET U
    <3> TAKE v \in U \ A
    <3>1. Cardinality(A) \in Nat /\ m \in Nat
      BY <1>f, <2>2
    <3>2. Cardinality(A) \notin T \/ m <= Cardinality(A)
      <4> HIDE DEF T
      <4> QED BY <2>2
    <3>3. ~ Adds(A, v) => Cardinality(A) \in T
      <4> HIDE DEF Adds
      <4> QED BY <3>1
    <3> HIDE DEF T, Adds
    <3> QED BY <3>1, <3>2, <3>3
  <2> HIDE DEF T, Adds
  <2>6. IsFiniteSet(Q) /\ IsFiniteSet(Q \cup {w}) /\ Q \cup {w} # {} /\ m \in Nat
    BY <1>f, <2>4, FS_AddElement
  <2> DEFINE z == Z(Q \cup {w})
  <2>7. z \in Q \cup {w} /\ SumOver(c, Q \cup {w}) = c[z] + SumOver(c, (Q \cup {w}) \ {z})
    BY <2>6, SumOverStep
  <2>8. SumOver(c, Q) \in Nat
    <3>1. CASE Q = {}
      BY <3>1, <2>6, SumOverStep
    <3>2. CASE Q # {}
      <4>1. SumOver(c, Q) = c[Z(Q)] + SumOver(c, Q \ {Z(Q)}) /\ Z(Q) \in Q
        BY <2>6, <3>2, SumOverStep
      <4>2. Cardinality(Q \ {Z(Q)}) < m /\ Q \ {Z(Q)} \in SUBSET U /\ Z(Q) \in U \ (Q \ {Z(Q)})
        BY <2>4, <2>6, <3>2, PickOne
      <4>3. SumOver(c, Q \ {Z(Q)}) \in Nat
        BY <4>2, <2>5 DEF Adds
      <4> QED BY <4>1, <4>3, <1>t
    <3> QED BY <3>1, <3>2
  <2>9. SumOver(c, Q \cup {w}) = SumOver(c, Q) + c[w]
    <3>1. CASE z = w
      <4>1. (Q \cup {w}) \ {z} = Q
        BY <3>1, <2>4
      <4> QED BY <2>7, <3>1, <4>1, <2>8, <1>t
    <3>2. CASE z # w
      <4> DEFINE A == Q \ {z}
      <4> HIDE DEF z
      <4>1. z \in Q /\ (Q \cup {w}) \ {z} = A \cup {w} /\ A \cup {z} = Q /\ w \notin A /\ z \notin A
        BY <3>2, <2>7
      <4>2. Cardinality(A) < m /\ A \in SUBSET U
        <5>1. Cardinality(Q \ {z}) = Cardinality(Q) - 1
          BY <4>1, <2>6, FS_RemoveElement
        <5> QED BY <5>1, <2>4, <2>6
      <4>3. Adds(A, w) /\ Adds(A, z)
        BY <4>1, <4>2, <2>5, <2>4
      <4> HIDE DEF A
      <4>4. SumOver(c, A) \in Nat /\ SumOver(c, Q) = SumOver(c, A) + c[z]
            /\ SumOver(c, Q \cup {w}) = c[z] + (SumOver(c, A) + c[w])
        BY <4>1, <4>3, <2>7 DEF Adds
      <4> QED BY <4>4, <4>1, <2>4, <1>t
    <3> QED BY <3>1, <3>2
  <2> QED BY <2>4, <2>8, <2>9 DEF Adds
<1>2. Adds(S, x)
  BY <1>1
<1> QED BY <1>2
----
(* Counting. *)

(* The indices of all primes, those below m, and how many are up to k. *)
Found == {k \in 0 .. OddsUpTo(n) - 1 : IsPrime(NumberAt(k))}

FoundBelow(m) == {j \in Found : j < m}

Rank(k) == Cardinality({j \in Found : j <= k})

LEMMA FoundIs ==
  ASSUME SizesOK
  PROVE  /\ IsFiniteSet(Found) /\ Cardinality(Found) \in Nat /\ Found \subseteq Nat
         /\ \A R \in SUBSET Found : IsFiniteSet(R) /\ Cardinality(R) \in Nat
                                    /\ Cardinality(R) <= Cardinality(Found)
         /\ \A s \in Procs : PrimesOf(s) \in SUBSET Found
         /\ \A k \in Found : \E s \in Procs : k \in PrimesOf(s)
         /\ OddsUpTo(n) \in Nat /\ P \in Nat \ {0}
<1>1. OddsUpTo(n) \in Nat /\ P \in Nat \ {0}
  BY OddsAre DEF SizesOK
<1>2. IsFiniteSet(0 .. OddsUpTo(n) - 1)
  BY <1>1, FS_Interval
<1>3. IsFiniteSet(Found) /\ Found \subseteq Nat
  <2>1. Found \in SUBSET (0 .. OddsUpTo(n) - 1)
    BY DEF Found
  <2>2. IsFiniteSet(Found)
    BY <1>2, <2>1, FS_Subset
  <2>3. 0 .. OddsUpTo(n) - 1 \subseteq Nat
    BY <1>1
  <2> QED BY <2>1, <2>2, <2>3
<1>4. \A s \in Procs : PrimesOf(s) \in SUBSET Found
  BY BlocksAre DEF PrimesOf, Found
<1>5. \A k \in Found : \E s \in Procs : k \in PrimesOf(s)
  BY BlocksAre DEF PrimesOf, Found
<1> QED BY <1>1, <1>3, <1>4, <1>5, FS_Subset, FS_CardinalityType

(* The counts of the processes before s are the number of primes before
   its block, and all counts that of all primes. *)
LEMMA CountsAddUp ==
  ASSUME SizesOK, NEW c, \A t \in Procs : c[t] = Cardinality(PrimesOf(t))
  PROVE  /\ \A s \in Procs : SumOver(c, 0 .. s-1) = Cardinality(FoundBelow(Left(s)))
         /\ SumOver(c, Procs) = Cardinality(Found)
<1> DEFINE Good(m) == SumOver(c, 0 .. m-1) = Cardinality(FoundBelow(Left(m)))
           T == {m \in Nat : m <= P /\ ~ Good(m)}
<1>t. /\ OddsUpTo(n) \in Nat /\ P \in Nat \ {0} /\ Found \subseteq Nat /\ 0 \in Procs
      /\ \A m : FoundBelow(m) \in SUBSET Found
  BY FoundIs DEF Procs, FoundBelow
<1>1. Good(0)
  <2>1. 0 .. 0-1 = {} /\ FoundBelow(Left(0)) = {}
    <3>1. Left(0) = 0
      BY BlocksAre
    <3>2. \A j \in Found : ~ (j < 0)
      BY <1>t
    <3> QED BY <3>1, <3>2 DEF FoundBelow
  <2> QED BY <2>1, SumOverStep, FS_EmptySet
<1>2. ASSUME NEW m \in Nat, m < P, Good(m)
      PROVE  Good(m + 1)
  <2>1. m \in Procs /\ Left(m + 1) = Right(m)
    BY <1>t, <1>2 DEF Procs, Left, Right
  <2>2. 0 .. (m+1)-1 = (0 .. m-1) \cup {m} /\ m \notin 0 .. m-1 /\ IsFiniteSet(0 .. m-1)
        /\ \A y \in 0 .. m-1 : y \in Procs
    <3>1. IsFiniteSet(0 .. m-1)
      BY <1>2, FS_Interval
    <3>2. m \in Nat /\ P \in Nat /\ m < P
      BY <1>t, <1>2
    <3>3. 0 .. (m+1)-1 = (0 .. m-1) \cup {m} /\ m \notin 0 .. m-1
      BY <3>2
    <3> QED BY <3>1, <3>2, <3>3 DEF Procs
  <2>3. \A y \in Procs : c[y] \in Nat
    BY FoundIs
  <2>4. SumOver(c, 0 .. (m+1)-1) = SumOver(c, 0 .. m-1) + c[m]
    BY <2>1, <2>2, <2>3, SumOverAdd
  <2>5. FoundBelow(Right(m)) = FoundBelow(Left(m)) \cup PrimesOf(m)
    <3>1. Left(m) \in Nat /\ Right(m) \in Nat /\ Left(m) <= Right(m) /\ Right(m) <= OddsUpTo(n)
      BY <2>1, BlocksAre
    <3> QED BY <1>t, <3>1 DEF FoundBelow, PrimesOf, Block, Found
  <2>6. FoundBelow(Left(m)) \cap PrimesOf(m) = {}
    <3>1. Left(m) \in Nat
      BY <2>1, BlocksAre
    <3> QED BY <1>t, <3>1 DEF FoundBelow, PrimesOf, Block
  <2>7. Cardinality(FoundBelow(Right(m))) = Cardinality(FoundBelow(Left(m))) + Cardinality(PrimesOf(m))
    <3>1. IsFiniteSet(FoundBelow(Left(m))) /\ IsFiniteSet(PrimesOf(m))
          /\ Cardinality(FoundBelow(Left(m))) \in Nat /\ Cardinality(PrimesOf(m)) \in Nat
      BY <1>t, <2>1, FoundIs
    <3>2. Cardinality(FoundBelow(Left(m)) \cap PrimesOf(m)) = 0
      BY <2>6, FS_EmptySet
    <3>3. Cardinality(FoundBelow(Left(m)) \cup PrimesOf(m))
            = Cardinality(FoundBelow(Left(m))) + Cardinality(PrimesOf(m))
                - Cardinality(FoundBelow(Left(m)) \cap PrimesOf(m))
      BY <3>1, FS_Union, Zenon
    <3> QED BY <3>1, <3>2, <3>3, <2>5
  <2> QED BY <2>1, <2>4, <2>7, <1>2
<1>3. ASSUME T # {}
      PROVE  FALSE
  <2>1. PICK m \in T : \A k \in T : m <= k
    <3>1. T \subseteq Nat
      OBVIOUS
    <3> HIDE DEF T
    <3> QED BY <3>1, <1>3, LeastNumber
  <2> HIDE DEF Good
  <2>2. m \in Nat /\ m <= P /\ m # 0 /\ ~ Good(m)
    BY <2>1, <1>1
  <2>3. m - 1 \in Nat /\ (m - 1) + 1 = m /\ m - 1 < P
    BY <2>2, <1>t
  <2>4. Good(m - 1)
    <3>1. m - 1 \notin T
      <4> HIDE DEF T
      <4> QED BY <2>1, <2>2, <2>3
    <3> QED BY <3>1, <2>2, <2>3, <1>t
  <2> QED BY <2>2, <2>3, <2>4, <1>2
<1>4. \A m \in Nat : m <= P => Good(m)
  <2> HIDE DEF Good
  <2> QED BY <1>3
<1> HIDE DEF T
<1>5. \A s \in Procs : Good(s)
  <2> HIDE DEF Good
  <2> QED BY <1>4, <1>t DEF Procs
<1>6. 0 .. P-1 = Procs /\ FoundBelow(Left(P)) = Found
  <2>1. (P * OddsUpTo(n) + 0) \div P = OddsUpTo(n)
    BY <1>t, DivModIs
  <2>2. Left(P) = OddsUpTo(n)
    <3>1. P * OddsUpTo(n) + 0 = P * OddsUpTo(n)
      BY <1>t
    <3> QED BY <2>1, <3>1 DEF Left
  <2> QED BY <2>2, <1>t DEF Procs, FoundBelow, Found
<1>7. Good(P)
  <2> HIDE DEF Good
  <2> QED BY <1>4, <1>t
<1> QED BY <1>5, <1>6, <1>7

(* A prime's place behind those of its block that precede it, and behind
   those of earlier blocks, is its rank. *)
LEMMA PlaceIsRank ==
  ASSUME SizesOK, NEW s \in Procs, NEW k \in PrimesOf(s)
  PROVE  Cardinality(FoundBelow(Left(s))) + Cardinality({j \in PrimesOf(s) : j <= k}) = Rank(k)
<1> DEFINE A == FoundBelow(Left(s))
           B == {j \in PrimesOf(s) : j <= k}
<1>t. Found \subseteq Nat /\ PrimesOf(s) \in SUBSET Found /\ A \in SUBSET Found /\ B \in SUBSET Found
      /\ Left(s) \in Nat /\ Right(s) \in Nat /\ Right(s) <= OddsUpTo(n) /\ OddsUpTo(n) \in Nat
  BY FoundIs, BlocksAre DEF FoundBelow
<1>1. {j \in Found : j <= k} = A \cup B /\ A \cap B = {}
  BY <1>t DEF FoundBelow, PrimesOf, Block, Found
<1>2. IsFiniteSet(A) /\ IsFiniteSet(B) /\ Cardinality(A) \in Nat /\ Cardinality(B) \in Nat
  BY <1>t, FoundIs
<1> HIDE DEF A, B
<1>3. Cardinality(A \cup B) = Cardinality(A) + Cardinality(B)
  <2>1. Cardinality(A \cup B) = Cardinality(A) + Cardinality(B) - Cardinality(A \cap B)
    BY <1>2, FS_Union, Zenon
  <2>2. Cardinality(A \cap B) = 0
    BY <1>1, FS_EmptySet
  <2> QED BY <1>2, <2>1, <2>2
<1> QED BY <1>1, <1>3 DEF Rank, A, B

(* The ranks number the primes from 1 on, in ascending order. *)
LEMMA RanksAre ==
  ASSUME SizesOK
  PROVE  /\ \A k \in Found : Rank(k) \in 1 .. Cardinality(Found)
         /\ \A j, k \in Found : j < k => Rank(j) < Rank(k)
         /\ \A j, k \in Found : Rank(j) = Rank(k) => j = k
         /\ \A j, k \in Found : Rank(j) < Rank(k) => j < k
         /\ \A r \in 1 .. Cardinality(Found) : \E k \in Found : Rank(k) = r
<1> DEFINE Upto(k) == {j \in Found : j <= k}
<1>t. /\ IsFiniteSet(Found) /\ Cardinality(Found) \in Nat /\ Found \subseteq Nat
      /\ \A k : Upto(k) \in SUBSET Found /\ IsFiniteSet(Upto(k)) /\ Cardinality(Upto(k)) \in Nat
                /\ Cardinality(Upto(k)) <= Cardinality(Found)
      /\ \A k : Rank(k) = Cardinality(Upto(k))
  BY FoundIs DEF Rank
<1>1. \A k \in Found : Rank(k) \in 1 .. Cardinality(Found)
  <2> TAKE k \in Found
  <2>1. k \in Upto(k)
    BY <1>t
  <2>2. Cardinality(Upto(k)) # 0
    BY <1>t, <2>1, FS_EmptySet
  <2> QED BY <1>t, <2>2
<1>2. ASSUME NEW j \in Found, NEW k \in Found, j < k
      PROVE  Rank(j) < Rank(k)
  <2>1. Upto(j) \in SUBSET Upto(k) /\ k \in Upto(k) /\ k \notin Upto(j)
    <3>1. \A u \in Found : u \in Nat
      BY <1>t
    <3> QED BY <3>1, <1>2
  <2> HIDE DEF Upto
  <2>2. Cardinality(Upto(j)) <= Cardinality(Upto(k)) /\ Cardinality(Upto(j)) # Cardinality(Upto(k))
    BY <1>t, <2>1, FS_Subset
  <2> QED BY <1>t, <2>2
<1>r. \A k \in Found : Rank(k) \in Nat /\ k \in Nat
  BY <1>1, <1>t
<1>3. \A j, k \in Found : Rank(j) = Rank(k) => j = k
  BY <1>2, <1>r
<1>4. \A j, k \in Found : Rank(j) < Rank(k) => j < k
  BY <1>2, <1>r
<1>5. \A r \in 1 .. Cardinality(Found) : \E k \in Found : Rank(k) = r
  <2> DEFINE S == 1 .. Cardinality(Found)
             f == [k \in Found |-> Rank(k)]
  <2>1. f \in Injection(Found, S)
    BY <1>1, <1>3 DEF Injection, IsInjective
  <2>2. IsFiniteSet(S) /\ Cardinality(S) = Cardinality(Found)
    BY <1>t, FS_Interval
  <2>3. f \in Surjection(Found, S)
    <3> HIDE DEF f, S
    <3> QED BY <2>1, <2>2, FS_Injection
  <2> QED BY <2>3 DEF Surjection
<1> QED BY <1>1, <1>2, <1>3, <1>4, <1>5
----
(* The supersteps. *)

(* All processes are in the same superstep, which is the part "now" of the
   program; those that wait for its end go on with "then". *)
Together(now, then) ==
  /\ waiting \subseteq Procs
  /\ pc = [s \in Procs |-> IF s \in waiting THEN then ELSE now]

LEMMA TogetherMeans ==
  ASSUME NEW now, NEW then, Together(now, then), NEW s \in Procs, pc[s] = now, now # then
  PROVE  s \notin waiting
BY DEF Together

LEMMA EnterTogether ==
  ASSUME NEW now, NEW then, Together(now, then), NEW s \in Procs, Enters(s, then), P' = P
  PROVE  Together(now, then)'
BY DEF Together, Enters, Procs

LEMMA SyncTogether ==
  ASSUME NEW now, NEW then, Together(now, then), waiting = Procs,
         waiting' = {}, pc' = pc, P' = P, NEW next
  PROVE  Together(then, next)'
BY DEF Together, Procs

(* What depends only on the limit and the number of processes rests. *)
LEMMA Rests ==
  ASSUME n' = n, P' = P
  PROVE  /\ Procs' = Procs /\ (SizesOK => SizesOK') /\ Found' = Found
         /\ \A s : Left(s)' = Left(s) /\ Right(s)' = Right(s) /\ Block(s)' = Block(s)
         /\ \A s : PrimesOf(s)' = PrimesOf(s)
         /\ \A s, b : SievedBelow(s, b)' = SievedBelow(s, b)
         /\ \A k : Rank(k)' = Rank(k)
<1>1. Procs' = Procs /\ (SizesOK => SizesOK')
  BY DEF Procs, SizesOK
<1>2. \A s : Left(s)' = Left(s) /\ Right(s)' = Right(s)
  BY DEF Left, Right
<1>3. \A s : Block(s)' = Block(s)
  BY <1>2 DEF Block
<1>4. \A s : PrimesOf(s)' = PrimesOf(s)
  BY <1>3 DEF PrimesOf
<1>5. \A s, b : SievedBelow(s, b)' = SievedBelow(s, b)
  BY <1>3 DEF SievedBelow
<1>6. Found' = Found
  BY DEF Found
<1>7. \A k : Rank(k)' = Rank(k)
  BY <1>6 DEF Rank
<1> QED BY <1>1, <1>2, <1>3, <1>4, <1>5, <1>6, <1>7

(* An array nothing is put into stays as it is. *)
LEMMA NothingDelivered ==
  ASSUME NEW t, NEW name, NEW old, old = [k \in DOMAIN old |-> old[k]],
         \A p \in puts : p.to = t => p.array # name
  PROVE  Delivered(t, name, old) = old
<1>1. \A k : {p \in puts : p.to = t /\ p.array = name /\ p.at = k} = {}
  OBVIOUS
<1>2. Delivered(t, name, old) = [k \in DOMAIN old |-> old[k]]
  BY <1>1 DEF Delivered
<1> QED BY <1>2

LEMMA PutFields ==
  \A t, a, k, v : LET p == Put(t, a, k, v)
                  IN p.to = t /\ p.array = a /\ p.at = k /\ p.value = v
BY DEF Put

(* Nothing is counted or collected yet. *)
Untouched ==
  /\ num_primes_result = [s \in Procs |-> [t \in Procs |-> 0]]
  /\ primes = [s \in Procs |-> <<>>]

LEMMA UntouchedBySync ==
  ASSUME Untouched, SyncResults,
         \A p \in puts : p.array # "num_primes_result" /\ p.array # "primes"
  PROVE  Untouched'
<1>1. <<>> = [k \in DOMAIN <<>> |-> <<>>[k]]
  OBVIOUS
<1>2. ASSUME NEW s \in Procs
      PROVE  /\ Delivered(s, "num_primes_result", num_primes_result[s]) = num_primes_result[s]
             /\ Delivered(s, "primes", primes[s]) = primes[s]
  <2>1. num_primes_result[s] = [k \in DOMAIN num_primes_result[s] |-> num_primes_result[s][k]]
    BY DEF Untouched
  <2>2. primes[s] = [k \in DOMAIN primes[s] |-> primes[s][k]]
    BY <1>1 DEF Untouched
  <2> QED BY <2>1, <2>2, NothingDelivered
<1> QED BY <1>2 DEF Untouched, SyncResults, Procs

(* Counting: who is done with its block has put the number of its primes. *)
CountPutsOf(s) ==
  {Put(t, "num_primes_result", s, Cardinality(PrimesOf(s))) : t \in Procs}

CountPuts == UNION {CountPutsOf(s) : s \in waiting}

LEMMA CountStep ==
  ASSUME puts = CountPuts, NEW s \in Procs, PublishCount(s), sieve[s] = PrimesOf(s),
         waiting' = waiting \cup {s}, n' = n, P' = P
  PROVE  (puts = CountPuts)'
<1>1. puts' = puts \cup CountPutsOf(s)
  BY DEF PublishCount, CountPutsOf
<1>2. \A r : CountPutsOf(r)' = CountPutsOf(r)
  BY Rests DEF CountPutsOf, Put
<1>3. CountPuts' = UNION {CountPutsOf(r) : r \in waiting \cup {s}}
  BY <1>2 DEF CountPuts
<1> QED BY <1>1, <1>3 DEF CountPuts

Counted ==
  num_primes_result = [s \in Procs |-> [t \in Procs |-> Cardinality(PrimesOf(t))]]

LEMMA CountSync ==
  ASSUME Untouched, puts = CountPuts, SyncResults
  PROVE  Counted' /\ primes' = [s \in Procs |-> <<>>] /\ puts' = {}
<1>1. <<>> = [k \in DOMAIN <<>> |-> <<>>[k]]
  OBVIOUS
<1>2. waiting = Procs /\ n' = n /\ P' = P
  BY DEF SyncResults
<1>3. \A p \in puts : p.array # "primes"
  BY PutFields DEF CountPuts, CountPutsOf
<1>4. ASSUME NEW s \in Procs, NEW t \in Procs
      PROVE  Delivered(s, "num_primes_result", num_primes_result[s])[t] = Cardinality(PrimesOf(t))
  <2> DEFINE here == {p \in puts : p.to = s /\ p.array = "num_primes_result" /\ p.at = t}
  <2>1. here = {Put(s, "num_primes_result", t, Cardinality(PrimesOf(t)))}
    BY <1>2, PutFields DEF CountPuts, CountPutsOf
  <2>2. t \in DOMAIN num_primes_result[s]
    BY DEF Untouched
  <2>3. here # {} /\ (CHOOSE p \in here : TRUE).value = Cardinality(PrimesOf(t))
    BY <2>1, PutFields
  <2> QED BY <2>2, <2>3 DEF Delivered
<1>5. ASSUME NEW s \in Procs
      PROVE  /\ Delivered(s, "num_primes_result", num_primes_result[s])
                  = [t \in Procs |-> Cardinality(PrimesOf(t))]
             /\ Delivered(s, "primes", primes[s]) = <<>>
  <2>1. DOMAIN num_primes_result[s] = Procs
    BY DEF Untouched
  <2>2. Delivered(s, "num_primes_result", num_primes_result[s])
          = [t \in Procs |-> Delivered(s, "num_primes_result", num_primes_result[s])[t]]
    BY <2>1 DEF Delivered
  <2>3. primes[s] = <<>>
    BY DEF Untouched
  <2>4. primes[s] = [k \in DOMAIN primes[s] |-> primes[s][k]]
    BY <1>1, <2>3
  <2>5. Delivered(s, "primes", primes[s]) = primes[s]
    BY <1>3, <2>4, NothingDelivered
  <2> QED BY <1>4, <2>2, <2>3, <2>5
<1> QED BY <1>2, <1>5, Rests DEF SyncResults, Counted

(* Allocating: who is done has the array. *)
Blank == [k \in 0 .. Cardinality(Found) |-> IF k = 0 THEN 2 ELSE 0]

Allocated == primes = [s \in Procs |-> IF s \in waiting THEN Blank ELSE <<>>]

LEMMA PlacesAre ==
  ASSUME SizesOK, Counted, NEW s \in Procs
  PROVE  /\ Offset(s) = Cardinality(FoundBelow(Left(s)))
         /\ TotalPrimes(s) = 1 + Cardinality(Found)
<1>1. \A t \in Procs : num_primes_result[s][t] = Cardinality(PrimesOf(t))
  BY DEF Counted
<1> DEFINE c == num_primes_result[s]
<1>2. Offset(s) = SumOver(c, 0 .. s-1) /\ TotalPrimes(s) = 1 + SumOver(c, Procs)
  BY DEF Offset, TotalPrimes, SumOver
<1> HIDE DEF c
<1>3. \A t \in Procs : c[t] = Cardinality(PrimesOf(t))
  BY <1>1 DEF c
<1> QED BY <1>2, <1>3, CountsAddUp

LEMMA AllocateStep ==
  ASSUME SizesOK, Counted, Allocated, NEW s \in Procs, AllocatePrimes(s),
         waiting' = waiting \cup {s}, n' = n, P' = P
  PROVE  Allocated'
<1>1. TotalPrimes(s) - 1 = Cardinality(Found)
  BY PlacesAre, FoundIs
<1>2. primes' = [primes EXCEPT ![s] = Blank]
  BY <1>1 DEF AllocatePrimes, Blank
<1>3. Blank' = Blank /\ Procs' = Procs
  BY Rests DEF Blank
<1> HIDE DEF Blank
<1> QED BY <1>2, <1>3 DEF Allocated

LEMMA AllocateSync ==
  ASSUME Counted, Allocated, puts = {}, SyncResults
  PROVE  Counted' /\ primes' = [s \in Procs |-> Blank] /\ puts' = {}
<1>1. waiting = Procs /\ n' = n /\ P' = P
  BY DEF SyncResults
<1>2. ASSUME NEW s \in Procs
      PROVE  /\ Delivered(s, "num_primes_result", num_primes_result[s]) = num_primes_result[s]
             /\ Delivered(s, "primes", primes[s]) = primes[s]
  <2>1. num_primes_result[s] = [k \in DOMAIN num_primes_result[s] |-> num_primes_result[s][k]]
    BY DEF Counted
  <2>2. primes[s] = [k \in DOMAIN primes[s] |-> primes[s][k]]
    BY <1>1 DEF Allocated, Blank
  <2> QED BY <2>1, <2>2, NothingDelivered
<1> QED BY <1>1, <1>2, Rests DEF SyncResults, Counted, Allocated

(* Collecting: who is done has put its primes. *)
PrimePutsOf(s) == {Put(0, "primes", Rank(k), NumberAt(k)) : k \in PrimesOf(s)}

PrimePuts == UNION {PrimePutsOf(s) : s \in waiting}

LEMMA CollectStep ==
  ASSUME SizesOK, Counted, puts = PrimePuts, NEW s \in Procs, PutPrimes(s),
         sieve[s] = PrimesOf(s), waiting' = waiting \cup {s}, n' = n, P' = P
  PROVE  (puts = PrimePuts)'
<1>1. \A k \in PrimesOf(s) : Offset(s) + Cardinality({j \in sieve[s] : j <= k}) = Rank(k)
  BY PlacesAre, PlaceIsRank
<1>2. puts' = puts \cup PrimePutsOf(s)
  BY <1>1 DEF PutPrimes, PrimePutsOf
<1>3. \A r : PrimePutsOf(r)' = PrimePutsOf(r)
  BY Rests DEF PrimePutsOf, Put, NumberAt
<1>4. PrimePuts' = UNION {PrimePutsOf(r) : r \in waiting \cup {s}}
  BY <1>3 DEF PrimePuts
<1> QED BY <1>2, <1>4 DEF PrimePuts

(* The result: 2, and then the primes found, by their ranks. *)
IsResult(list) ==
  /\ DOMAIN list = 0 .. Cardinality(Found)
  /\ list[0] = 2
  /\ \A k \in Found : list[Rank(k)] = NumberAt(k)

LEMMA CollectSync ==
  ASSUME SizesOK, Counted, puts = PrimePuts, primes = [s \in Procs |-> Blank], SyncResults
  PROVE  IsResult(primes[0])' /\ puts' = {} /\ DOMAIN primes' = Procs
         /\ \A s \in Procs \ {0} : primes'[s] = Blank
<1>1. waiting = Procs /\ n' = n /\ P' = P /\ puts' = {}
  BY DEF SyncResults
<1>2. puts = {Put(0, "primes", Rank(k), NumberAt(k)) : k \in Found}
  <2>1. \A k : k \in Found <=> \E s \in Procs : k \in PrimesOf(s)
    BY FoundIs
  <2> QED BY <1>1, <2>1 DEF PrimePuts, PrimePutsOf
<1>t. 0 \in Procs /\ Cardinality(Found) \in Nat
  BY FoundIs DEF Procs
<1>3. primes'[0] = Delivered(0, "primes", Blank)
  BY <1>t DEF SyncResults
<1>4. DOMAIN Delivered(0, "primes", Blank) = 0 .. Cardinality(Found)
  BY DEF Delivered, Blank
<1>5. Delivered(0, "primes", Blank)[0] = 2
  <2>1. {p \in puts : p.to = 0 /\ p.array = "primes" /\ p.at = 0} = {}
    <3>1. \A k \in Found : Rank(k) # 0
      BY RanksAre
    <3> QED BY <1>2, <3>1, PutFields
  <2>2. 0 \in DOMAIN Blank /\ Blank[0] = 2
    BY <1>t DEF Blank
  <2> QED BY <2>1, <2>2 DEF Delivered
<1>6. ASSUME NEW k \in Found
      PROVE  Delivered(0, "primes", Blank)[Rank(k)] = NumberAt(k)
  <2> DEFINE here == {p \in puts : p.to = 0 /\ p.array = "primes" /\ p.at = Rank(k)}
  <2>1. here = {Put(0, "primes", Rank(k), NumberAt(k))}
    <3>1. \A j \in Found : Rank(j) = Rank(k) => j = k
      BY RanksAre
    <3> QED BY <1>2, <3>1, PutFields
  <2>2. Rank(k) \in DOMAIN Blank
    BY <1>t, RanksAre DEF Blank
  <2>3. here # {} /\ (CHOOSE p \in here : TRUE).value = NumberAt(k)
    BY <2>1, PutFields
  <2> QED BY <2>2, <2>3 DEF Delivered
<1>7. Found' = Found /\ \A k : Rank(k)' = Rank(k)
  BY <1>1, Rests
<1>8. IsResult(primes[0])'
  BY <1>3, <1>4, <1>5, <1>6, <1>7 DEF IsResult, NumberAt
<1>9. ASSUME NEW s \in Procs \ {0}
      PROVE  primes'[s] = Blank
  <2>1. Delivered(s, "primes", Blank) = Blank
    <3>1. Blank = [k \in DOMAIN Blank |-> Blank[k]]
      BY DEF Blank
    <3>2. \A p \in puts : p.to # s
      BY <1>2, PutFields
    <3> QED BY <3>1, <3>2, NothingDelivered
  <2> QED BY <2>1 DEF SyncResults
<1> QED BY <1>1, <1>8, <1>9 DEF SyncResults

(* These are the primes, in order. *)
LEMMA PrimesAre ==
  ASSUME SizesOK
  PROVE  PrimesUpTo(n) = {2} \cup {NumberAt(k) : k \in Found}
<1>t. n \in Nat \ {0, 1} /\ OddsUpTo(n) \in Nat /\ Found \subseteq Nat
      /\ (n = 2 * OddsUpTo(n) + 1 \/ n = 2 * OddsUpTo(n) + 2)
  BY OddsAre, FoundIs DEF SizesOK
<1>1. 2 \in PrimesUpTo(n)
  BY <1>t DEF PrimesUpTo, IsPrime
<1>2. ASSUME NEW k \in Found
      PROVE  NumberAt(k) \in PrimesUpTo(n)
  BY <1>t DEF Found, NumberAt, PrimesUpTo
<1>3. ASSUME NEW q \in PrimesUpTo(n), q # 2
      PROVE  \E k \in Found : NumberAt(k) = q
  <2>1. q \in Nat /\ q >= 3 /\ q <= n /\ IsPrime(q)
    BY <1>3, <1>t DEF PrimesUpTo
  <2>2. q % 2 = 1
    BY <2>1, PrimesAreOdd
  <2>3. PICK k \in Nat : q = 2 * k + 3
    <3>1. (q - 3) \div 2 \in Nat /\ q = 2 * ((q - 3) \div 2) + 3
      BY <2>1, <2>2
    <3> QED BY <3>1
  <2>4. k \in 0 .. OddsUpTo(n) - 1
    BY <2>1, <2>3, <1>t
  <2> QED BY <2>1, <2>3, <2>4 DEF Found, NumberAt
<1> QED BY <1>1, <1>2, <1>3

LEMMA ResultIsPrimes ==
  ASSUME SizesOK, NEW list, IsResult(list)
  PROVE  /\ {list[k] : k \in DOMAIN list} = PrimesUpTo(n)
         /\ \A j, k \in DOMAIN list : j < k => list[j] < list[k]
<1> DEFINE C == Cardinality(Found)
<1>t. C \in Nat /\ Found \subseteq Nat /\ DOMAIN list = 0 .. C /\ list[0] = 2
  BY FoundIs DEF IsResult
<1>1. \A r \in 1 .. C : \E k \in Found : Rank(k) = r /\ list[r] = NumberAt(k)
  BY RanksAre DEF IsResult
<1>2. \A k \in Found : Rank(k) \in 1 .. C /\ list[Rank(k)] = NumberAt(k)
  BY RanksAre DEF IsResult
<1>3. \A j, k \in Found : Rank(j) < Rank(k) => j < k
  BY RanksAre
<1> HIDE DEF C
<1>4. {list[k] : k \in DOMAIN list} = {2} \cup {NumberAt(k) : k \in Found}
  <2>1. \A k \in DOMAIN list : k = 0 \/ k \in 1 .. C
    BY <1>t
  <2>2. 0 \in DOMAIN list /\ \A k \in 1 .. C : k \in DOMAIN list
    BY <1>t
  <2> QED BY <1>t, <1>1, <1>2, <2>1, <2>2
<1>5. ASSUME NEW j \in DOMAIN list, NEW k \in DOMAIN list, j < k
      PROVE  list[j] < list[k]
  <2>1. k \in 1 .. C
    BY <1>t, <1>5
  <2>2. PICK u \in Found : Rank(u) = k /\ list[k] = NumberAt(u)
    BY <2>1, <1>1
  <2>3. CASE j = 0
    BY <2>2, <2>3, <1>t DEF NumberAt
  <2>4. CASE j # 0
    <3>1. j \in 1 .. C
      BY <1>t, <2>4
    <3>2. PICK v \in Found : Rank(v) = j /\ list[j] = NumberAt(v)
      BY <3>1, <1>1
    <3>3. v < u /\ v \in Nat /\ u \in Nat
      BY <1>3, <1>5, <2>2, <3>2, <1>t
    <3> QED BY <2>2, <3>2, <3>3 DEF NumberAt
  <2> QED BY <2>3, <2>4
<1> QED BY <1>4, <1>5, PrimesAre

(* No two puts meet, and none misses the array. *)
LEMMA CountPutsAreSafe ==
  ASSUME puts = CountPuts
  PROVE  PutsAreSafe
BY PutFields DEF CountPuts, CountPutsOf, PutsAreSafe

LEMMA PrimePutsAreSafe ==
  ASSUME SizesOK, waiting \subseteq Procs, puts = PrimePuts, primes = [s \in Procs |-> Blank]
  PROVE  PutsAreSafe
<1>1. \A p \in puts : \E k \in Found : p = Put(0, "primes", Rank(k), NumberAt(k))
  BY FoundIs DEF PrimePuts, PrimePutsOf
<1>2. 0 \in Procs /\ Cardinality(Found) \in Nat
  BY FoundIs DEF Procs
<1>3. \A k \in Found : Rank(k) \in DOMAIN primes[0]
  BY RanksAre, <1>2 DEF Blank
<1>4. \A j, k \in Found : Rank(j) = Rank(k) => j = k
  BY RanksAre
<1> QED BY <1>1, <1>3, <1>4, PutFields DEF PutsAreSafe

(* The last three supersteps are the same in both programs. *)
Sieved == sieve = [s \in Procs |-> PrimesOf(s)]

Allocating ==
  /\ Together("allocate", "collect") /\ Sieved /\ Counted /\ Allocated /\ puts = {}

Collecting(last) ==
  /\ Together("collect", last) /\ Sieved /\ Counted
  /\ primes = [s \in Procs |-> Blank] /\ puts = PrimePuts

Collected ==
  /\ waiting = {} /\ puts = {} /\ Sieved
  /\ IsResult(primes[0]) /\ \A s \in Procs \ {0} : primes[s] = Blank

LEMMA SievedRests ==
  ASSUME Sieved, n' = n, P' = P, sieve' = sieve
  PROVE  Sieved'
BY Rests DEF Sieved

LEMMA CountedRests ==
  ASSUME Counted, n' = n, P' = P, num_primes_result' = num_primes_result
  PROVE  Counted'
BY Rests DEF Counted

LEMMA CountingEnds ==
  ASSUME NEW now, Together(now, "allocate"), Untouched, puts = CountPuts, Sieved, SyncResults
  PROVE  Allocating'
<1>1. n' = n /\ P' = P /\ sieve' = sieve /\ waiting = Procs /\ waiting' = {} /\ pc' = pc
  BY DEF SyncResults
<1>2. Together("allocate", "collect")'
  BY <1>1, SyncTogether
<1>3. Counted' /\ puts' = {} /\ Allocated'
  BY <1>1, CountSync, Rests DEF Allocated
<1> QED BY <1>1, <1>2, <1>3, SievedRests DEF Allocating

LEMMA AllocatingStep ==
  ASSUME SizesOK, Allocating, NEW s \in Procs, AllocatePrimes(s), Enters(s, "collect"),
         UNCHANGED <<n, P, sieve, num_primes_result, puts>>
  PROVE  Allocating'
<1>1. Together("allocate", "collect")'
  BY EnterTogether DEF Allocating
<1>2. Allocated'
  BY AllocateStep DEF Allocating, Enters
<1> QED BY <1>1, <1>2, SievedRests, CountedRests DEF Allocating

LEMMA AllocatingEnds ==
  ASSUME SizesOK, Allocating, SyncResults, NEW last
  PROVE  Collecting(last)'
<1>1. n' = n /\ P' = P /\ sieve' = sieve /\ waiting = Procs /\ waiting' = {} /\ pc' = pc
  BY DEF SyncResults
<1>2. Together("collect", last)'
  BY <1>1, SyncTogether DEF Allocating
<1>3. Counted' /\ primes' = [s \in Procs |-> Blank] /\ puts' = {}
  BY AllocateSync DEF Allocating
<1>4. Procs' = Procs /\ Blank' = Blank /\ PrimePuts' = {}
  BY <1>1, Rests DEF Blank, PrimePuts
<1> QED BY <1>1, <1>2, <1>3, <1>4, SievedRests DEF Collecting, Allocating

LEMMA CollectingStep ==
  ASSUME SizesOK, NEW last, Collecting(last), NEW s \in Procs, PutPrimes(s), Enters(s, last),
         UNCHANGED <<n, P, sieve, num_primes_result, primes>>
  PROVE  Collecting(last)'
<1>1. Together("collect", last)'
  BY EnterTogether DEF Collecting
<1>2. (puts = PrimePuts)'
  <2>1. sieve[s] = PrimesOf(s) /\ waiting' = waiting \cup {s}
    BY DEF Collecting, Sieved, Enters
  <2> QED BY <2>1, CollectStep DEF Collecting
<1>3. Procs' = Procs /\ Blank' = Blank
  BY Rests DEF Blank
<1> QED BY <1>1, <1>2, <1>3, SievedRests, CountedRests DEF Collecting

LEMMA CollectingEnds ==
  ASSUME SizesOK, NEW last, Collecting(last), SyncResults
  PROVE  Collected' /\ pc' = [s \in Procs |-> last]
<1>1. n' = n /\ P' = P /\ sieve' = sieve /\ waiting = Procs /\ waiting' = {} /\ pc' = pc
  BY DEF SyncResults
<1>2. pc = [s \in Procs |-> last]
  BY <1>1 DEF Collecting, Together
<1>3. IsResult(primes[0])' /\ puts' = {} /\ \A s \in Procs \ {0} : primes'[s] = Blank
  BY CollectSync DEF Collecting
<1>4. Procs' = Procs /\ Blank' = Blank
  BY <1>1, Rests DEF Blank
<1> QED BY <1>1, <1>2, <1>3, <1>4, SievedRests DEF Collected, Collecting

LEMMA CollectedRests ==
  ASSUME Collected, UNCHANGED <<n, P, waiting, sieve, primes, puts>>
  PROVE  Collected'
<1>1. Procs' = Procs /\ Blank' = Blank /\ (IsResult(primes[0]) => IsResult(primes[0])')
  BY Rests DEF Blank, IsResult, NumberAt
<1> QED BY <1>1, SievedRests DEF Collected

(* What the elements of the result arrays are, in every superstep. *)
ListsTyped ==
  \A s \in Procs : \A k \in DOMAIN primes[s] : primes[s][k] \in 0 .. n

LEMMA ListTypes ==
  ASSUME SizesOK
  PROVE  /\ Untouched => ListsTyped
         /\ Allocated => ListsTyped
         /\ primes = [s \in Procs |-> Blank] => ListsTyped
         /\ Collected => ListsTyped
<1>1. n \in Nat /\ n >= 2
  BY DEF SizesOK
<1>2. \A k \in DOMAIN Blank : Blank[k] \in 0 .. n
  BY <1>1 DEF Blank
<1>3. DOMAIN <<>> = {}
  OBVIOUS
<1>4. ASSUME NEW list, IsResult(list), NEW k \in DOMAIN list
      PROVE  list[k] \in 0 .. n
  <2>1. list[k] \in PrimesUpTo(n)
    BY <1>4, ResultIsPrimes
  <2> QED BY <2>1, <1>1 DEF PrimesUpTo
<1> HIDE DEF Blank
<1>5. Untouched => ListsTyped
  BY <1>3 DEF Untouched, ListsTyped
<1>6. Allocated => ListsTyped
  BY <1>2, <1>3 DEF Allocated, ListsTyped
<1>7. primes = [s \in Procs |-> Blank] => ListsTyped
  BY <1>2 DEF ListsTyped
<1>8. Collected => ListsTyped
  BY <1>2, <1>4 DEF Collected, ListsTyped
<1> QED BY <1>5, <1>6, <1>7, <1>8

(* Within a part of the program only what belongs to it can be done. *)
LEMMA PartIs ==
  ASSUME NEW now, NEW then, Together(now, then), NEW s \in Procs, NEW part, Computes(s, part)
  PROVE  part = now
BY DEF Together, Computes

(* The sizes follow from the initial condition. *)
LEMMA InitialSizes ==
  ASSUME InitSieve
  PROVE  /\ SizesOK /\ n \in Limits
         /\ P = 1 \/ P * FloorSqrt(n) <= OddsUpTo(n)
<1>1. n \in Limits /\ n \in Nat \ {0, 1}
  BY LimitsAssumption DEF InitSieve
<1>2. PICK p \in ProcCounts : P = UsableProcs(n, p)
  BY DEF InitSieve
<1> DEFINE F == FloorSqrt(n)
           O == OddsUpTo(n)
<1>3. F \in Nat \ {0} /\ O \in Nat /\ p \in Nat \ {0}
  BY <1>1, FloorSqrtIs, OddsAre, ProcCountsAssumption
<1>4. P = IF p * F > O THEN IF O \div F = 0 THEN 1 ELSE O \div F ELSE p
  BY <1>2 DEF UsableProcs
<1> HIDE DEF F, O
<1>5. O \div F \in Nat /\ (O \div F) * F <= O /\ p * F \in Nat
  <2>1. O \div F \in Nat /\ O % F \in 0 .. F-1 /\ O = F * (O \div F) + (O % F)
    BY <1>3, DivMod, Zenon
  <2>2. F * (O \div F) = (O \div F) * F /\ (O \div F) * F \in Nat
    BY <2>1, <1>3
  <2> QED BY <2>1, <2>2, <1>3
<1>6. P \in Nat \ {0} /\ (P = 1 \/ P * F <= O)
  BY <1>3, <1>4, <1>5
<1> QED BY <1>1, <1>6 DEF SizesOK, F, O
----
(* The parallel sieve. *)
LEMMA ParallelNames ==
  /\ Parallel!Procs = Procs
  /\ \A m : /\ Parallel!OddsUpTo(m) = OddsUpTo(m) /\ Parallel!CeilSqrt(m) = CeilSqrt(m)
            /\ Parallel!FloorSqrt(m) = FloorSqrt(m)
            /\ Parallel!NumberAt(m) = NumberAt(m) /\ Parallel!SmallSize(m) = SmallSize(m)
            /\ Parallel!IsPrime(m) <=> IsPrime(m)
  /\ \A m, p : Parallel!UsableProcs(m, p) = UsableProcs(m, p)
  /\ \A s : /\ Parallel!Left(s) = Left(s) /\ Parallel!Right(s) = Right(s)
            /\ Parallel!Block(s) = Block(s)
  /\ \A l, r, p : Parallel!GetStart(l, r, p) = GetStart(l, r, p)
  /\ \A s, p : Parallel!CrossedOff(s, p) = CrossedOff(s, p)
  /\ \A t, a, k, v : Parallel!Put(t, a, k, v) = Put(t, a, k, v)
  /\ \A t, name, old : Parallel!Delivered(t, name, old) = Delivered(t, name, old)
<1>1. Parallel!Procs = Procs
  BY DEF Procs, Parallel!Procs
<1>2. \A m : /\ Parallel!OddsUpTo(m) = OddsUpTo(m) /\ Parallel!CeilSqrt(m) = CeilSqrt(m)
             /\ Parallel!FloorSqrt(m) = FloorSqrt(m)
            /\ Parallel!NumberAt(m) = NumberAt(m) 
  BY DEF OddsUpTo, Parallel!OddsUpTo, CeilSqrt, Parallel!CeilSqrt, FloorSqrt, Parallel!FloorSqrt, NumberAt, Parallel!NumberAt
<1>3. \A m :  Parallel!SmallSize(m) = SmallSize(m)
  BY <1>2 DEF SmallSize, Parallel!SmallSize
<1>4. \A m : Parallel!IsPrime(m) <=> IsPrime(m)
  BY DEF IsPrime, Parallel!IsPrime
<1>5. \A s : /\ Parallel!Left(s) = Left(s) /\ Parallel!Right(s) = Right(s)
  BY <1>2 DEF Left, Right, Parallel!Left, Parallel!Right
<1>6. \A s : Parallel!Block(s) = Block(s)
  BY <1>5 DEF Block, Parallel!Block
<1>7. \A l, r, p : Parallel!GetStart(l, r, p) = GetStart(l, r, p)
  BY DEF GetStart, Parallel!GetStart
<1>8. \A s, p : Parallel!CrossedOff(s, p) = CrossedOff(s, p)
  BY <1>2, <1>5, <1>6, <1>7 DEF CrossedOff, Parallel!CrossedOff
<1>9. \A t, a, k, v : Parallel!Put(t, a, k, v) = Put(t, a, k, v)
  BY DEF Put, Parallel!Put
<1>10. \A t, name, old : Parallel!Delivered(t, name, old) = Delivered(t, name, old)
  BY DEF Delivered, Parallel!Delivered
<1>11. \A m, p : Parallel!UsableProcs(m, p) = UsableProcs(m, p)
  BY <1>2 DEF UsableProcs, Parallel!UsableProcs
<1> QED BY <1>1, <1>2, <1>3, <1>4, <1>5, <1>6, <1>7, <1>8, <1>9, <1>10, <1>11

LEMMA ParallelParts ==
  /\ \A s, now : Parallel!Computes(s, now) <=> Computes(s, now)
  /\ \A s, then : Parallel!Enters(s, then) <=> Enters(s, then)
  /\ Parallel!SyncResults <=> SyncResults
  /\ Parallel!InitSieve <=> InitSieve
  /\ \A s : /\ Parallel!PublishCount(s) <=> PublishCount(s)
            /\ Parallel!AllocatePrimes(s) <=> AllocatePrimes(s)
            /\ Parallel!PutPrimes(s) <=> PutPrimes(s)
  /\ Parallel!sieveVars = sieveVars /\ Parallel!resultVars = resultVars
<1>1. \A s, now : Parallel!Computes(s, now) <=> Computes(s, now)
  BY DEF Computes, Parallel!Computes
<1>2. \A s, then : Parallel!Enters(s, then) <=> Enters(s, then)
  BY DEF Enters, Parallel!Enters
<1>3. Parallel!SyncResults <=> SyncResults
  BY ParallelNames DEF SyncResults, Parallel!SyncResults
<1>0. \A S : Parallel!Cardinality(S) = Cardinality(S)
  BY DEF Cardinality, Parallel!Cardinality
<1>4. \A s : Parallel!PublishCount(s) <=> PublishCount(s)
  BY <1>0, ParallelNames DEF PublishCount, Parallel!PublishCount, Put, Parallel!Put
<1>5. \A s : Parallel!AllocatePrimes(s) <=> AllocatePrimes(s)
  <2>1. \A s : Parallel!TotalPrimes(s) = TotalPrimes(s)
    BY ParallelNames DEF TotalPrimes, Parallel!TotalPrimes, MapThenSumSet, MapThenFoldSet,
         Parallel!MapThenSumSet, Parallel!MapThenFoldSet
  <2> QED BY <2>1 DEF AllocatePrimes, Parallel!AllocatePrimes
<1>6. \A s : Parallel!PutPrimes(s) <=> PutPrimes(s)
  <2>1. \A s : Parallel!Offset(s) = Offset(s)
    BY DEF Offset, Parallel!Offset, MapThenSumSet, MapThenFoldSet,
         Parallel!MapThenSumSet, Parallel!MapThenFoldSet
  <2> QED
    BY <1>0, <2>1 DEF PutPrimes, Parallel!PutPrimes, Put, Parallel!Put, NumberAt, Parallel!NumberAt
<1>7. Parallel!InitSieve <=> InitSieve
  BY ParallelNames DEF InitSieve, Parallel!InitSieve
<1> QED
  BY <1>1, <1>2, <1>3, <1>4, <1>5, <1>6, <1>7 DEF sieveVars, resultVars, Parallel!sieveVars, Parallel!resultVars

(* The small sieve: what is left marked once all odd numbers below b have
   been sieved with. *)
Marked(x, b) == \A q \in 3 .. b-1 : IsPrime(q) => x = q \/ x % q # 0

LEMMA MarkedIsPrime ==
  ASSUME NEW j \in Nat, j >= 1
  PROVE  Marked(2 * j + 1, 2 * j) <=> IsPrime(2 * j + 1)
<1> DEFINE m == 2 * j + 1
<1>1. m \in Nat /\ m > 1 /\ m % 2 = 1 /\ 2 * j - 1 = m - 2
  OBVIOUS
<1> HIDE DEF m
<1>2. ASSUME Marked(m, 2 * j), ~ IsPrime(m)
      PROVE  FALSE
  <2>1. PICK q \in 3 .. m-1 : IsPrime(q) /\ q % 2 = 1 /\ m % q = 0
    BY <1>1, <1>2, OddPrime
  <2>2. q # m-1 /\ q # m
    BY <1>1, <2>1
  <2>3. q \in 3 .. 2 * j - 1
    BY <1>1, <2>1, <2>2
  <2> QED BY <1>2, <2>1, <2>2, <2>3 DEF Marked
<1>3. ASSUME IsPrime(m)
      PROVE  Marked(m, 2 * j)
  <2> SUFFICES ASSUME NEW q \in 3 .. 2 * j - 1, m # q, m % q = 0
               PROVE  FALSE
    BY DEF Marked
  <2>1. q \in Nat /\ q > 1
    BY <1>1
  <2> QED BY <1>1, <1>3, <2>1, PrimeIsNoMultiple
<1> QED BY <1>2, <1>3 DEF m

(* One round of the loop over the small sieve. *)
LEMMA SmallRound ==
  ASSUME NEW j \in Nat, j >= 1, NEW k \in Nat, k >= 1
  PROVE  Marked(2 * k + 1, 2 * j + 2) <=>
           /\ Marked(2 * k + 1, 2 * j)
           /\ ~ (IsPrime(2 * j + 1) /\ k >= 3 * j + 1 /\ (k - j) % (2 * j + 1) = 0)
<1> DEFINE p == 2 * j + 1
           x == 2 * k + 1
<1>t. p \in Nat \ {0} /\ p >= 3 /\ p % 2 = 1 /\ x \in Nat /\ x >= 3 /\ x % 2 = 1
      /\ 3 .. (2*j+2) - 1 = 3 .. p /\ 2 * j - 1 = p - 2
  OBVIOUS
<1>1. k >= j => ((k - j) % p = 0 <=> x % p = 0)
  <2> SUFFICES ASSUME k >= j
               PROVE  (k - j) % p = 0 <=> x % p = 0
    OBVIOUS
  <2>1. j - 1 \in Nat /\ k - 1 \in Nat /\ k - 1 >= j - 1 /\ 2 * (j - 1) + 3 = p
        /\ 2 * (k - 1) + 3 = x /\ (k - 1) - (j - 1) = k - j
    OBVIOUS
  <2>2. (2 * (j - 1) + 3) % p = 0
    <3>1. p * 1 = p /\ 1 \in Nat
      BY <1>t
    <3>2. p % p = 0
      BY <3>1, <1>t, Multiple
    <3> QED BY <2>1, <3>2
  <2> HIDE DEF p, x
  <2>3. ((k - 1) - (j - 1)) % p = 0 <=> (2 * (k - 1) + 3) % p = 0
    BY <1>t, <2>1, <2>2, StepsOf
  <2> QED BY <2>1, <2>3
<1>2. (k >= 3 * j + 1 /\ (k - j) % p = 0) <=> (x % p = 0 /\ x # p)
  <2>1. ASSUME x % p = 0, x # p
        PROVE  k >= 3 * j + 1
    <3>1. PICK q \in Nat : x = p * q
      <4> HIDE DEF p, x
      <4> QED BY <1>t, <2>1, Multiple
    <3>2. q # 0 /\ q # 1 /\ q # 2
      BY <2>1, <3>1
    <3>3. PICK z \in Nat : q = 3 + z
      BY <3>2
    <3>4. p * (3 + z) = 3 * p + p * z /\ p * z \in Nat
      OBVIOUS
    <3> QED BY <3>1, <3>3, <3>4
  <2>2. k >= 3 * j + 1 => k >= j /\ x # p
    OBVIOUS
  <2> HIDE DEF p, x
  <2>3. k >= 3 * j + 1 \/ ~ (k >= 3 * j + 1)
    OBVIOUS
  <2> QED BY <1>1, <2>1, <2>2
<1> HIDE DEF x
<1>3. Marked(x, 2 * j + 2) <=> Marked(x, 2 * j) /\ (IsPrime(p) => x = p \/ x % p # 0)
  <2>1. \A q \in 3 .. p : q = p \/ q \in 3 .. p-2 \/ (q = p-1 /\ ~ IsPrime(q))
    <3> TAKE q \in 3 .. p
    <3>1. q = p-1 => ~ IsPrime(q)
      <4> SUFFICES ASSUME q = p-1, IsPrime(q)
                   PROVE  FALSE
        OBVIOUS
      <4>1. q \in Nat /\ q >= 3 /\ q % 2 = 0
        OBVIOUS
      <4> QED BY <4>1, PrimesAreOdd
    <3> HIDE DEF p
    <3> QED BY <1>t, <3>1
  <2>2. p \in 3 .. p /\ \A q \in 3 .. p-2 : q \in 3 .. p
    BY <1>t
  <2> HIDE DEF p
  <2> QED BY <1>t, <2>1, <2>2 DEF Marked
<1> QED BY <1>2, <1>3 DEF x

(* The root of the root is a good place to stop. *)
LEMMA SmallEndIs ==
  ASSUME SizesOK
  PROVE  /\ Parallel!SmallEnd \in Nat \ {0}
         /\ CeilSqrt(n) <= (2 * Parallel!SmallEnd) * (2 * Parallel!SmallEnd)
         /\ Parallel!SmallEnd <= SmallSize(n)
         /\ SmallSize(n) \in Nat \ {0} /\ CeilSqrt(n) \in Nat /\ CeilSqrt(n) >= 2
         /\ CeilSqrt(n) = 2 * SmallSize(n) \/ CeilSqrt(n) = 2 * SmallSize(n) - 1
<1> DEFINE C == CeilSqrt(n)
           F(k) == Parallel!FourthPower(2 * k)
           E == Parallel!SmallEnd
           T == {k \in Nat : F(k) >= n}
<1>t. n \in Nat \ {0, 1}
  BY DEF SizesOK
<1>c. C \in Nat /\ C >= 2 /\ C * C >= n /\ (C - 1) * (C - 1) < n
  BY <1>t, CeilSqrtIs
<1> HIDE DEF C
<1>1. \A k \in Nat : F(k) = ((2*k) * (2*k)) * ((2*k) * (2*k)) /\ (2*k) * (2*k) \in Nat /\ F(k) \in Nat
  BY DEF Parallel!FourthPower
<1>2. n \in T
  <2>1. 2*n \in Nat \ {0} /\ (2*n) * (2*n) \in Nat \ {0} /\ 2*n <= (2*n) * (2*n)
    BY <1>t, FactorsBelow
  <2>2. (2*n) * (2*n) <= F(n)
    BY <1>1, <1>t, <2>1, FactorsBelow
  <2>3. F(n) \in Nat
    BY <1>1, <1>t
  <2> HIDE DEF F
  <2> QED BY <1>t, <2>1, <2>2, <2>3
<1> HIDE DEF F
<1>3. PICK e \in T : \A k \in T : e <= k
  <2>1. T \subseteq Nat /\ T # {}
    BY <1>2
  <2> HIDE DEF T
  <2> QED BY <2>1, LeastNumber
<1>4. e \in 0 .. n /\ F(e) >= n /\ (e = 0 \/ F(e-1) < n)
  <2>1. e \in Nat /\ e <= n /\ F(e) >= n
    BY <1>2, <1>3
  <2>2. CASE e = 0
    BY <2>1, <2>2, <1>t
  <2>3. CASE e # 0
    <3>1. e - 1 \in Nat /\ ~ (e <= e - 1)
      BY <2>1, <2>3
    <3>2. e - 1 \notin T
      <4> HIDE DEF T
      <4> QED BY <1>3, <3>1
    <3>3. ~ (F(e-1) >= n) /\ F(e-1) \in Nat
      BY <3>1, <3>2, <1>1
    <3> QED BY <2>1, <3>3, <1>t
  <2> QED BY <2>2, <2>3
<1>5. E \in 0 .. n /\ F(E) >= n /\ (E = 0 \/ F(E-1) < n)
  BY <1>4 DEF Parallel!SmallEnd, F
<1> HIDE DEF E
<1>6. E \in Nat /\ E # 0
  <2>1. F(0) = 0
    BY <1>1
  <2> QED BY <1>5, <2>1, <1>t
<1>7. C <= (2*E) * (2*E)
  <2> DEFINE Q == (2*E) * (2*E)
  <2>1. Q \in Nat /\ F(E) = Q * Q /\ C - 1 \in Nat
    BY <1>1, <1>6, <1>c
  <2> HIDE DEF Q
  <2>2. (C - 1) * (C - 1) < Q * Q
    <3>1. Q * Q \in Nat /\ (C - 1) * (C - 1) \in Nat
      BY <2>1
    <3> QED BY <3>1, <2>1, <1>5, <1>c, <1>t
  <2>3. C - 1 < Q
    BY <2>1, <2>2, SquaresGrow
  <2> QED BY <2>1, <2>3, <1>c DEF Q
<1>8. 2 * (E - 1) < C
  <2> DEFINE D == 2 * (E - 1)
             Q == D * D
  <2>1. D \in Nat /\ E - 1 \in Nat
    BY <1>6
  <2>2. Q \in Nat /\ F(E-1) = Q * Q /\ Q * Q \in Nat /\ C * C \in Nat
    BY <1>1, <2>1, <1>c
  <2> HIDE DEF D
  <2>3. D <= Q
    BY <2>1, FactorsBelow
  <2> HIDE DEF Q
  <2>4. Q * Q < C * C
    BY <2>2, <1>5, <1>6, <1>c, <1>t
  <2>5. Q < C
    BY <2>2, <2>4, <1>c, SquaresGrow
  <2> QED BY <2>1, <2>2, <2>3, <2>5, <1>c DEF D
<1>9. SmallSize(n) = (C + 1) \div 2
  BY DEF SmallSize, C
<1>10. SmallSize(n) \in Nat \ {0} /\ (C = 2 * SmallSize(n) \/ C = 2 * SmallSize(n) - 1)
  BY <1>9, <1>c
<1>11. E <= SmallSize(n)
  BY <1>6, <1>8, <1>10, <1>c
<1> QED BY <1>6, <1>7, <1>10, <1>11, <1>c DEF E, C

(* Once the loop is done the small sieve is exact. *)
LEMMA SmallIsExact ==
  ASSUME SizesOK, NEW j \in Nat, j >= 1, j >= Parallel!SmallEnd,
         NEW k \in 0 .. SmallSize(n) - 1
  PROVE  k >= 1 /\ Marked(2 * k + 1, 2 * j) <=> IsPrime(2 * k + 1)
<1> DEFINE E == Parallel!SmallEnd
           C == CeilSqrt(n)
           m == 2 * k + 1
<1>1. /\ E \in Nat \ {0} /\ C <= (2 * E) * (2 * E) /\ C \in Nat /\ SmallSize(n) \in Nat
      /\ C = 2 * SmallSize(n) \/ C = 2 * SmallSize(n) - 1
      /\ j >= E
  BY SmallEndIs
<1> HIDE DEF E, C
<1>2. k \in Nat /\ m \in Nat /\ m % 2 = 1 /\ m <= C
  BY <1>1
<1>3. ~ IsPrime(1)
  BY DEF IsPrime
<1>4. ASSUME k >= 1, Marked(m, 2 * j), ~ IsPrime(m)
      PROVE  FALSE
  <2>1. m > 1
    BY <1>2, <1>4
  <2> HIDE DEF m
  <2>2. PICK q \in 3 .. m-1 : IsPrime(q) /\ q % 2 = 1 /\ m % q = 0 /\ q * q <= m
    BY <1>2, <1>4, <2>1, OddPrime
  <2>3. q \in Nat /\ q >= 3 /\ q # m /\ q * q \in Nat
    BY <1>2, <2>2
  <2>4. 2 * E \in Nat /\ 2 * E + 1 \in Nat /\ (2 * E + 1) * (2 * E + 1) = (2 * E) * (2 * E) + 4 * E + 1
    BY <1>1
  <2>5. q * q < (2 * E + 1) * (2 * E + 1)
    <3> DEFINE Q == (2 * E) * (2 * E)
    <3>1. Q \in Nat
      BY <1>1
    <3>2. C <= Q /\ (2 * E + 1) * (2 * E + 1) = Q + 4 * E + 1
      BY <1>1, <2>4
    <3> HIDE DEF Q
    <3> QED BY <1>1, <1>2, <2>2, <2>3, <3>1, <3>2
  <2>6. q < 2 * E + 1
    BY <2>3, <2>4, <2>5, SquaresGrow
  <2>7. q # 2 * E
    BY <2>2, <1>1
  <2>8. q \in 3 .. 2 * j - 1
    BY <2>3, <2>6, <2>7, <1>1
  <2> QED BY <1>4, <2>2, <2>3, <2>8 DEF Marked
<1>5. ASSUME IsPrime(m)
      PROVE  k >= 1 /\ Marked(m, 2 * j)
  <2>1. k # 0
    BY <1>3, <1>5
  <2>2. ASSUME NEW q \in 3 .. 2 * j - 1, m # q, m % q = 0
        PROVE  FALSE
    <3> HIDE DEF m
    <3> QED BY <1>2, <1>5, <2>2, PrimeIsNoMultiple
  <2> QED BY <1>2, <2>1, <2>2 DEF Marked
<1> QED BY <1>4, <1>5

(* The invariant: in which superstep the processes are, and what holds. *)
ParallelTyped ==
  /\ SizesOK /\ n \in Limits
  /\ small \in [Procs -> [0 .. SmallSize(n) - 1 -> BOOLEAN]]
  /\ i \in [Procs -> 0 .. SmallSize(n)]

Exact(t) == \A k \in 0 .. SmallSize(n) - 1 : small[t][k] <=> IsPrime(2 * k + 1)

Unsieved == sieve = [s \in Procs |-> Block(s)]

Registering ==
  /\ Together("register", "sift") /\ Untouched /\ Unsieved /\ puts = {}
  /\ \A s \in Procs : i[s] = 0
  /\ \A k \in 0 .. SmallSize(n) - 1 : small[0][k]

SmallPuts ==
  {Put(t, "is_prime_small", k, small[0][k]) : t \in 1 .. P-1, k \in 0 .. SmallSize(n) - 1}

Sifting ==
  /\ Together("sift", "sieve") /\ Untouched /\ Unsieved
  /\ \A s \in Procs \ {0} : i[s] = 0
  /\ 0 \notin waiting =>
       /\ puts = {}
       /\ i[0] = 0 => \A k \in 0 .. SmallSize(n) - 1 : small[0][k]
       /\ i[0] # 0 => \A k \in 0 .. SmallSize(n) - 1 :
                        small[0][k] <=> k >= 1 /\ Marked(2 * k + 1, 2 * i[0])
  /\ 0 \in waiting => i[0] = 0 /\ Exact(0) /\ puts = SmallPuts

Sieving ==
  /\ Together("sieve", "allocate") /\ Untouched /\ puts = CountPuts
  /\ \A s \in Procs : Exact(s)
  /\ sieve = [s \in Procs |-> SievedBelow(s, 2 * i[s])]
  /\ \A s \in waiting : i[s] = SmallSize(n)

ParallelEnded == Collected /\ pc \in [Procs -> {"end", "final"}]

ParallelInv ==
  /\ ParallelTyped
  /\ Registering \/ Sifting \/ Sieving \/ Allocating \/ Collecting("end") \/ ParallelEnded

LEMMA ParallelInitInv == Parallel!Init => ParallelInv
<1> SUFFICES ASSUME Parallel!Init
             PROVE  ParallelInv
  OBVIOUS
<1>1. InitSieve
  BY ParallelParts DEF Parallel!Init
<1>2. SizesOK /\ n \in Limits
  BY <1>1, InitialSizes
<1>3. /\ small = [s \in Procs |-> [k \in 0 .. SmallSize(n) - 1 |-> TRUE]]
      /\ i = [s \in Procs |-> 0]
  BY ParallelNames DEF Parallel!Init
<1>4. SmallSize(n) \in Nat /\ 0 \in Procs
  BY <1>2, SmallEndIs DEF SizesOK, Procs
<1>5. ParallelTyped
  BY <1>2, <1>3, <1>4 DEF ParallelTyped
<1>6. Registering
  BY <1>1, <1>3, <1>4 DEF Registering, InitSieve, Together, Untouched, Unsieved
<1> QED BY <1>5, <1>6 DEF ParallelInv

(* The steps a superstep admits. *)
LEMMA ParallelStepInPart ==
  ASSUME NEW now, NEW then, Together(now, then), NEW s \in Procs, Parallel!Step(s)
  PROVE  /\ now = "register" => Parallel!Register(s)
         /\ now = "sift" => Parallel!SiftBegin(s) \/ Parallel!Sift(s)
                               \/ Parallel!PublishSmall(s) \/ Parallel!AwaitSmall(s)
         /\ now = "sieve" => Parallel!Sieve(s) \/ Parallel!Count(s)
         /\ now = "allocate" => Parallel!Allocate(s)
         /\ now = "collect" => Parallel!Collect(s)
<1>1. \A part : Parallel!Computes(s, part) => part = now
  BY PartIs, ParallelParts
<1> QED
  BY <1>1 DEF Parallel!Step, Parallel!Register, Parallel!SiftBegin, Parallel!Sift,
       Parallel!PublishSmall, Parallel!AwaitSmall, Parallel!Sieve, Parallel!Count,
       Parallel!Allocate, Parallel!Collect, Parallel!End

(* What a step leaves alone. *)
LEMMA UnsievedRests ==
  ASSUME Unsieved, UNCHANGED sieveVars
  PROVE  Unsieved'
BY Rests DEF Unsieved, sieveVars

LEMMA UntouchedRests ==
  ASSUME Untouched, P' = P, UNCHANGED resultVars
  PROVE  Untouched'
BY DEF Untouched, resultVars, Procs

LEMMA TypedRests ==
  ASSUME ParallelTyped, n' = n, P' = P,
         small' \in [Procs -> [0 .. SmallSize(n) - 1 -> BOOLEAN]],
         i' \in [Procs -> 0 .. SmallSize(n)]
  PROVE  ParallelTyped'
BY Rests DEF ParallelTyped, SmallSize, CeilSqrt

LEMMA SmallRests ==
  ASSUME ParallelTyped, \A p \in puts : p.array # "is_prime_small", Parallel!Sync
  PROVE  small' = small /\ i' = i /\ SyncResults
<1>1. SyncResults /\ i' = i
       /\ small' = [t \in Procs |-> Delivered(t, "is_prime_small", small[t])]
  BY ParallelNames, ParallelParts DEF Parallel!Sync
<1>2. ASSUME NEW t \in Procs
      PROVE  Delivered(t, "is_prime_small", small[t]) = small[t]
  <2>1. small[t] \in [0 .. SmallSize(n) - 1 -> BOOLEAN]
    BY DEF ParallelTyped
  <2>2. small[t] = [k \in DOMAIN small[t] |-> small[t][k]]
    BY <2>1
  <2> QED BY <2>2, NothingDelivered
<1>3. small = [t \in Procs |-> small[t]]
  BY DEF ParallelTyped
<1> QED BY <1>1, <1>2, <1>3

LEMMA RegisteringNext ==
  ASSUME ParallelTyped, Registering,
         Parallel!Sync \/ \E s \in Procs : Parallel!Step(s)
  PROVE  ParallelInv'
<1>t. 0 \in Procs /\ P \in Nat \ {0}
  BY DEF ParallelTyped, SizesOK, Procs
<1>1. ASSUME NEW s \in Procs, Parallel!Step(s)
      PROVE  ParallelInv'
  <2>1. Parallel!Register(s)
    BY <1>1, ParallelStepInPart DEF Registering
  <2>2. Enters(s, "sift") /\ UNCHANGED <<sieveVars, resultVars, puts, small, i>>
    BY <2>1, ParallelParts DEF Parallel!Register, Parallel!sieveVars, Parallel!resultVars,
         sieveVars, resultVars
  <2>3. n' = n /\ P' = P /\ small' = small /\ i' = i /\ puts' = puts
    BY <2>2 DEF sieveVars
  <2>4. Together("register", "sift")' /\ Untouched' /\ Unsieved'
    BY <2>2, <2>3, EnterTogether, UntouchedRests, UnsievedRests DEF Registering
  <2>5. Registering'
    BY <2>3, <2>4, Rests DEF Registering, SmallSize, CeilSqrt
  <2>6. ParallelTyped'
    BY <2>3, TypedRests DEF ParallelTyped
  <2> QED BY <2>5, <2>6 DEF ParallelInv
<1>2. ASSUME Parallel!Sync
      PROVE  ParallelInv'
  <2>1. SyncResults /\ small' = small /\ i' = i
    BY <1>2, SmallRests DEF Registering
  <2>2. n' = n /\ P' = P /\ sieve' = sieve /\ waiting = Procs /\ waiting' = {} /\ pc' = pc
        /\ puts' = {}
    BY <2>1 DEF SyncResults
  <2>3. Together("sift", "sieve")' /\ Untouched' /\ Unsieved'
    BY <2>1, <2>2, SyncTogether, UntouchedBySync, UnsievedRests DEF Registering, sieveVars
  <2>4. Sifting'
    BY <1>t, <2>1, <2>2, <2>3, Rests DEF Registering, Sifting, SmallSize, CeilSqrt
  <2>5. ParallelTyped'
    BY <2>1, <2>2, TypedRests DEF ParallelTyped
  <2> QED BY <2>4, <2>5 DEF ParallelInv
<1> QED BY <1>1, <1>2

LEMMA SiftingStep ==
  ASSUME ParallelTyped, Sifting, NEW s \in Procs, Parallel!Step(s)
  PROVE  ParallelInv'
<1> DEFINE D == 0 .. SmallSize(n) - 1
<1>t. /\ 0 \in Procs /\ P \in Nat \ {0} /\ SizesOK
      /\ small \in [Procs -> [D -> BOOLEAN]] /\ i \in [Procs -> 0 .. SmallSize(n)]
  BY DEF ParallelTyped, SizesOK, Procs
<1>e. /\ Parallel!SmallEnd \in Nat \ {0} /\ Parallel!SmallEnd <= SmallSize(n)
      /\ SmallSize(n) \in Nat \ {0}
  BY <1>t, SmallEndIs
<1>d. SmallSize(n)' = SmallSize(n) <=> SmallSize(n') = SmallSize(n)
  BY DEF SmallSize, CeilSqrt
<1>0. Parallel!SiftBegin(s) \/ Parallel!Sift(s) \/ Parallel!PublishSmall(s) \/ Parallel!AwaitSmall(s)
  BY ParallelStepInPart DEF Sifting
<1>1. ASSUME NEW newSmall \in [D -> BOOLEAN], NEW j \in 1 .. SmallSize(n),
             0 \notin waiting, small' = [small EXCEPT ![0] = newSmall], i' = [i EXCEPT ![0] = j],
             \A k \in D : newSmall[k] <=> k >= 1 /\ Marked(2 * k + 1, 2 * j),
             UNCHANGED <<sieveVars, resultVars, pc, waiting, puts>>
      PROVE  ParallelInv'
  <2>1. n' = n /\ P' = P /\ Procs' = Procs /\ D' = D
    BY <1>1, Rests DEF sieveVars, SmallSize, CeilSqrt
  <2>2. /\ small' \in [Procs -> [D -> BOOLEAN]] /\ small'[0] = newSmall
        /\ i' \in [Procs -> 0 .. SmallSize(n)] /\ i'[0] = j
        /\ \A r \in Procs \ {0} : i'[r] = i[r]
    BY <1>1, <1>t, <1>e
  <2>3. ParallelTyped'
    BY <2>1, <2>2, TypedRests
  <2>4. Together("sift", "sieve")' /\ Untouched' /\ Unsieved'
    BY <1>1, <2>1, UntouchedRests, UnsievedRests DEF Sifting, Together
  <2>5. Sifting'
    <3> HIDE DEF D
    <3>1. waiting' = waiting /\ puts' = puts /\ i'[0] # 0
      BY <1>1, <2>2
    <3>2. \A k \in D' : small'[0][k] <=> k >= 1 /\ Marked(2 * k + 1, 2 * j)
      BY <1>1, <2>1, <2>2
    <3>3. \A x, b : Marked(x, b)' <=> Marked(x, b)
      BY DEF Marked
    <3> QED BY <1>1, <2>1, <2>2, <2>4, <3>1, <3>2, <3>3 DEF Sifting, D
  <2> QED BY <2>3, <2>5 DEF ParallelInv
<1>2. ASSUME Parallel!SiftBegin(s)
      PROVE  ParallelInv'
  <2>1. /\ s = 0 /\ 0 \notin waiting /\ i[0] = 0
        /\ small' = [small EXCEPT ![0][0] = FALSE] /\ i' = [i EXCEPT ![0] = 1]
        /\ UNCHANGED <<sieveVars, resultVars, pc, waiting, puts>>
    BY <1>2, ParallelParts DEF Parallel!SiftBegin, Computes, sieveVars, resultVars,
         Parallel!sieveVars, Parallel!resultVars
  <2> DEFINE newSmall == [small[0] EXCEPT ![0] = FALSE]
  <2>2. newSmall \in [D -> BOOLEAN] /\ small' = [small EXCEPT ![0] = newSmall]
    BY <1>t, <2>1
  <2>3. \A k \in D : newSmall[k] <=> k >= 1
    <3>1. \A k \in D : small[0][k] = TRUE
      BY <1>t, <2>1 DEF Sifting
    <3>2. \A k \in D : newSmall[k] = IF k = 0 THEN FALSE ELSE small[0][k]
      BY <1>t
    <3>3. \A k \in D : k # 0 <=> k >= 1
      BY <1>e
    <3> HIDE DEF newSmall, D
    <3> QED BY <3>1, <3>2, <3>3
  <2>4. \A x : Marked(x, 2 * 1)
    BY DEF Marked
  <2>5. 1 \in 1 .. SmallSize(n)
    BY <1>e
  <2> HIDE DEF newSmall
  <2> QED BY <1>1, <2>1, <2>2, <2>3, <2>4, <2>5
<1>3. ASSUME Parallel!Sift(s)
      PROVE  ParallelInv'
  <2> DEFINE j == i[0]
             newSmall == [k \in DOMAIN small[0] |->
               small[0][k] /\ ~ (small[0][j] /\ k >= 3 * j + 1 /\ (k - j) % (2 * j + 1) = 0)]
  <2>1. /\ s = 0 /\ 0 \notin waiting /\ j \in 1 .. Parallel!SmallEnd - 1
        /\ small' = [small EXCEPT ![0] = newSmall] /\ i' = [i EXCEPT ![0] = j + 1]
        /\ UNCHANGED <<sieveVars, resultVars, pc, waiting, puts>>
    BY <1>3, <1>t, ParallelParts DEF Parallel!Sift, Computes, sieveVars, resultVars,
         Parallel!sieveVars, Parallel!resultVars
  <2>2. DOMAIN small[0] = D /\ newSmall \in [D -> BOOLEAN]
    BY <1>t
  <2>3. j \in Nat /\ j >= 1 /\ j \in D /\ j + 1 \in 1 .. SmallSize(n) /\ 2 * (j + 1) = 2 * j + 2
    BY <2>1, <1>e
  <2>4. \A k \in D : small[0][k] <=> k >= 1 /\ Marked(2 * k + 1, 2 * j)
    BY <2>1, <2>3 DEF Sifting
  <2>5. small[0][j] <=> IsPrime(2 * j + 1)
    BY <2>3, <2>4, MarkedIsPrime
  <2>6. ASSUME NEW k \in D
        PROVE  newSmall[k] <=> k >= 1 /\ Marked(2 * k + 1, 2 * (j + 1))
    <3>1. newSmall[k] <=> small[0][k] /\ ~ (small[0][j] /\ k >= 3 * j + 1 /\ (k - j) % (2 * j + 1) = 0)
      BY <2>2
    <3>2. k \in Nat
      BY <1>e
    <3>3. k >= 1 => (Marked(2 * k + 1, 2 * j + 2) <=>
             /\ Marked(2 * k + 1, 2 * j)
             /\ ~ (IsPrime(2 * j + 1) /\ k >= 3 * j + 1 /\ (k - j) % (2 * j + 1) = 0))
      BY <3>2, <2>3, SmallRound
    <3> HIDE DEF newSmall, j
    <3> QED BY <3>1, <3>3, <2>3, <2>4, <2>5
  <2> HIDE DEF newSmall, j
  <2> QED BY <1>1, <2>1, <2>2, <2>3, <2>6
<1>4. ASSUME Parallel!PublishSmall(s)
      PROVE  ParallelInv'
  <2>1. /\ s = 0 /\ 0 \notin waiting /\ i[0] >= 1 /\ i[0] >= Parallel!SmallEnd
        /\ puts' = puts \cup {Put(t, "is_prime_small", k, small[0][k]) : t \in 1 .. P-1,
                                                                         k \in DOMAIN small[0]}
        /\ i' = [i EXCEPT ![0] = 0] /\ Enters(s, "sieve")
        /\ UNCHANGED <<sieveVars, resultVars, small>>
    BY <1>4, ParallelParts DEF Parallel!PublishSmall, Computes, sieveVars, resultVars,
         Parallel!sieveVars, Parallel!resultVars, Put, Parallel!Put
  <2>2. n' = n /\ P' = P /\ Procs' = Procs /\ D' = D /\ small' = small /\ 0 \in waiting'
    BY <2>1, Rests DEF sieveVars, SmallSize, CeilSqrt, Enters
  <2>3. Together("sift", "sieve")' /\ Untouched' /\ Unsieved'
    BY <2>1, <2>2, EnterTogether, UntouchedRests, UnsievedRests DEF Sifting
  <2>4. /\ i' \in [Procs -> 0 .. SmallSize(n)] /\ i'[0] = 0
        /\ \A r \in Procs \ {0} : i'[r] = i[r]
    BY <1>t, <1>e, <2>1
  <2>5. ParallelTyped'
    BY <1>t, <2>2, <2>4, TypedRests
  <2>6. Exact(0)
    <3>1. i[0] # 0 /\ i[0] \in Nat
      BY <2>1, <1>t, <1>e
    <3>2. \A k \in D : small[0][k] <=> k >= 1 /\ Marked(2 * k + 1, 2 * i[0])
      BY <2>1, <3>1 DEF Sifting
    <3>3. \A k \in D : k >= 1 /\ Marked(2 * k + 1, 2 * i[0]) <=> IsPrime(2 * k + 1)
      BY <1>t, <2>1, <3>1, SmallIsExact
    <3> QED BY <3>2, <3>3 DEF Exact
  <2>7. Exact(0)'
    BY <2>2, <2>6 DEF Exact, IsPrime, SmallSize, CeilSqrt
  <2>8. puts' = SmallPuts'
    <3>1. puts = {} /\ DOMAIN small[0] = D
      BY <2>1, <1>t DEF Sifting
    <3> QED BY <2>1, <2>2, <3>1 DEF SmallPuts, Put
  <2>9. Sifting'
    BY <2>2, <2>3, <2>4, <2>7, <2>8 DEF Sifting
  <2> QED BY <2>5, <2>9 DEF ParallelInv
<1>5. ASSUME Parallel!AwaitSmall(s)
      PROVE  ParallelInv'
  <2>1. s # 0 /\ Enters(s, "sieve") /\ UNCHANGED <<sieveVars, resultVars, puts, small, i>>
    BY <1>5, ParallelParts DEF Parallel!AwaitSmall, sieveVars, resultVars,
         Parallel!sieveVars, Parallel!resultVars
  <2>2. /\ n' = n /\ P' = P /\ Procs' = Procs /\ D' = D /\ small' = small /\ i' = i /\ puts' = puts
        /\ (0 \in waiting' <=> 0 \in waiting)
    BY <2>1, Rests DEF sieveVars, SmallSize, CeilSqrt, Enters
  <2>3. Together("sift", "sieve")' /\ Untouched' /\ Unsieved'
    BY <2>1, <2>2, EnterTogether, UntouchedRests, UnsievedRests DEF Sifting
  <2>4. ParallelTyped'
    BY <2>2, <1>t, TypedRests
  <2>5. (Exact(0)' <=> Exact(0)) /\ SmallPuts' = SmallPuts
    BY <2>2 DEF Exact, IsPrime, SmallPuts, Put
  <2>6. \A x, b : Marked(x, b)' <=> Marked(x, b)
    BY DEF Marked
  <2>7. Sifting'
    BY <2>2, <2>3, <2>5, <2>6 DEF Sifting
  <2> QED BY <2>4, <2>7 DEF ParallelInv
<1> QED BY <1>0, <1>2, <1>3, <1>4, <1>5

LEMMA SiftingEnds ==
  ASSUME ParallelTyped, Sifting, Parallel!Sync
  PROVE  ParallelInv'
<1> DEFINE D == 0 .. SmallSize(n) - 1
<1>t. /\ 0 \in Procs /\ P \in Nat \ {0} /\ SizesOK
      /\ small \in [Procs -> [D -> BOOLEAN]] /\ i \in [Procs -> 0 .. SmallSize(n)]
  BY DEF ParallelTyped, SizesOK, Procs
<1>1. SyncResults /\ i' = i
       /\ small' = [t \in Procs |-> Delivered(t, "is_prime_small", small[t])]
  BY ParallelNames, ParallelParts DEF Parallel!Sync
<1>2. /\ n' = n /\ P' = P /\ sieve' = sieve /\ waiting = Procs /\ waiting' = {} /\ pc' = pc
      /\ puts' = {} /\ Procs' = Procs /\ D' = D
  BY <1>1, Rests DEF SyncResults, SmallSize, CeilSqrt
<1>3. i[0] = 0 /\ Exact(0) /\ puts = SmallPuts /\ \A s \in Procs : i[s] = 0
  BY <1>t, <1>2 DEF Sifting
<1>4. ASSUME NEW t \in Procs
      PROVE  /\ Delivered(t, "is_prime_small", small[t]) \in [D -> BOOLEAN]
             /\ \A k \in D : Delivered(t, "is_prime_small", small[t])[k] = small[0][k]
  <2>1. DOMAIN small[t] = D
    BY <1>t
  <2>2. CASE t = 0
    <3>1. \A p \in puts : p.to # 0
      BY <1>3, PutFields DEF SmallPuts
    <3>2. small[0] = [k \in DOMAIN small[0] |-> small[0][k]]
      BY <1>t
    <3>3. Delivered(0, "is_prime_small", small[0]) = small[0]
      BY <3>1, <3>2, NothingDelivered
    <3> QED BY <3>3, <2>2, <1>t
  <2>3. CASE t # 0
    <3>1. ASSUME NEW k \in D
          PROVE  Delivered(t, "is_prime_small", small[t])[k] = small[0][k]
      <4> DEFINE here == {p \in puts : p.to = t /\ p.array = "is_prime_small" /\ p.at = k}
      <4>1. t \in 1 .. P-1
        BY <2>3, <1>t DEF Procs
      <4>2. here = {Put(t, "is_prime_small", k, small[0][k])}
        BY <4>1, <1>3, PutFields DEF SmallPuts
      <4>3. here # {} /\ (CHOOSE p \in here : TRUE).value = small[0][k]
        BY <4>2, PutFields
      <4> QED BY <2>1, <4>3 DEF Delivered
    <3>2. Delivered(t, "is_prime_small", small[t])
            = [k \in D |-> Delivered(t, "is_prime_small", small[t])[k]]
      BY <2>1 DEF Delivered
    <3>3. \A k \in D : small[0][k] \in BOOLEAN
      BY <1>t
    <3> HIDE DEF D
    <3> QED BY <3>1, <3>2, <3>3
  <2> QED BY <2>2, <2>3
<1>5. small' \in [Procs -> [D -> BOOLEAN]] /\ \A t \in Procs : \A k \in D : small'[t][k] = small[0][k]
  BY <1>1, <1>4
<1>6. ParallelTyped'
  BY <1>1, <1>2, <1>5, <1>t, TypedRests
<1>7. \A t \in Procs : Exact(t)'
  BY <1>2, <1>3, <1>5 DEF Exact, IsPrime, SmallSize, CeilSqrt
<1>8. Together("sieve", "allocate")'
  BY <1>2, SyncTogether DEF Sifting
<1>9. Untouched'
  <2>1. \A p \in puts : p.array # "num_primes_result" /\ p.array # "primes"
    BY <1>3, PutFields DEF SmallPuts
  <2> QED BY <2>1, <1>1, UntouchedBySync DEF Sifting
<1>10. (puts = CountPuts)'
  BY <1>2 DEF CountPuts
<1>11. sieve' = [s \in Procs |-> SievedBelow(s, 2 * i[s])]
  <2>1. \A s : SievedBelow(s, 2 * 0) = Block(s)
    BY DEF SievedBelow
  <2> QED BY <2>1, <1>2, <1>3 DEF Sifting, Unsieved
<1>12. Sieving'
  <2>1. (sieve = [s \in Procs |-> SievedBelow(s, 2 * i[s])])'
    BY <1>1, <1>2, <1>11, Rests
  <2> QED BY <1>2, <1>7, <1>8, <1>9, <1>10, <2>1 DEF Sieving
<1> QED BY <1>6, <1>12 DEF ParallelInv

(* When the loop is done the block holds the primes. *)
LEMMA SieveIsDone ==
  ASSUME SizesOK, NEW s \in Procs
  PROVE  SievedBelow(s, 2 * SmallSize(n)) = PrimesOf(s)
<1>1. /\ SmallSize(n) \in Nat \ {0} /\ CeilSqrt(n) \in Nat
      /\ CeilSqrt(n) = 2 * SmallSize(n) \/ CeilSqrt(n) = 2 * SmallSize(n) - 1
      /\ n \in Nat /\ n <= CeilSqrt(n) * CeilSqrt(n) /\ CeilSqrt(n) * CeilSqrt(n) \in Nat
  BY SmallEndIs, CeilSqrtIs DEF SizesOK
<1>2. ASSUME NEW q \in Nat, q % 2 = 1, q * q <= n
      PROVE  q < 2 * SmallSize(n)
  <2>1. q <= CeilSqrt(n)
    <3>1. q * q \in Nat /\ ~ (CeilSqrt(n) * CeilSqrt(n) < q * q)
      BY <1>1, <1>2
    <3>2. ~ (CeilSqrt(n) < q)
      BY <1>1, <3>1, SquaresGrow
    <3> QED BY <3>2, <1>1
  <2> QED BY <1>1, <1>2, <2>1
<1> DEFINE b == 2 * SmallSize(n)
<1>3. b \in Nat
  BY <1>1
<1> HIDE DEF b
<1>4. SievedBelow(s, b) = PrimesOf(s)
  BY <1>2, <1>3, SievedIsPrime DEF b
<1> QED BY <1>4 DEF b

LEMMA SievingStep ==
  ASSUME ParallelTyped, Sieving, NEW s \in Procs, Parallel!Step(s)
  PROVE  ParallelInv'
<1> DEFINE D == 0 .. SmallSize(n) - 1
<1>t. /\ 0 \in Procs /\ P \in Nat \ {0} /\ SizesOK /\ SmallSize(n) \in Nat \ {0}
      /\ small \in [Procs -> [D -> BOOLEAN]] /\ i \in [Procs -> 0 .. SmallSize(n)]
  BY SmallEndIs DEF ParallelTyped, SizesOK, Procs
<1>0. Parallel!Sieve(s) \/ Parallel!Count(s)
  BY ParallelStepInPart DEF Sieving
<1>1. ASSUME Parallel!Sieve(s)
      PROVE  ParallelInv'
  <2> DEFINE j == i[s]
  <2>1. /\ s \notin waiting /\ j < SmallSize(n)
        /\ sieve' = [sieve EXCEPT ![s] = IF small[s][j] THEN @ \ CrossedOff(s, 2 * j + 1) ELSE @]
        /\ i' = [i EXCEPT ![s] = j + 1]
        /\ UNCHANGED <<n, P, resultVars, pc, waiting, puts, small>>
    BY <1>1, ParallelNames, ParallelParts DEF Parallel!Sieve, Computes, resultVars, Parallel!resultVars
  <2>2. n' = n /\ P' = P /\ Procs' = Procs /\ D' = D
    BY <2>1, Rests DEF SmallSize, CeilSqrt
  <2>3. /\ j \in D /\ j \in Nat /\ j + 1 \in 0 .. SmallSize(n) /\ 2 * (j + 1) = 2 * j + 2
        /\ i' \in [Procs -> 0 .. SmallSize(n)] /\ i'[s] = j + 1
        /\ \A r \in Procs \ {s} : i'[r] = i[r]
    BY <1>t, <2>1
  <2>4. ParallelTyped'
    BY <1>t, <2>1, <2>2, <2>3, TypedRests
  <2>5. small[s][j] <=> IsPrime(2 * j + 1)
    BY <2>3 DEF Sieving, Exact
  <2>6. sieve'[s] = SievedBelow(s, 2 * (j + 1))
    <3>1. \A q \in 3 .. 2 * j + 2 : ~ IsPrime(q) \/ q % 2 = 1
      BY PrimesAreOdd
    <3>2. sieve[s] = SievedBelow(s, 2 * j)
      BY DEF Sieving
    <3> HIDE DEF j
    <3>3. CASE IsPrime(2 * j + 1)
      <4>1. sieve'[s] = SievedBelow(s, 2 * j) \ CrossedOff(s, 2 * j + 1)
        BY <2>1, <2>5, <3>2, <3>3 DEF Sieving
      <4>2. j # 0
        BY <3>3 DEF IsPrime
      <4>3. SievedBelow(s, 2 * j + 1) = SievedBelow(s, 2 * j)
        <5>1. \A q \in 3 .. (2 * j + 1) - 1 : q >= 2 * j => ~ IsPrime(q)
          BY <3>1, <2>3
        <5> QED BY <5>1, <2>3, SkipComposites
      <4>4. 2 * j + 1 \in Nat /\ 2 * j + 1 >= 3 /\ (2 * j + 1) % 2 = 1 /\ (2 * j + 1) + 1 = 2 * j + 2
        BY <4>2, <2>3
      <4>5. SievedBelow(s, 2 * j + 1) \ CrossedOff(s, 2 * j + 1) = SievedBelow(s, (2 * j + 1) + 1)
        BY <1>t, <4>4, SieveOne
      <4> QED BY <4>1, <4>3, <4>4, <4>5, <2>3
    <3>4. CASE ~ IsPrime(2 * j + 1)
      <4>1. sieve'[s] = SievedBelow(s, 2 * j)
        BY <2>1, <2>5, <3>2, <3>4 DEF Sieving
      <4>2. \A q \in 3 .. (2 * j + 2) - 1 : q >= 2 * j => ~ IsPrime(q)
        BY <3>1, <3>4, <2>3
      <4>3. SievedBelow(s, 2 * j + 2) = SievedBelow(s, 2 * j)
        BY <4>2, <2>3, SkipComposites
      <4> QED BY <4>1, <4>3, <2>3
    <3> QED BY <3>3, <3>4
  <2>7. (sieve = [r \in Procs |-> SievedBelow(r, 2 * i[r])])'
    <3>1. \A r \in Procs : sieve'[r] = SievedBelow(r, 2 * i'[r])
      BY <2>1, <2>3, <2>6 DEF Sieving
    <3>2. sieve' = [r \in Procs |-> sieve'[r]]
      BY <2>1 DEF Sieving
    <3> QED BY <3>1, <3>2, <2>2, Rests
  <2>8. Together("sieve", "allocate")' /\ Untouched' /\ CountPuts' = CountPuts
    BY <2>1, <2>2, UntouchedRests, Rests DEF Sieving, Together, CountPuts, CountPutsOf, Put
  <2>9. \A t \in Procs : Exact(t)'
    BY <2>1, <2>2 DEF Sieving, Exact, IsPrime
  <2>10. \A r \in waiting' : i'[r] = SmallSize(n)'
    <3>1. waiting \subseteq Procs
      BY DEF Sieving, Together
    <3> QED BY <3>1, <2>1, <2>2, <2>3 DEF Sieving, SmallSize, CeilSqrt
  <2>11. Sieving'
    BY <2>1, <2>2, <2>7, <2>8, <2>9, <2>10 DEF Sieving
  <2> QED BY <2>4, <2>11 DEF ParallelInv
<1>2. ASSUME Parallel!Count(s)
      PROVE  ParallelInv'
  <2>1. /\ i[s] = SmallSize(n) /\ PublishCount(s) /\ Enters(s, "allocate")
        /\ UNCHANGED <<sieveVars, resultVars, small, i>>
    BY <1>2, ParallelNames, ParallelParts DEF Parallel!Count, sieveVars, resultVars,
         Parallel!sieveVars, Parallel!resultVars
  <2>2. n' = n /\ P' = P /\ Procs' = Procs /\ D' = D /\ sieve' = sieve /\ small' = small /\ i' = i
    BY <2>1, Rests DEF sieveVars, SmallSize, CeilSqrt
  <2>3. Together("sieve", "allocate")' /\ Untouched' /\ waiting' = waiting \cup {s}
    BY <2>1, <2>2, EnterTogether, UntouchedRests DEF Sieving, Enters
  <2>4. sieve[s] = PrimesOf(s)
    BY <2>1, SieveIsDone DEF Sieving, ParallelTyped
  <2>5. (puts = CountPuts)'
    BY <2>1, <2>2, <2>3, <2>4, CountStep DEF Sieving
  <2>6. \A t \in Procs : Exact(t)'
    BY <2>2 DEF Sieving, Exact, IsPrime
  <2>7. Sieving'
    BY <2>1, <2>2, <2>3, <2>5, <2>6, Rests DEF Sieving, SmallSize, CeilSqrt
  <2>8. ParallelTyped'
    BY <1>t, <2>2, TypedRests
  <2> QED BY <2>7, <2>8 DEF ParallelInv
<1> QED BY <1>0, <1>1, <1>2

LEMMA SievingEnds ==
  ASSUME ParallelTyped, Sieving, Parallel!Sync
  PROVE  ParallelInv'
<1>1. \A p \in puts : p.array # "is_prime_small"
  BY PutFields DEF Sieving, CountPuts, CountPutsOf
<1>2. small' = small /\ i' = i /\ SyncResults
  BY <1>1, SmallRests
<1>3. n' = n /\ P' = P /\ waiting = Procs
  BY <1>2 DEF SyncResults
<1>4. Sieved
  BY <1>3, SieveIsDone DEF Sieving, Sieved, ParallelTyped
<1>5. Allocating'
  BY <1>2, <1>4, CountingEnds DEF Sieving
<1>6. ParallelTyped'
  BY <1>2, <1>3, TypedRests DEF ParallelTyped
<1> QED BY <1>5, <1>6 DEF ParallelInv

(* The last supersteps. *)
LEMMA AllocatingNext ==
  ASSUME ParallelTyped, Allocating, Parallel!Sync \/ \E s \in Procs : Parallel!Step(s)
  PROVE  ParallelInv'
<1>1. ASSUME NEW s \in Procs, Parallel!Step(s)
      PROVE  ParallelInv'
  <2>1. Parallel!Allocate(s)
    BY <1>1, ParallelStepInPart DEF Allocating
  <2>2. AllocatePrimes(s) /\ Enters(s, "collect")
        /\ UNCHANGED <<n, P, sieve, num_primes_result, puts, small, i>>
    BY <2>1, ParallelParts DEF Parallel!Allocate, Parallel!sieveVars
  <2>3. Allocating'
    BY <2>2, AllocatingStep DEF ParallelTyped
  <2>4. ParallelTyped'
    BY <2>2, TypedRests DEF ParallelTyped
  <2> QED BY <2>3, <2>4 DEF ParallelInv
<1>2. ASSUME Parallel!Sync
      PROVE  ParallelInv'
  <2>1. SyncResults /\ small' = small /\ i' = i
    BY <1>2, SmallRests DEF Allocating
  <2>2. Collecting("end")'
    BY <2>1, AllocatingEnds DEF ParallelTyped
  <2>3. ParallelTyped'
    BY <2>1, TypedRests DEF ParallelTyped, SyncResults
  <2> QED BY <2>2, <2>3 DEF ParallelInv
<1> QED BY <1>1, <1>2

LEMMA CollectingNext ==
  ASSUME ParallelTyped, Collecting("end"), Parallel!Sync \/ \E s \in Procs : Parallel!Step(s)
  PROVE  ParallelInv'
<1>1. ASSUME NEW s \in Procs, Parallel!Step(s)
      PROVE  ParallelInv'
  <2>1. Parallel!Collect(s)
    BY <1>1, ParallelStepInPart DEF Collecting
  <2>2. PutPrimes(s) /\ Enters(s, "end")
        /\ UNCHANGED <<n, P, sieve, num_primes_result, primes, small, i>>
    BY <2>1, ParallelParts DEF Parallel!Collect, Parallel!sieveVars, Parallel!resultVars
  <2>3. Collecting("end")'
    BY <2>2, CollectingStep DEF ParallelTyped
  <2>4. ParallelTyped'
    BY <2>2, TypedRests DEF ParallelTyped
  <2> QED BY <2>3, <2>4 DEF ParallelInv
<1>2. ASSUME Parallel!Sync
      PROVE  ParallelInv'
  <2>1. \A p \in puts : p.array # "is_prime_small"
    BY PutFields DEF Collecting, PrimePuts, PrimePutsOf
  <2>2. SyncResults /\ small' = small /\ i' = i
    BY <1>2, <2>1, SmallRests
  <2>3. Collected' /\ pc' = [s \in Procs |-> "end"]
    BY <2>2, CollectingEnds DEF ParallelTyped
  <2>4. Procs' = Procs
    BY <2>2, Rests DEF SyncResults
  <2>5. ParallelEnded'
    BY <2>3, <2>4 DEF ParallelEnded
  <2>6. ParallelTyped'
    BY <2>2, TypedRests DEF ParallelTyped, SyncResults
  <2> QED BY <2>5, <2>6 DEF ParallelInv
<1> QED BY <1>1, <1>2

LEMMA EndedNext ==
  ASSUME ParallelTyped, ParallelEnded, Parallel!Sync \/ \E s \in Procs : Parallel!Step(s)
  PROVE  ParallelInv'
<1>t. 0 \in Procs /\ waiting = {} /\ pc \in [Procs -> {"end", "final"}]
  BY DEF ParallelTyped, SizesOK, Procs, ParallelEnded, Collected
<1>1. ~ Parallel!Sync
  BY <1>t, ParallelParts DEF Parallel!Sync, SyncResults
<1>2. PICK s \in Procs : Parallel!Step(s)
  BY <1>1
<1>3. Parallel!End(s)
  <2>1. pc[s] \in {"end", "final"}
    BY <1>t
  <2>2. \A part : Parallel!Computes(s, part) => part \in {"end", "final"}
    BY <2>1, ParallelParts DEF Computes
  <2> QED
    BY <1>2, <2>2 DEF Parallel!Step, Parallel!Register, Parallel!SiftBegin, Parallel!Sift,
       Parallel!PublishSmall, Parallel!AwaitSmall, Parallel!Sieve, Parallel!Count,
       Parallel!Allocate, Parallel!Collect
<1>4. /\ pc' = [pc EXCEPT ![s] = "final"]
      /\ UNCHANGED <<n, P, sieve, num_primes_result, primes, waiting, puts, small, i>>
  BY <1>3 DEF Parallel!End, Parallel!sieveVars, Parallel!resultVars
<1>5. Collected' /\ Procs' = Procs
  BY <1>4, CollectedRests, Rests DEF ParallelEnded
<1>6. ParallelEnded'
  BY <1>4, <1>5, <1>t DEF ParallelEnded
<1>7. ParallelTyped'
  BY <1>4, TypedRests DEF ParallelTyped
<1> QED BY <1>6, <1>7 DEF ParallelInv

LEMMA ParallelNext ==
  ASSUME ParallelInv, [Parallel!Next]_(Parallel!vars)
  PROVE  ParallelInv'
<1>1. ASSUME Parallel!Sync \/ \E s \in Procs : Parallel!Step(s)
      PROVE  ParallelInv'
  <2>1. CASE Registering
    BY <1>1, <2>1, RegisteringNext DEF ParallelInv
  <2>2. CASE Sifting
    BY <1>1, <2>2, SiftingStep, SiftingEnds DEF ParallelInv
  <2>3. CASE Sieving
    BY <1>1, <2>3, SievingStep, SievingEnds DEF ParallelInv
  <2>4. CASE Allocating
    BY <1>1, <2>4, AllocatingNext DEF ParallelInv
  <2>5. CASE Collecting("end")
    BY <1>1, <2>5, CollectingNext DEF ParallelInv
  <2>6. CASE ParallelEnded
    BY <1>1, <2>6, EndedNext DEF ParallelInv
  <2> QED BY <2>1, <2>2, <2>3, <2>4, <2>5, <2>6 DEF ParallelInv
<1>2. ASSUME UNCHANGED Parallel!vars
      PROVE  ParallelInv'
  <2>1. UNCHANGED <<n, P, pc, waiting, sieve, num_primes_result, primes, puts, small, i>>
    BY <1>2 DEF Parallel!vars
  <2>2. ParallelTyped'
    BY <2>1, TypedRests DEF ParallelInv, ParallelTyped
  <2>3. /\ Procs' = Procs /\ Blank' = Blank /\ SmallSize(n)' = SmallSize(n)
        /\ CountPuts' = CountPuts /\ PrimePuts' = PrimePuts /\ SmallPuts' = SmallPuts
        /\ \A t : Exact(t)' <=> Exact(t)
        /\ \A x, b : Marked(x, b)' <=> Marked(x, b)
    BY <2>1, Rests DEF Blank, SmallSize, CeilSqrt, CountPuts, CountPutsOf, PrimePuts, PrimePutsOf,
         SmallPuts, Put, NumberAt, Exact, IsPrime, Marked
  <2>4. \A now, then : Together(now, then)' <=> Together(now, then)
    BY <2>1, <2>3 DEF Together
  <2>5. /\ Untouched => Untouched'
        /\ Unsieved => Unsieved'
        /\ Sieved => Sieved'
        /\ Counted => Counted'
        /\ Collected => Collected'
    BY <2>1, UntouchedRests, UnsievedRests, SievedRests, CountedRests, CollectedRests
       DEF sieveVars, resultVars
  <2>6. Allocated => Allocated'
    BY <2>1, <2>3 DEF Allocated
  <2>7. Registering => Registering'
    BY <2>1, <2>3, <2>4, <2>5 DEF Registering
  <2>8. Sifting => Sifting'
    BY <2>1, <2>3, <2>4, <2>5 DEF Sifting
  <2>9. Sieving => Sieving'
    BY <2>1, <2>3, <2>4, <2>5, Rests DEF Sieving
  <2>10. Allocating => Allocating'
    BY <2>1, <2>3, <2>4, <2>5, <2>6 DEF Allocating
  <2>11. Collecting("end") => Collecting("end")'
    BY <2>1, <2>3, <2>4, <2>5 DEF Collecting
  <2>12. ParallelEnded => ParallelEnded'
    BY <2>1, <2>3, <2>5 DEF ParallelEnded
  <2> QED BY <2>2, <2>7, <2>8, <2>9, <2>10, <2>11, <2>12 DEF ParallelInv
<1>3. Parallel!Next => Parallel!Sync \/ (\E s \in Procs : Parallel!Step(s)) \/ UNCHANGED Parallel!vars
  BY ParallelNames DEF Parallel!Next, Parallel!Finished
<1> QED BY <1>1, <1>2, <1>3

LEMMA ParallelAlways == Parallel!Spec => []ParallelInv
<1>1. Parallel!Init => ParallelInv
  BY ParallelInitInv
<1>2. ParallelInv /\ [Parallel!Next]_(Parallel!vars) => ParallelInv'
  BY ParallelNext
<1> QED BY <1>1, <1>2, PTL DEF Parallel!Spec

(* In no superstep do two puts write the same element, and none writes
   outside the array of process 0, however many primes there are: so the
   result does not depend on the order of the puts. *)
THEOREM ParallelPutsAreSafe == Parallel!Spec => []PutsAreSafe
<1>1. ASSUME ParallelInv
      PROVE  PutsAreSafe
  <2>1. puts = {} => PutsAreSafe
    BY DEF PutsAreSafe
  <2>2. puts = SmallPuts => PutsAreSafe
    BY PutFields DEF SmallPuts, PutsAreSafe
  <2>3. puts = CountPuts => PutsAreSafe
    BY CountPutsAreSafe
  <2>4. Collecting("end") => PutsAreSafe
    BY <1>1, PrimePutsAreSafe DEF Collecting, Together, ParallelInv, ParallelTyped
  <2> QED
    BY <1>1, <2>1, <2>2, <2>3, <2>4 DEF ParallelInv, Registering, Sifting, Sieving, Allocating,
         ParallelEnded, Collected
<1> QED BY <1>1, ParallelAlways, PTL

(* For every limit and every number of processes the parallel sieve ends
   with all primes up to the limit in the array of process 0, in ascending
   order. *)
THEOREM ParallelDeliversAllPrimes == Parallel!Spec => []DeliversAllPrimes
<1>1. ASSUME ParallelInv, pc[0] \in {"end", "return"}, waiting = {}
      PROVE  ParallelEnded
  <2>1. 0 \in Procs
    BY <1>1 DEF ParallelInv, ParallelTyped, SizesOK, Procs
  <2>2. \A now, then : Together(now, then) => pc[0] = now
    BY <1>1, <2>1 DEF Together
  <2>3. /\ Registering => pc[0] = "register"
        /\ Sifting => pc[0] = "sift"
        /\ Sieving => pc[0] = "sieve"
        /\ Allocating => pc[0] = "allocate"
        /\ Collecting("end") => pc[0] = "collect"
    BY <2>2 DEF Registering, Sifting, Sieving, Allocating, Collecting
  <2> QED BY <1>1, <2>3 DEF ParallelInv
<1>2. ASSUME ParallelInv
      PROVE  DeliversAllPrimes
  <2> SUFFICES ASSUME pc[0] \in {"end", "return"}, waiting = {}
               PROVE  /\ {primes[0][k] : k \in DOMAIN primes[0]} = PrimesUpTo(n)
                      /\ \A j, k \in DOMAIN primes[0] : j < k => primes[0][j] < primes[0][k]
    BY DEF DeliversAllPrimes
  <2>1. IsResult(primes[0]) /\ SizesOK
    BY <1>1, <1>2 DEF ParallelEnded, Collected, ParallelInv, ParallelTyped
  <2> DEFINE list == primes[0]
  <2> HIDE DEF list
  <2>2. /\ {list[k] : k \in DOMAIN list} = PrimesUpTo(n)
        /\ \A j, k \in DOMAIN list : j < k => list[j] < list[k]
    BY <2>1, ResultIsPrimes DEF list
  <2> QED BY <2>2 DEF list
<1> QED BY <1>2, ParallelAlways, PTL

(* What the sieving loops maintain: the small sieve every process gets
   holds exactly the primes up to the root of the limit, and each round
   crosses off exactly the proper multiples of one of them. *)
THEOREM ParallelSieves == Parallel!Spec => []Parallel!SieveInv
<1>1. ASSUME ParallelInv
      PROVE  Parallel!SieveInv
  <2>t. 0 \in Procs /\ SizesOK /\ P \in Nat \ {0} /\ n \in Limits
    BY <1>1 DEF ParallelInv, ParallelTyped, SizesOK, Procs
  <2>1. ListsTyped
    BY <1>1, <2>t, ListTypes DEF ParallelInv, Registering, Sifting, Sieving, Allocating, Collecting,
         ParallelEnded
  <2>2. waiting \subseteq Procs
    BY <1>1 DEF ParallelInv, Registering, Sifting, Sieving, Allocating, Collecting,
         ParallelEnded, Collected, Together
  <2>3. sieve \in [Procs -> SUBSET (0 .. OddsUpTo(n) - 1)]
    <3>1. \A s \in Procs : Block(s) \subseteq 0 .. OddsUpTo(n) - 1
      BY <2>t, BlocksAre
    <3>2. \A s : PrimesOf(s) \subseteq Block(s) /\ \A b : SievedBelow(s, b) \subseteq Block(s)
      BY DEF PrimesOf, SievedBelow
    <3>3. \/ sieve = [s \in Procs |-> Block(s)]
          \/ sieve = [s \in Procs |-> SievedBelow(s, 2 * i[s])]
          \/ sieve = [s \in Procs |-> PrimesOf(s)]
      BY <1>1 DEF ParallelInv, Registering, Sifting, Sieving, Allocating, Collecting,
           ParallelEnded, Collected, Unsieved, Sieved
    <3> QED BY <3>1, <3>2, <3>3
  <2>4. pc \in [Procs -> Parallel!Parts]
    <3>1. \A now, then : Together(now, then) /\ {now, then} \subseteq Parallel!Parts
                           => pc \in [Procs -> Parallel!Parts]
      BY DEF Together
    <3> QED
      BY <1>1, <3>1 DEF ParallelInv, Registering, Sifting, Sieving, Allocating, Collecting,
           ParallelEnded, Parallel!Parts
  <2>5. Parallel!TypeOK
    BY <1>1, <2>t, <2>1, <2>2, <2>3, <2>4, ParallelNames DEF Parallel!TypeOK, Parallel!SieveTypeOK,
         ParallelInv, ParallelTyped, ListsTyped
  <2>6. ASSUME NEW s \in Procs, pc[s] = "sieve", s \notin waiting
        PROVE  Sieving
    <3>1. \A now, then : Together(now, then) => now = "sieve"
      BY <2>6 DEF Together
    <3> QED
      BY <1>1, <2>6, <3>1 DEF ParallelInv, Registering, Sifting, Allocating, Collecting, ParallelEnded
  <2>7. Parallel!SmallSieveIsExact
    <3> SUFFICES ASSUME NEW s \in Procs, pc[s] = "sieve", s \notin waiting
                 PROVE  \A k \in DOMAIN small[s] : small[s][k] <=> IsPrime(2 * k + 1)
      BY ParallelNames DEF Parallel!SmallSieveIsExact
    <3>1. DOMAIN small[s] = 0 .. SmallSize(n) - 1
      BY <1>1 DEF ParallelInv, ParallelTyped
    <3> QED BY <2>6, <3>1 DEF Sieving, Exact
  <2>8. Parallel!BlockIsSievedSoFar
    <3> SUFFICES ASSUME NEW s \in Procs, pc[s] = "sieve", s \notin waiting
                 PROVE  sieve[s] = {k \in Block(s) :
                          \A q \in 2 .. 2 * i[s] - 1 :
                            IsPrime(q) /\ q % 2 = 1 => NumberAt(k) = q \/ NumberAt(k) % q # 0}
      BY ParallelNames DEF Parallel!BlockIsSievedSoFar
    <3>1. sieve[s] = SievedBelow(s, 2 * i[s])
      BY <2>6 DEF Sieving
    <3>2. i[s] \in Nat
      BY <1>1, <2>t, SmallEndIs DEF ParallelInv, ParallelTyped
    <3>3. \A q \in 2 .. 2 * i[s] - 1 : IsPrime(q) /\ q % 2 = 1 => q \in 3 .. 2 * i[s] - 1
      BY <3>2
    <3>4. \A q \in 3 .. 2 * i[s] - 1 : IsPrime(q) => q \in 2 .. 2 * i[s] - 1 /\ q % 2 = 1
      BY <3>2, PrimesAreOdd
    <3> QED BY <3>1, <3>3, <3>4 DEF SievedBelow
  <2> QED BY <2>5, <2>7, <2>8 DEF Parallel!SieveInv
<1> QED BY <1>1, ParallelAlways, PTL
----
(* The iterative sieve. *)
LEMMA IterativeNames ==
  /\ Iterative!Procs = Procs
  /\ \A m : /\ Iterative!OddsUpTo(m) = OddsUpTo(m) /\ Iterative!CeilSqrt(m) = CeilSqrt(m)
            /\ Iterative!FloorSqrt(m) = FloorSqrt(m)
            /\ Iterative!NumberAt(m) = NumberAt(m) /\ Iterative!SmallSize(m) = SmallSize(m)
            /\ Iterative!IsPrime(m) <=> IsPrime(m)
  /\ \A m, p : Iterative!UsableProcs(m, p) = UsableProcs(m, p)
  /\ \A s : /\ Iterative!Left(s) = Left(s) /\ Iterative!Right(s) = Right(s)
            /\ Iterative!Block(s) = Block(s)
  /\ \A l, r, p : Iterative!GetStart(l, r, p) = GetStart(l, r, p)
  /\ \A s, p : Iterative!CrossedOff(s, p) = CrossedOff(s, p)
  /\ \A t, a, k, v : Iterative!Put(t, a, k, v) = Put(t, a, k, v)
  /\ \A t, name, old : Iterative!Delivered(t, name, old) = Delivered(t, name, old)
<1>1. Iterative!Procs = Procs
  BY DEF Procs, Iterative!Procs
<1>2. \A m : /\ Iterative!OddsUpTo(m) = OddsUpTo(m) /\ Iterative!CeilSqrt(m) = CeilSqrt(m)
             /\ Iterative!FloorSqrt(m) = FloorSqrt(m)
            /\ Iterative!NumberAt(m) = NumberAt(m) 
  BY DEF OddsUpTo, Iterative!OddsUpTo, CeilSqrt, Iterative!CeilSqrt, FloorSqrt, Iterative!FloorSqrt, NumberAt, Iterative!NumberAt
<1>3. \A m :  Iterative!SmallSize(m) = SmallSize(m)
  BY <1>2 DEF SmallSize, Iterative!SmallSize
<1>4. \A m : Iterative!IsPrime(m) <=> IsPrime(m)
  BY DEF IsPrime, Iterative!IsPrime
<1>5. \A s : /\ Iterative!Left(s) = Left(s) /\ Iterative!Right(s) = Right(s)
  BY <1>2 DEF Left, Right, Iterative!Left, Iterative!Right
<1>6. \A s : Iterative!Block(s) = Block(s)
  BY <1>5 DEF Block, Iterative!Block
<1>7. \A l, r, p : Iterative!GetStart(l, r, p) = GetStart(l, r, p)
  BY DEF GetStart, Iterative!GetStart
<1>8. \A s, p : Iterative!CrossedOff(s, p) = CrossedOff(s, p)
  BY <1>2, <1>5, <1>6, <1>7 DEF CrossedOff, Iterative!CrossedOff
<1>9. \A t, a, k, v : Iterative!Put(t, a, k, v) = Put(t, a, k, v)
  BY DEF Put, Iterative!Put
<1>10. \A t, name, old : Iterative!Delivered(t, name, old) = Delivered(t, name, old)
  BY DEF Delivered, Iterative!Delivered
<1>11. \A m, p : Iterative!UsableProcs(m, p) = UsableProcs(m, p)
  BY <1>2 DEF UsableProcs, Iterative!UsableProcs
<1> QED BY <1>1, <1>2, <1>3, <1>4, <1>5, <1>6, <1>7, <1>8, <1>9, <1>10, <1>11

LEMMA IterativeParts ==
  /\ \A s, now : Iterative!Computes(s, now) <=> Computes(s, now)
  /\ \A s, then : Iterative!Enters(s, then) <=> Enters(s, then)
  /\ Iterative!SyncResults <=> SyncResults
  /\ Iterative!InitSieve <=> InitSieve
  /\ \A s : /\ Iterative!PublishCount(s) <=> PublishCount(s)
            /\ Iterative!AllocatePrimes(s) <=> AllocatePrimes(s)
            /\ Iterative!PutPrimes(s) <=> PutPrimes(s)
  /\ Iterative!sieveVars = sieveVars /\ Iterative!resultVars = resultVars
<1>1. \A s, now : Iterative!Computes(s, now) <=> Computes(s, now)
  BY DEF Computes, Iterative!Computes
<1>2. \A s, then : Iterative!Enters(s, then) <=> Enters(s, then)
  BY DEF Enters, Iterative!Enters
<1>3. Iterative!SyncResults <=> SyncResults
  BY IterativeNames DEF SyncResults, Iterative!SyncResults
<1>0. \A S : Iterative!Cardinality(S) = Cardinality(S)
  BY DEF Cardinality, Iterative!Cardinality
<1>4. \A s : Iterative!PublishCount(s) <=> PublishCount(s)
  BY <1>0, IterativeNames DEF PublishCount, Iterative!PublishCount, Put, Iterative!Put
<1>5. \A s : Iterative!AllocatePrimes(s) <=> AllocatePrimes(s)
  <2>1. \A s : Iterative!TotalPrimes(s) = TotalPrimes(s)
    BY IterativeNames DEF TotalPrimes, Iterative!TotalPrimes, MapThenSumSet, MapThenFoldSet,
         Iterative!MapThenSumSet, Iterative!MapThenFoldSet
  <2> QED BY <2>1 DEF AllocatePrimes, Iterative!AllocatePrimes
<1>6. \A s : Iterative!PutPrimes(s) <=> PutPrimes(s)
  <2>1. \A s : Iterative!Offset(s) = Offset(s)
    BY DEF Offset, Iterative!Offset, MapThenSumSet, MapThenFoldSet,
         Iterative!MapThenSumSet, Iterative!MapThenFoldSet
  <2> QED
    BY <1>0, <2>1 DEF PutPrimes, Iterative!PutPrimes, Put, Iterative!Put, NumberAt, Iterative!NumberAt
<1>7. Iterative!InitSieve <=> InitSieve
  BY IterativeNames DEF InitSieve, Iterative!InitSieve
<1> QED
  BY <1>1, <1>2, <1>3, <1>4, <1>5, <1>6, <1>7 DEF sieveVars, resultVars, Iterative!sieveVars, Iterative!resultVars

(* The block of process 0 covers all numbers up to the root of the limit. *)
Wide == P = 1 \/ P * FloorSqrt(n) <= OddsUpTo(n)

LEMMA RootsAre ==
  ASSUME SizesOK
  PROVE  /\ n \in Nat \ {0, 1} /\ P \in Nat \ {0} /\ 0 \in Procs
         /\ CeilSqrt(n) \in Nat /\ CeilSqrt(n) >= 2 /\ SmallSize(n) \in Nat \ {0}
         /\ CeilSqrt(n) = 2 * SmallSize(n) \/ CeilSqrt(n) = 2 * SmallSize(n) - 1
BY SmallEndIs DEF SizesOK, Procs

LEMMA SearchInBlock ==
  ASSUME SizesOK, Wide, NEW j \in Nat, j <= SmallSize(n) - 2
  PROVE  j \in Block(0)
<1> DEFINE C == CeilSqrt(n)
           F == FloorSqrt(n)
           O == OddsUpTo(n)
           S == SmallSize(n)
<1>t. /\ n \in Nat \ {0, 1} /\ P \in Nat \ {0}
      /\ C \in Nat /\ C >= 2 /\ S \in Nat \ {0} /\ (C = 2 * S \/ C = 2 * S - 1)
  BY RootsAre
<1>1. /\ C <= n /\ (C - 1) * (C - 1) < n
      /\ F \in Nat \ {0} /\ n < (F + 1) * (F + 1)
      /\ O \in Nat /\ (n = 2 * O + 1 \/ n = 2 * O + 2)
  BY <1>t, CeilSqrtIs, FloorSqrtIs, OddsAre
<1> HIDE DEF C, F, O, S
<1>2. C <= F + 1
  <2>1. C - 1 \in Nat /\ F + 1 \in Nat /\ (C - 1) * (C - 1) \in Nat /\ (F + 1) * (F + 1) \in Nat
    BY <1>t, <1>1
  <2>2. (C - 1) * (C - 1) < (F + 1) * (F + 1)
    BY <2>1, <1>t, <1>1
  <2>3. C - 1 < F + 1
    BY <2>1, <2>2, SquaresGrow
  <2> QED BY <2>3, <1>t, <1>1
<1>3. Right(0) = O \div P
  <2>1. 1 * O = O /\ 0 + 1 = 1
    BY <1>1
  <2> QED BY <2>1 DEF Right, O
<1>4. S - 1 <= O \div P
  <2>1. CASE P = 1
    BY <2>1, <1>t, <1>1
  <2>2. CASE P # 1
    <3>1. P * F <= O /\ P * F \in Nat
      BY <2>2, <1>t, <1>1 DEF Wide, F, O
    <3>2. (P * F + 0) \div P = F
      BY <1>t, <1>1, DivModIs
    <3>3. (P * F) \div P <= O \div P
      BY <3>1, <1>t, <1>1, DivGrows
    <3>4. P * F + 0 = P * F
      BY <3>1
    <3>5. F <= O \div P
      BY <3>2, <3>3, <3>4
    <3>6. O \div P \in Nat
      BY <1>t, <1>1, DivMod
    <3> QED BY <3>5, <3>6, <1>2, <1>t, <1>1
  <2> QED BY <2>1, <2>2
<1>5. O \div P \in Nat /\ Left(0) = 0
  <2>1. O \div P \in Nat
    BY <1>t, <1>1, DivMod
  <2> QED BY <2>1, BlocksAre
<1> QED BY <1>3, <1>4, <1>5, <1>t DEF Block, S

(* The search skips no prime. *)
LEMMA NextPrimeIs ==
  ASSUME SizesOK, Wide, NEW x \in Nat, 2 * x < CeilSqrt(n),
         NEW y, y = Iterative!NextPrimeIndex(x, SievedBelow(0, 2 * x + 4))
  PROVE  /\ y \in x + 1 .. SmallSize(n)
         /\ \A q \in 3 .. 2 * y + 2 : q >= 2 * x + 4 => ~ IsPrime(q)
<1> DEFINE S == SmallSize(n)
           M == SievedBelow(0, 2 * x + 4)
           stops == {j \in x + 1 .. S - 1 : j \in M \/ j = S - 1}
<1>t. S \in Nat \ {0} /\ x <= S - 1 /\ 0 \in Procs
  BY RootsAre
<1>1. y = IF stops = {} THEN x + 1 ELSE Iterative!Min(stops)
  BY IterativeNames DEF Iterative!NextPrimeIndex
<1>2. y \in x + 1 .. S /\ \A j \in x + 1 .. y - 1 : j <= S - 2 /\ j \notin M
  <2>1. CASE stops = {}
    BY <2>1, <1>1, <1>t
  <2>2. CASE stops # {}
    <3>1. PICK m \in stops : \A k \in stops : m <= k
      <4>1. stops \subseteq Nat
        BY <1>t
      <4> HIDE DEF stops
      <4> QED BY <4>1, <2>2, LeastNumber
    <3>2. y \in stops /\ \A k \in stops : y <= k
      <4> HIDE DEF stops
      <4> QED BY <1>1, <2>2, <3>1 DEF Iterative!Min
    <3>3. y \in x + 1 .. S - 1
      BY <3>2
    <3>4. \A j \in x + 1 .. y - 1 : j \notin stops /\ j \in x + 1 .. S - 2
      <4> HIDE DEF stops
      <4> QED BY <3>2, <3>3, <1>t
    <3> QED BY <3>3, <3>4, <1>t
  <2> QED BY <2>1, <2>2
<1>3. ASSUME NEW q \in 3 .. 2 * y + 2, q >= 2 * x + 4, IsPrime(q)
      PROVE  FALSE
  <2>1. q \in Nat /\ q % 2 = 1
    BY <1>2, <1>3, <1>t, PrimesAreOdd
  <2>2. PICK j \in Nat : q = 2 * j + 3
    <3>1. (q - 3) \div 2 \in Nat /\ q = 2 * ((q - 3) \div 2) + 3
      BY <1>3, <2>1
    <3> QED BY <3>1
  <2>3. j \in x + 1 .. y - 1
    BY <1>2, <1>3, <2>2, <1>t
  <2>4. j \in Block(0) /\ j \notin M
    BY <1>2, <2>2, <2>3, SearchInBlock
  <2>5. ~ IsPrime(NumberAt(j))
    <3>1. 2 * x + 4 \in Nat
      OBVIOUS
    <3> QED BY <2>4, <3>1, <1>t, UnmarkedIsComposite
  <2> QED BY <1>3, <2>2, <2>5 DEF NumberAt
<1> QED BY <1>2, <1>3

(* When the loop is left the blocks hold the primes. *)
LEMMA IterativeIsDone ==
  ASSUME SizesOK, NEW s \in Procs, NEW x \in Nat, ~ (2 * x < CeilSqrt(n))
  PROVE  SievedBelow(s, 2 * x + 3) = PrimesOf(s)
<1> DEFINE b == 2 * x + 3
<1>1. /\ CeilSqrt(n) \in Nat /\ n \in Nat /\ b \in Nat /\ CeilSqrt(n) < b
      /\ n <= CeilSqrt(n) * CeilSqrt(n) /\ CeilSqrt(n) * CeilSqrt(n) \in Nat
  BY RootsAre, CeilSqrtIs
<1> HIDE DEF b
<1>2. ASSUME NEW q \in Nat, q % 2 = 1, q * q <= n
      PROVE  q < b
  <2>1. q * q \in Nat /\ ~ (CeilSqrt(n) * CeilSqrt(n) < q * q)
    BY <1>1, <1>2
  <2>2. ~ (CeilSqrt(n) < q)
    BY <1>1, <2>1, SquaresGrow
  <2> QED BY <2>2, <1>1
<1>3. SievedBelow(s, b) = PrimesOf(s)
  BY <1>1, <1>2, SievedIsPrime
<1> QED BY <1>3 DEF b

(* The invariant: in which superstep the processes are, and what holds. *)
IterativeTyped ==
  /\ SizesOK /\ n \in Limits /\ Wide
  /\ prime_index \in [Procs -> 0 .. SmallSize(n)]

Entering ==
  /\ Together("register", "loop") /\ Untouched /\ Unsieved /\ puts = {}
  /\ \A s \in Procs : prime_index[s] = 0

IndexPuts(y) == {Put(t, "prime_index", 0, y) : t \in 1 .. P-1}

(* A round with the number of index x: y is the index process 0 found. *)
Round(x) ==
  /\ \A s \in Procs \ waiting :
       prime_index[s] = x /\ sieve[s] = SievedBelow(s, 2 * x + 3)
  /\ \A s \in waiting : sieve[s] = SievedBelow(s, 2 * x + 4) /\ (s # 0 => prime_index[s] = x)
  /\ waiting # {} => 2 * x < CeilSqrt(n)
  /\ 0 \notin waiting => puts = {}
  /\ 0 \in waiting =>
       /\ puts = IndexPuts(prime_index[0])
       /\ prime_index[0] > x
       /\ \A q \in 3 .. 2 * prime_index[0] + 2 : q >= 2 * x + 4 => ~ IsPrime(q)

Looping ==
  /\ Together("loop", "loop") /\ Untouched /\ sieve = [s \in Procs |-> sieve[s]]
  /\ \E x \in 0 .. SmallSize(n) : Round(x)

CountingIterative ==
  /\ Together("loop", "allocate") /\ Untouched /\ Sieved /\ puts = CountPuts
  /\ \E x \in 0 .. SmallSize(n) :
       ~ (2 * x < CeilSqrt(n)) /\ \A s \in Procs : prime_index[s] = x

IterativeEnded == Collected /\ pc \in [Procs -> {"return", "returned", "killed"}]

IterativeInv ==
  /\ IterativeTyped
  /\ Entering \/ Looping \/ CountingIterative \/ Allocating \/ Collecting("return")
       \/ IterativeEnded

LEMMA IterativeInitInv == Iterative!Init => IterativeInv
<1> SUFFICES ASSUME Iterative!Init
             PROVE  IterativeInv
  OBVIOUS
<1>1. InitSieve /\ prime_index = [s \in Procs |-> 0]
  BY IterativeNames, IterativeParts DEF Iterative!Init
<1>2. SizesOK /\ n \in Limits /\ Wide
  BY <1>1, InitialSizes DEF Wide
<1>3. IterativeTyped
  BY <1>1, <1>2, RootsAre DEF IterativeTyped
<1>4. Entering
  BY <1>1 DEF Entering, InitSieve, Together, Untouched, Unsieved
<1> QED BY <1>3, <1>4 DEF IterativeInv

LEMMA IterativeTypedRests ==
  ASSUME IterativeTyped, n' = n, P' = P, prime_index' \in [Procs -> 0 .. SmallSize(n)]
  PROVE  IterativeTyped'
BY Rests DEF IterativeTyped, SmallSize, CeilSqrt, Wide, FloorSqrt, OddsUpTo

LEMMA IndexRests ==
  ASSUME IterativeTyped, \A p \in puts : p.array # "prime_index", Iterative!Sync
  PROVE  prime_index' = prime_index /\ SyncResults
<1>1. /\ SyncResults
      /\ prime_index' = [t \in Procs |->
           Delivered(t, "prime_index", [k \in {0} |-> prime_index[t]])[0]]
  BY IterativeNames, IterativeParts DEF Iterative!Sync
<1>2. ASSUME NEW t \in Procs
      PROVE  Delivered(t, "prime_index", [k \in {0} |-> prime_index[t]])[0] = prime_index[t]
  <2> DEFINE old == [k \in {0} |-> prime_index[t]]
  <2>1. old = [k \in DOMAIN old |-> old[k]] /\ old[0] = prime_index[t]
    OBVIOUS
  <2> HIDE DEF old
  <2>2. Delivered(t, "prime_index", old) = old
    BY <2>1, NothingDelivered
  <2> QED BY <2>1, <2>2 DEF old
<1>3. prime_index = [t \in Procs |-> prime_index[t]]
  BY DEF IterativeTyped
<1> QED BY <1>1, <1>2, <1>3

LEMMA IterativeStepInPart ==
  ASSUME NEW now, NEW then, Together(now, then), NEW s \in Procs, Iterative!Step(s)
  PROVE  /\ now = "register" => Iterative!Register(s)
         /\ now = "loop" => Iterative!SieveAndAdvance(s) \/ Iterative!Sieve(s) \/ Iterative!Count(s)
         /\ now = "allocate" => Iterative!Allocate(s)
         /\ now = "collect" => Iterative!Collect(s)
<1>1. \A part : Iterative!Computes(s, part) => part = now
  BY PartIs, IterativeParts
<1> QED
  BY <1>1 DEF Iterative!Step, Iterative!Register, Iterative!SieveAndAdvance, Iterative!Sieve,
       Iterative!Count, Iterative!Allocate, Iterative!Collect, Iterative!Return

LEMMA EnteringNext ==
  ASSUME IterativeTyped, Entering, Iterative!Sync \/ \E s \in Procs : Iterative!Step(s)
  PROVE  IterativeInv'
<1>t. 0 \in Procs /\ SmallSize(n) \in Nat
  BY RootsAre DEF IterativeTyped
<1>1. ASSUME NEW s \in Procs, Iterative!Step(s)
      PROVE  IterativeInv'
  <2>1. Iterative!Register(s)
    BY <1>1, IterativeStepInPart DEF Entering
  <2>2. Enters(s, "loop") /\ UNCHANGED <<sieveVars, resultVars, puts, prime_index>>
    BY <2>1, IterativeParts DEF Iterative!Register, Iterative!sieveVars, Iterative!resultVars,
         sieveVars, resultVars
  <2>3. n' = n /\ P' = P /\ prime_index' = prime_index /\ puts' = puts /\ Procs' = Procs
    BY <2>2, Rests DEF sieveVars
  <2>4. Together("register", "loop")' /\ Untouched' /\ Unsieved'
    BY <2>2, <2>3, EnterTogether, UntouchedRests, UnsievedRests DEF Entering
  <2>5. Entering'
    BY <2>3, <2>4 DEF Entering
  <2>6. IterativeTyped'
    BY <2>3, IterativeTypedRests DEF IterativeTyped
  <2> QED BY <2>5, <2>6 DEF IterativeInv
<1>2. ASSUME Iterative!Sync
      PROVE  IterativeInv'
  <2>1. SyncResults /\ prime_index' = prime_index
    BY <1>2, IndexRests DEF Entering
  <2>2. n' = n /\ P' = P /\ sieve' = sieve /\ waiting = Procs /\ waiting' = {} /\ pc' = pc
        /\ puts' = {} /\ Procs' = Procs
    BY <2>1, Rests DEF SyncResults
  <2>3. Together("loop", "loop")' /\ Untouched'
    BY <2>1, <2>2, SyncTogether, UntouchedBySync DEF Entering
  <2>4. \A s \in Procs : prime_index[s] = 0 /\ sieve[s] = SievedBelow(s, 2 * 0 + 3)
    BY SievedAtFirst DEF Entering, Unsieved
  <2>5. Round(0)'
    <3>1. \A s \in Procs' \ waiting' :
            prime_index'[s] = 0 /\ sieve'[s] = SievedBelow(s, 2 * 0 + 3)'
      BY <2>1, <2>2, <2>4, Rests
    <3> QED BY <2>2, <3>1 DEF Round
  <2>6. Looping'
    <3>1. sieve' = [s \in Procs' |-> sieve'[s]] /\ SmallSize(n)' = SmallSize(n) /\ 0 \in 0 .. SmallSize(n)
      BY <1>t, <2>2 DEF Entering, Unsieved, SmallSize, CeilSqrt
    <3> QED BY <2>3, <2>5, <3>1 DEF Looping
  <2>7. IterativeTyped'
    BY <2>1, <2>2, IterativeTypedRests DEF IterativeTyped
  <2> QED BY <2>6, <2>7 DEF IterativeInv
<1> QED BY <1>1, <1>2

(* A process crosses off the multiples of the current number. *)
LEMMA RoundOfProcess ==
  ASSUME SizesOK, NEW s \in Procs, NEW x \in Nat, sieve[s] = SievedBelow(s, 2 * x + 3)
  PROVE  sieve[s] \ CrossedOff(s, NumberAt(x)) = SievedBelow(s, 2 * x + 4)
<1> DEFINE b == 2 * x + 3
<1>1. b \in Nat /\ b >= 3 /\ b % 2 = 1 /\ 2 * x + 4 = b + 1 /\ NumberAt(x) = b
  BY DEF NumberAt
<1> HIDE DEF b
<1>2. SievedBelow(s, b) \ CrossedOff(s, b) = SievedBelow(s, b + 1)
  BY <1>1, SieveOne
<1> QED BY <1>1, <1>2 DEF b

LEMMA LoopingStep ==
  ASSUME IterativeTyped, Looping, NEW s \in Procs, Iterative!Step(s)
  PROVE  IterativeInv'
<1>t. /\ SizesOK /\ Wide /\ 0 \in Procs /\ SmallSize(n) \in Nat /\ CeilSqrt(n) \in Nat
      /\ prime_index \in [Procs -> 0 .. SmallSize(n)]
  BY RootsAre DEF IterativeTyped
<1>x. PICK x \in 0 .. SmallSize(n) : Round(x)
  BY DEF Looping
<1>n. x \in Nat
  BY <1>t
<1>0. Iterative!SieveAndAdvance(s) \/ Iterative!Sieve(s) \/ Iterative!Count(s)
  BY IterativeStepInPart DEF Looping
<1>w. /\ s \notin waiting /\ prime_index[s] = x /\ sieve[s] = SievedBelow(s, 2 * x + 3)
      /\ (Iterative!Loops(s) <=> 2 * x < CeilSqrt(n))
  <2>1. s \notin waiting
    BY <1>0, IterativeParts DEF Iterative!SieveAndAdvance, Iterative!Sieve, Iterative!Count, Computes
  <2>2. prime_index[s] = x /\ sieve[s] = SievedBelow(s, 2 * x + 3)
    BY <1>x, <2>1 DEF Round
  <2> QED BY <2>1, <2>2, IterativeNames DEF Iterative!Loops
<1>1. ASSUME 2 * x < CeilSqrt(n), Enters(s, "loop"), UNCHANGED <<n, P, resultVars>>,
             sieve' = [sieve EXCEPT ![s] = @ \ CrossedOff(s, NumberAt(x))],
             prime_index' \in [Procs -> 0 .. SmallSize(n)],
             \A r \in Procs \ {0} : prime_index'[r] = prime_index[r],
             0 \notin waiting' => prime_index' = prime_index,
             0 \notin waiting' => puts' = {},
             0 \in waiting' =>
               /\ puts' = IndexPuts(prime_index'[0])
               /\ prime_index'[0] > x
               /\ \A q \in 3 .. 2 * prime_index'[0] + 2 : q >= 2 * x + 4 => ~ IsPrime(q)
      PROVE  IterativeInv'
  <2>1. Procs' = Procs /\ waiting' = waiting \cup {s} /\ SmallSize(n)' = SmallSize(n)
        /\ CeilSqrt(n)' = CeilSqrt(n)
    BY <1>1, Rests DEF Enters, SmallSize, CeilSqrt
  <2>2. Together("loop", "loop")' /\ Untouched'
    BY <1>1, EnterTogether, UntouchedRests DEF Looping
  <2>3. sieve' = [r \in Procs |-> sieve'[r]] /\ sieve'[s] = SievedBelow(s, 2 * x + 4)
        /\ \A r \in Procs \ {s} : sieve'[r] = sieve[r]
    <3>1. sieve[s] \ CrossedOff(s, NumberAt(x)) = SievedBelow(s, 2 * x + 4)
      BY <1>t, <1>n, <1>w, RoundOfProcess
    <3> QED BY <1>1, <3>1 DEF Looping
  <2>4. waiting \subseteq Procs
    BY DEF Looping, Together
  <2>5. Round(x)'
    <3>1. \A r \in Procs \ waiting' :
            prime_index'[r] = x /\ sieve'[r] = SievedBelow(r, 2 * x + 3)
      BY <1>x, <1>1, <2>1, <2>3 DEF Round
    <3>2. \A r \in waiting' : sieve'[r] = SievedBelow(r, 2 * x + 4) /\ (r # 0 => prime_index'[r] = x)
      BY <1>x, <1>1, <1>w, <2>1, <2>3, <2>4 DEF Round
    <3>3. waiting' # {} => 2 * x < CeilSqrt(n)
      BY <1>1
    <3>4. 0 \notin waiting' => puts' = {}
      BY <1>1
    <3>5. 0 \in waiting' =>
            /\ puts' = {Put(t, "prime_index", 0, prime_index'[0]) : t \in 1 .. P'-1}
            /\ prime_index'[0] > x
            /\ \A q \in 3 .. 2 * prime_index'[0] + 2 : q >= 2 * x + 4 => ~ IsPrime(q)
      BY <1>1 DEF IndexPuts
    <3>6. \A r, b : SievedBelow(r, b)' = SievedBelow(r, b)
      BY <1>1, Rests
    <3> QED BY <1>1, <2>1, <3>1, <3>2, <3>3, <3>4, <3>5, <3>6 DEF Round, IndexPuts, IsPrime, Put
  <2>6. Looping'
    BY <1>x, <2>1, <2>2, <2>3, <2>5 DEF Looping
  <2>7. IterativeTyped'
    BY <1>1, IterativeTypedRests
  <2> QED BY <2>6, <2>7 DEF IterativeInv
<1>2. ASSUME Iterative!SieveAndAdvance(s)
      PROVE  IterativeInv'
  <2> DEFINE y == Iterative!NextPrimeIndex(x, SievedBelow(0, 2 * x + 4))
  <2>1. /\ s = 0 /\ 2 * x < CeilSqrt(n)
        /\ sieve' = [sieve EXCEPT ![0] = @ \ CrossedOff(0, NumberAt(x))]
        /\ prime_index' = [prime_index EXCEPT ![0] = Iterative!NextPrimeIndex(x, sieve'[0])]
        /\ puts' = puts \cup IndexPuts(prime_index'[0])
        /\ Enters(0, "loop") /\ UNCHANGED <<n, P, resultVars>>
    BY <1>2, <1>w, <1>t, IterativeNames, IterativeParts DEF Iterative!SieveAndAdvance,
         resultVars, Iterative!resultVars, IndexPuts, Put, Iterative!Put
  <2>2. sieve'[0] = SievedBelow(0, 2 * x + 4)
    <3>1. sieve[0] \ CrossedOff(0, NumberAt(x)) = SievedBelow(0, 2 * x + 4)
      BY <1>t, <1>n, <1>w, <2>1, RoundOfProcess
    <3> QED BY <1>t, <2>1, <3>1 DEF Looping
  <2>3. prime_index' = [prime_index EXCEPT ![0] = y]
    BY <2>1, <2>2
  <2>4. y \in x + 1 .. SmallSize(n) /\ \A q \in 3 .. 2 * y + 2 : q >= 2 * x + 4 => ~ IsPrime(q)
    BY <1>t, <1>n, <2>1, NextPrimeIs
  <2> HIDE DEF y
  <2>5. /\ prime_index' \in [Procs -> 0 .. SmallSize(n)] /\ prime_index'[0] = y /\ y > x
        /\ \A r \in Procs \ {0} : prime_index'[r] = prime_index[r]
    BY <1>t, <1>n, <2>3, <2>4
  <2>6. puts = {} /\ 0 \in waiting'
    BY <1>x, <1>w, <2>1 DEF Round, Enters
  <2> QED BY <1>1, <2>1, <2>4, <2>5, <2>6
<1>3. ASSUME Iterative!Sieve(s)
      PROVE  IterativeInv'
  <2>1. /\ s # 0 /\ 2 * x < CeilSqrt(n)
        /\ sieve' = [sieve EXCEPT ![s] = @ \ CrossedOff(s, NumberAt(x))]
        /\ Enters(s, "loop") /\ UNCHANGED <<n, P, resultVars, puts, prime_index>>
    BY <1>3, <1>w, <1>t, IterativeNames, IterativeParts DEF Iterative!Sieve,
         resultVars, Iterative!resultVars
  <2>2. 0 \in waiting' <=> 0 \in waiting
    BY <2>1 DEF Enters
  <2>3. /\ 0 \notin waiting => puts = {}
        /\ 0 \in waiting =>
             /\ puts = IndexPuts(prime_index[0])
             /\ prime_index[0] > x
             /\ \A q \in 3 .. 2 * prime_index[0] + 2 : q >= 2 * x + 4 => ~ IsPrime(q)
    BY <1>x DEF Round
  <2> QED BY <1>1, <1>t, <2>1, <2>2, <2>3
<1>4. ASSUME Iterative!Count(s)
      PROVE  IterativeInv'
  <2>1. /\ ~ (2 * x < CeilSqrt(n)) /\ PublishCount(s) /\ Enters(s, "allocate")
        /\ UNCHANGED <<sieveVars, resultVars, prime_index>>
    BY <1>4, <1>w, IterativeParts DEF Iterative!Count, sieveVars, resultVars,
         Iterative!sieveVars, Iterative!resultVars
  <2>2. waiting = {} /\ puts = {}
    BY <1>x, <2>1 DEF Round
  <2>3. Sieved /\ \A r \in Procs : prime_index[r] = x
    <3>1. \A r \in Procs : sieve[r] = PrimesOf(r) /\ prime_index[r] = x
      BY <1>x, <1>t, <1>n, <2>1, <2>2, IterativeIsDone DEF Round
    <3>2. sieve = [r \in Procs |-> sieve[r]]
      BY DEF Looping
    <3> QED BY <3>1, <3>2 DEF Sieved
  <2>4. n' = n /\ P' = P /\ sieve' = sieve /\ waiting' = waiting \cup {s} /\ Procs' = Procs
        /\ prime_index' = prime_index /\ SmallSize(n)' = SmallSize(n) /\ CeilSqrt(n)' = CeilSqrt(n)
    BY <2>1, Rests DEF sieveVars, Enters, SmallSize, CeilSqrt
  <2>5. Together("loop", "allocate") /\ puts = CountPuts
    BY <2>2 DEF Looping, Together, CountPuts
  <2>6. Together("loop", "allocate")' /\ Untouched' /\ Sieved'
    BY <2>1, <2>3, <2>4, <2>5, EnterTogether, UntouchedRests, SievedRests DEF Looping
  <2>7. (puts = CountPuts)'
    <3>1. sieve[s] = PrimesOf(s)
      BY <2>3 DEF Sieved
    <3> QED BY <2>1, <2>4, <2>5, <3>1, CountStep
  <2>8. CountingIterative'
    BY <1>x, <2>1, <2>3, <2>4, <2>6, <2>7 DEF CountingIterative
  <2>9. IterativeTyped'
    BY <1>t, <2>4, IterativeTypedRests
  <2> QED BY <2>8, <2>9 DEF IterativeInv
<1> QED BY <1>0, <1>2, <1>3, <1>4

LEMMA LoopingEnds ==
  ASSUME IterativeTyped, Looping, Iterative!Sync
  PROVE  IterativeInv'
<1>t. /\ SizesOK /\ 0 \in Procs /\ SmallSize(n) \in Nat /\ P \in Nat \ {0}
      /\ prime_index \in [Procs -> 0 .. SmallSize(n)]
  BY RootsAre DEF IterativeTyped
<1>x. PICK x \in 0 .. SmallSize(n) : Round(x)
  BY DEF Looping
<1>y. PICK y : y = prime_index[0]
  OBVIOUS
<1>1. /\ SyncResults
      /\ prime_index' = [t \in Procs |->
           Delivered(t, "prime_index", [k \in {0} |-> prime_index[t]])[0]]
  BY IterativeNames, IterativeParts DEF Iterative!Sync
<1>2. n' = n /\ P' = P /\ sieve' = sieve /\ waiting = Procs /\ waiting' = {} /\ pc' = pc
      /\ puts' = {} /\ Procs' = Procs /\ SmallSize(n)' = SmallSize(n)
  BY <1>1, Rests DEF SyncResults, SmallSize, CeilSqrt
<1>3. /\ puts = IndexPuts(y) /\ y > x /\ y \in 0 .. SmallSize(n) /\ y \in Nat /\ x \in Nat
      /\ \A q \in 3 .. 2 * y + 2 : q >= 2 * x + 4 => ~ IsPrime(q)
      /\ \A s \in Procs : sieve[s] = SievedBelow(s, 2 * x + 4)
  BY <1>x, <1>y, <1>t, <1>2 DEF Round
<1>4. ASSUME NEW t \in Procs
      PROVE  Delivered(t, "prime_index", [k \in {0} |-> prime_index[t]])[0] = y
  <2> DEFINE old == [k \in {0} |-> prime_index[t]]
             here == {p \in puts : p.to = t /\ p.array = "prime_index" /\ p.at = 0}
  <2>1. DOMAIN old = {0} /\ old[0] = prime_index[t]
    OBVIOUS
  <2>2. Delivered(t, "prime_index", old)[0]
          = IF here = {} THEN old[0] ELSE (CHOOSE p \in here : TRUE).value
    BY <2>1 DEF Delivered
  <2>3. CASE t = 0
    <3>1. here = {}
      BY <1>3, <2>3, PutFields DEF IndexPuts
    <3> QED BY <1>y, <2>1, <2>2, <2>3, <3>1
  <2>4. CASE t # 0
    <3>1. t \in 1 .. P-1
      BY <1>t, <2>4 DEF Procs
    <3>2. here = {Put(t, "prime_index", 0, y)}
      BY <1>3, <3>1, PutFields DEF IndexPuts
    <3>3. here # {} /\ (CHOOSE p \in here : TRUE).value = y
      BY <3>2, PutFields
    <3> QED BY <2>2, <3>3
  <2> QED BY <2>3, <2>4
<1>5. prime_index' = [t \in Procs |-> y]
  BY <1>1, <1>4
<1>6. IterativeTyped'
  BY <1>2, <1>3, <1>5, IterativeTypedRests
<1>7. \A s \in Procs : sieve[s] = SievedBelow(s, 2 * y + 3)
  <2>1. \A q \in 3 .. (2 * y + 3) - 1 : q >= 2 * x + 4 => ~ IsPrime(q)
    BY <1>3
  <2>2. 2 * x + 4 \in Nat /\ 2 * y + 3 \in Nat /\ 2 * x + 4 <= 2 * y + 3
    BY <1>3
  <2>3. \A s : SievedBelow(s, 2 * y + 3) = SievedBelow(s, 2 * x + 4)
    BY <2>1, <2>2, SkipComposites
  <2> QED BY <1>3, <2>3
<1>8. Round(y)'
  <2>1. \A s \in Procs' \ waiting' : prime_index'[s] = y /\ sieve'[s] = SievedBelow(s, 2 * y + 3)
    BY <1>2, <1>5, <1>7
  <2>2. \A s, b : SievedBelow(s, b)' = SievedBelow(s, b)
    BY <1>2, Rests
  <2> QED BY <1>2, <1>3, <2>1, <2>2 DEF Round
<1>9. Untouched'
  <2>1. \A p \in puts : p.array # "num_primes_result" /\ p.array # "primes"
    BY <1>3, PutFields DEF IndexPuts
  <2> QED BY <2>1, <1>1, UntouchedBySync DEF Looping
<1>10. Together("loop", "loop")'
  BY <1>2, SyncTogether DEF Looping
<1>11. Looping'
  BY <1>2, <1>3, <1>8, <1>9, <1>10 DEF Looping
<1> QED BY <1>6, <1>11 DEF IterativeInv

LEMMA CountingIterativeNext ==
  ASSUME IterativeTyped, CountingIterative, Iterative!Sync \/ \E s \in Procs : Iterative!Step(s)
  PROVE  IterativeInv'
<1>1. ASSUME NEW s \in Procs, Iterative!Step(s)
      PROVE  IterativeInv'
  <2>x. PICK x \in 0 .. SmallSize(n) :
          ~ (2 * x < CeilSqrt(n)) /\ \A r \in Procs : prime_index[r] = x
    BY DEF CountingIterative
  <2>0. ~ Iterative!Loops(s)
    BY <2>x, IterativeNames DEF Iterative!Loops
  <2>1. Iterative!Count(s)
    BY <1>1, <2>0, IterativeStepInPart DEF CountingIterative, Iterative!SieveAndAdvance,
         Iterative!Sieve
  <2>2. PublishCount(s) /\ Enters(s, "allocate") /\ s \notin waiting
        /\ UNCHANGED <<n, P, sieve, num_primes_result, primes, prime_index>>
    BY <2>1, IterativeParts DEF Iterative!Count, Iterative!sieveVars, Iterative!resultVars, Computes
  <2>3. n' = n /\ P' = P /\ sieve' = sieve /\ waiting' = waiting \cup {s} /\ Procs' = Procs
        /\ prime_index' = prime_index /\ SmallSize(n)' = SmallSize(n) /\ CeilSqrt(n)' = CeilSqrt(n)
    BY <2>2, Rests DEF Enters, SmallSize, CeilSqrt
  <2>4. Together("loop", "allocate")' /\ Untouched' /\ Sieved'
    BY <2>2, <2>3, EnterTogether, UntouchedRests, SievedRests DEF CountingIterative, resultVars
  <2>5. (puts = CountPuts)'
    <3>1. sieve[s] = PrimesOf(s)
      BY DEF CountingIterative, Sieved
    <3> QED BY <2>2, <2>3, <3>1, CountStep DEF CountingIterative
  <2>6. CountingIterative'
    BY <2>x, <2>3, <2>4, <2>5 DEF CountingIterative
  <2>7. IterativeTyped'
    BY <2>3, IterativeTypedRests DEF IterativeTyped
  <2> QED BY <2>6, <2>7 DEF IterativeInv
<1>2. ASSUME Iterative!Sync
      PROVE  IterativeInv'
  <2>1. \A p \in puts : p.array # "prime_index"
    BY PutFields DEF CountingIterative, CountPuts, CountPutsOf
  <2>2. SyncResults /\ prime_index' = prime_index
    BY <1>2, <2>1, IndexRests
  <2>3. Allocating'
    BY <2>2, CountingEnds DEF CountingIterative
  <2>4. IterativeTyped'
    BY <2>2, IterativeTypedRests DEF IterativeTyped, SyncResults
  <2> QED BY <2>3, <2>4 DEF IterativeInv
<1> QED BY <1>1, <1>2

LEMMA IterativeAllocatingNext ==
  ASSUME IterativeTyped, Allocating, Iterative!Sync \/ \E s \in Procs : Iterative!Step(s)
  PROVE  IterativeInv'
<1>1. ASSUME NEW s \in Procs, Iterative!Step(s)
      PROVE  IterativeInv'
  <2>1. Iterative!Allocate(s)
    BY <1>1, IterativeStepInPart DEF Allocating
  <2>2. AllocatePrimes(s) /\ Enters(s, "collect")
        /\ UNCHANGED <<n, P, sieve, num_primes_result, puts, prime_index>>
    BY <2>1, IterativeParts DEF Iterative!Allocate, Iterative!sieveVars
  <2>3. Allocating'
    BY <2>2, AllocatingStep DEF IterativeTyped
  <2>4. IterativeTyped'
    BY <2>2, IterativeTypedRests DEF IterativeTyped
  <2> QED BY <2>3, <2>4 DEF IterativeInv
<1>2. ASSUME Iterative!Sync
      PROVE  IterativeInv'
  <2>1. SyncResults /\ prime_index' = prime_index
    BY <1>2, IndexRests DEF Allocating
  <2>2. Collecting("return")'
    BY <2>1, AllocatingEnds DEF IterativeTyped
  <2>3. IterativeTyped'
    BY <2>1, IterativeTypedRests DEF IterativeTyped, SyncResults
  <2> QED BY <2>2, <2>3 DEF IterativeInv
<1> QED BY <1>1, <1>2

LEMMA IterativeCollectingNext ==
  ASSUME IterativeTyped, Collecting("return"), Iterative!Sync \/ \E s \in Procs : Iterative!Step(s)
  PROVE  IterativeInv'
<1>1. ASSUME NEW s \in Procs, Iterative!Step(s)
      PROVE  IterativeInv'
  <2>1. Iterative!Collect(s)
    BY <1>1, IterativeStepInPart DEF Collecting
  <2>2. PutPrimes(s) /\ Enters(s, "return")
        /\ UNCHANGED <<n, P, sieve, num_primes_result, primes, prime_index>>
    BY <2>1, IterativeParts DEF Iterative!Collect, Iterative!sieveVars, Iterative!resultVars
  <2>3. Collecting("return")'
    BY <2>2, CollectingStep DEF IterativeTyped
  <2>4. IterativeTyped'
    BY <2>2, IterativeTypedRests DEF IterativeTyped
  <2> QED BY <2>3, <2>4 DEF IterativeInv
<1>2. ASSUME Iterative!Sync
      PROVE  IterativeInv'
  <2>1. \A p \in puts : p.array # "prime_index"
    BY PutFields DEF Collecting, PrimePuts, PrimePutsOf
  <2>2. SyncResults /\ prime_index' = prime_index
    BY <1>2, <2>1, IndexRests
  <2>3. Collected' /\ pc' = [s \in Procs |-> "return"]
    BY <2>2, CollectingEnds DEF IterativeTyped
  <2>4. Procs' = Procs
    BY <2>2, Rests DEF SyncResults
  <2>5. IterativeEnded'
    BY <2>3, <2>4 DEF IterativeEnded
  <2>6. IterativeTyped'
    BY <2>2, IterativeTypedRests DEF IterativeTyped, SyncResults
  <2> QED BY <2>5, <2>6 DEF IterativeInv
<1> QED BY <1>1, <1>2

LEMMA IterativeEndedNext ==
  ASSUME IterativeTyped, IterativeEnded, Iterative!Sync \/ \E s \in Procs : Iterative!Step(s)
  PROVE  IterativeInv'
<1>t. 0 \in Procs /\ waiting = {} /\ pc \in [Procs -> {"return", "returned", "killed"}]
  BY DEF IterativeTyped, SizesOK, Procs, IterativeEnded, Collected
<1>1. ~ Iterative!Sync
  BY <1>t, IterativeParts DEF Iterative!Sync, SyncResults
<1>2. PICK s \in Procs : Iterative!Step(s)
  BY <1>1
<1>3. Iterative!Return(s)
  <2>1. pc[s] \in {"return", "returned", "killed"}
    BY <1>t
  <2>2. \A part : Iterative!Computes(s, part) => part \in {"return", "returned", "killed"}
    BY <2>1, IterativeParts DEF Computes
  <2> QED
    BY <1>2, <2>2 DEF Iterative!Step, Iterative!Register, Iterative!SieveAndAdvance,
       Iterative!Sieve, Iterative!Count, Iterative!Allocate, Iterative!Collect
<1>4. /\ pc' = [t \in Procs |-> IF t = s THEN "returned"
                                ELSE IF s = 0 /\ pc[t] # "returned" THEN "killed"
                                ELSE pc[t]]
      /\ UNCHANGED <<n, P, sieve, num_primes_result, primes, waiting, puts, prime_index>>
  BY <1>3, IterativeNames DEF Iterative!Return, Iterative!sieveVars, Iterative!resultVars
<1>5. Collected' /\ Procs' = Procs
  BY <1>4, CollectedRests, Rests DEF IterativeEnded
<1>6. pc' \in [Procs -> {"return", "returned", "killed"}]
  <2>1. \A t \in Procs : (IF t = s THEN "returned"
                          ELSE IF s = 0 /\ pc[t] # "returned" THEN "killed"
                          ELSE pc[t]) \in {"return", "returned", "killed"}
    BY <1>t
  <2> QED BY <1>4, <2>1
<1>7. IterativeEnded'
  BY <1>5, <1>6 DEF IterativeEnded
<1>8. IterativeTyped'
  BY <1>4, IterativeTypedRests DEF IterativeTyped
<1> QED BY <1>7, <1>8 DEF IterativeInv

LEMMA IterativeNext ==
  ASSUME IterativeInv, [Iterative!Next]_(Iterative!vars)
  PROVE  IterativeInv'
<1>1. ASSUME Iterative!Sync \/ \E s \in Procs : Iterative!Step(s)
      PROVE  IterativeInv'
  <2>1. CASE Entering
    BY <1>1, <2>1, EnteringNext DEF IterativeInv
  <2>2. CASE Looping
    BY <1>1, <2>2, LoopingStep, LoopingEnds DEF IterativeInv
  <2>3. CASE CountingIterative
    BY <1>1, <2>3, CountingIterativeNext DEF IterativeInv
  <2>4. CASE Allocating
    BY <1>1, <2>4, IterativeAllocatingNext DEF IterativeInv
  <2>5. CASE Collecting("return")
    BY <1>1, <2>5, IterativeCollectingNext DEF IterativeInv
  <2>6. CASE IterativeEnded
    BY <1>1, <2>6, IterativeEndedNext DEF IterativeInv
  <2> QED BY <2>1, <2>2, <2>3, <2>4, <2>5, <2>6 DEF IterativeInv
<1>2. ASSUME UNCHANGED Iterative!vars
      PROVE  IterativeInv'
  <2>1. UNCHANGED <<n, P, pc, waiting, sieve, num_primes_result, primes, puts, prime_index>>
    BY <1>2 DEF Iterative!vars
  <2>2. IterativeTyped'
    BY <2>1, IterativeTypedRests DEF IterativeInv, IterativeTyped
  <2>3. /\ Procs' = Procs /\ Blank' = Blank /\ SmallSize(n)' = SmallSize(n)
        /\ CeilSqrt(n)' = CeilSqrt(n)
        /\ CountPuts' = CountPuts /\ PrimePuts' = PrimePuts
        /\ \A y : IndexPuts(y)' = IndexPuts(y)
        /\ \A q : IsPrime(q)' <=> IsPrime(q)
        /\ \A r, b : SievedBelow(r, b)' = SievedBelow(r, b)
    BY <2>1, Rests DEF Blank, SmallSize, CeilSqrt, CountPuts, CountPutsOf, PrimePuts, PrimePutsOf,
         IndexPuts, Put, NumberAt, IsPrime
  <2>4. \A now, then : Together(now, then)' <=> Together(now, then)
    BY <2>1, <2>3 DEF Together
  <2>5. /\ Untouched => Untouched'
        /\ Unsieved => Unsieved'
        /\ Sieved => Sieved'
        /\ Counted => Counted'
        /\ Collected => Collected'
    BY <2>1, UntouchedRests, UnsievedRests, SievedRests, CountedRests, CollectedRests
       DEF sieveVars, resultVars
  <2>6. Allocated => Allocated'
    BY <2>1, <2>3 DEF Allocated
  <2>7. Entering => Entering'
    BY <2>1, <2>3, <2>4, <2>5 DEF Entering
  <2>8. Looping => Looping'
    <3>1. \A x : Round(x)' <=> Round(x)
      BY <2>1, <2>3 DEF Round
    <3> QED BY <2>1, <2>3, <2>4, <2>5, <3>1 DEF Looping
  <2>9. CountingIterative => CountingIterative'
    BY <2>1, <2>3, <2>4, <2>5 DEF CountingIterative
  <2>10. Allocating => Allocating'
    BY <2>1, <2>3, <2>4, <2>5, <2>6 DEF Allocating
  <2>11. Collecting("return") => Collecting("return")'
    BY <2>1, <2>3, <2>4, <2>5 DEF Collecting
  <2>12. IterativeEnded => IterativeEnded'
    BY <2>1, <2>3, <2>5 DEF IterativeEnded
  <2> QED BY <2>2, <2>7, <2>8, <2>9, <2>10, <2>11, <2>12 DEF IterativeInv
<1>3. Iterative!Next => Iterative!Sync \/ (\E s \in Procs : Iterative!Step(s)) \/ UNCHANGED Iterative!vars
  BY IterativeNames DEF Iterative!Next, Iterative!Finished
<1> QED BY <1>1, <1>2, <1>3

LEMMA IterativeAlways == Iterative!Spec => []IterativeInv
<1>1. Iterative!Init => IterativeInv
  BY IterativeInitInv
<1>2. IterativeInv /\ [Iterative!Next]_(Iterative!vars) => IterativeInv'
  BY IterativeNext
<1> QED BY <1>1, <1>2, PTL DEF Iterative!Spec

(* In no superstep of the iterative sieve do two puts write the same
   element, and none writes outside the array of process 0. *)
THEOREM IterativePutsAreSafe == Iterative!Spec => []PutsAreSafe
<1>1. ASSUME IterativeInv
      PROVE  PutsAreSafe
  <2>1. puts = {} => PutsAreSafe
    BY DEF PutsAreSafe
  <2>2. \A y : puts = IndexPuts(y) => PutsAreSafe
    BY PutFields DEF IndexPuts, PutsAreSafe
  <2>3. puts = CountPuts => PutsAreSafe
    BY CountPutsAreSafe
  <2>4. Collecting("return") => PutsAreSafe
    BY <1>1, PrimePutsAreSafe DEF Collecting, Together, IterativeInv, IterativeTyped
  <2>5. Looping => PutsAreSafe
    BY <2>1, <2>2 DEF Looping, Round
  <2> QED
    BY <1>1, <2>1, <2>3, <2>4, <2>5 DEF IterativeInv, Entering, CountingIterative, Allocating,
         IterativeEnded, Collected
<1> QED BY <1>1, IterativeAlways, PTL

(* When the SPMD function of the iterative sieve is about to return, all
   primes up to the limit are in the array of process 0, in ascending
   order: for every limit and every number of processes. *)
THEOREM IterativeDeliversAllPrimes == Iterative!Spec => []DeliversAllPrimes
<1>1. ASSUME IterativeInv, pc[0] \in {"end", "return"}, waiting = {}
      PROVE  IterativeEnded
  <2>1. 0 \in Procs
    BY <1>1 DEF IterativeInv, IterativeTyped, SizesOK, Procs
  <2>2. \A now, then : Together(now, then) => pc[0] = now
    BY <1>1, <2>1 DEF Together
  <2>3. /\ Entering => pc[0] = "register"
        /\ Looping => pc[0] = "loop"
        /\ CountingIterative => pc[0] = "loop"
        /\ Allocating => pc[0] = "allocate"
        /\ Collecting("return") => pc[0] = "collect"
    BY <2>2 DEF Entering, Looping, CountingIterative, Allocating, Collecting
  <2> QED BY <1>1, <2>3 DEF IterativeInv
<1>2. ASSUME IterativeInv
      PROVE  DeliversAllPrimes
  <2> SUFFICES ASSUME pc[0] \in {"end", "return"}, waiting = {}
               PROVE  /\ {primes[0][k] : k \in DOMAIN primes[0]} = PrimesUpTo(n)
                      /\ \A j, k \in DOMAIN primes[0] : j < k => primes[0][j] < primes[0][k]
    BY DEF DeliversAllPrimes
  <2>1. IsResult(primes[0]) /\ SizesOK
    BY <1>1, <1>2 DEF IterativeEnded, Collected, IterativeInv, IterativeTyped
  <2> DEFINE list == primes[0]
  <2> HIDE DEF list
  <2>2. /\ {list[k] : k \in DOMAIN list} = PrimesUpTo(n)
        /\ \A j, k \in DOMAIN list : j < k => list[j] < list[k]
    BY <2>1, ResultIsPrimes DEF list
  <2> QED BY <2>2 DEF list
<1> QED BY <1>2, IterativeAlways, PTL

(* Whatever the processes decide for themselves, they leave the loop in
   the same superstep, and between supersteps they sieve with the same
   number. *)
THEOREM IterativeSuperstepsMatch == Iterative!Spec => []Iterative!SuperstepsMatch
<1>1. ASSUME IterativeInv
      PROVE  Iterative!SuperstepsMatch
  <2>1. \A now, then : Together(now, then) => \A s, t \in waiting : pc[s] = pc[t]
    BY DEF Together
  <2>2. \A s, t \in waiting : pc[s] = pc[t]
    BY <1>1, <2>1 DEF IterativeInv, Entering, Looping, CountingIterative, Allocating, Collecting,
         IterativeEnded, Collected
  <2>3. ASSUME waiting = {}, NEW s \in Procs, NEW t \in Procs, pc[s] = "loop", pc[t] = "loop"
        PROVE  prime_index[s] = prime_index[t]
    <3>1. \A now, then : Together(now, then) => now = "loop"
      BY <2>3 DEF Together
    <3>2. CASE Looping
      BY <2>3, <3>2 DEF Looping, Round
    <3>3. CASE CountingIterative
      BY <2>3, <3>3 DEF CountingIterative
    <3> QED
      BY <1>1, <2>3, <3>1, <3>2, <3>3 DEF IterativeInv, Entering, Allocating, Collecting, IterativeEnded
  <2> QED BY <2>2, <2>3, IterativeNames DEF Iterative!SuperstepsMatch
<1> QED BY <1>1, IterativeAlways, PTL

(* Before each round a block lacks exactly the proper multiples of the
   primes below the current number: process 0 has skipped none, though it
   looks for the next one in a sieve it has not finished. *)
THEOREM IterativeSieves == Iterative!Spec => []Iterative!SieveInv
<1>1. ASSUME IterativeInv
      PROVE  Iterative!SieveInv
  <2>t. 0 \in Procs /\ SizesOK /\ P \in Nat \ {0} /\ n \in Limits /\ SmallSize(n) \in Nat
        /\ prime_index \in [Procs -> 0 .. SmallSize(n)]
    BY <1>1, RootsAre DEF IterativeInv, IterativeTyped, SizesOK, Procs
  <2>1. ListsTyped
    BY <1>1, <2>t, ListTypes DEF IterativeInv, Entering, Looping, CountingIterative, Allocating,
         Collecting, IterativeEnded
  <2>2. waiting \subseteq Procs
    BY <1>1 DEF IterativeInv, Entering, Looping, CountingIterative, Allocating, Collecting,
         IterativeEnded, Collected, Together
  <2>3. sieve \in [Procs -> SUBSET (0 .. OddsUpTo(n) - 1)]
    <3>1. \A s \in Procs : Block(s) \subseteq 0 .. OddsUpTo(n) - 1
      BY <2>t, BlocksAre
    <3>2. \A s : PrimesOf(s) \subseteq Block(s) /\ \A b : SievedBelow(s, b) \subseteq Block(s)
      BY DEF PrimesOf, SievedBelow
    <3>3. Looping => sieve = [s \in Procs |-> sieve[s]] /\ \A s \in Procs : sieve[s] \subseteq Block(s)
      BY <3>2 DEF Looping, Round
    <3>4. \/ sieve = [s \in Procs |-> Block(s)]
          \/ sieve = [s \in Procs |-> sieve[s]] /\ \A s \in Procs : sieve[s] \subseteq Block(s)
          \/ sieve = [s \in Procs |-> PrimesOf(s)]
      BY <1>1, <3>3 DEF IterativeInv, Entering, CountingIterative, Allocating, Collecting,
           IterativeEnded, Collected, Unsieved, Sieved
    <3> QED BY <3>1, <3>2, <3>4
  <2>4. pc \in [Procs -> Iterative!Parts]
    <3>1. \A now, then : Together(now, then) /\ {now, then} \subseteq Iterative!Parts
                           => pc \in [Procs -> Iterative!Parts]
      BY DEF Together
    <3> QED
      BY <1>1, <3>1 DEF IterativeInv, Entering, Looping, CountingIterative, Allocating, Collecting,
           IterativeEnded, Iterative!Parts
  <2>5. Iterative!TypeOK
    BY <2>t, <2>1, <2>2, <2>3, <2>4, IterativeNames DEF Iterative!TypeOK, Iterative!SieveTypeOK,
         ListsTyped
  <2>6. ASSUME NEW s \in Procs, pc[s] = "loop", s \notin waiting
        PROVE  sieve[s] = SievedBelow(s, 2 * prime_index[s] + 3)
    <3>1. \A now, then : Together(now, then) => now = "loop"
      BY <2>6 DEF Together
    <3>2. CASE Looping
      BY <2>6, <3>2 DEF Looping, Round
    <3>3. CASE CountingIterative
      <4>1. PICK x \in 0 .. SmallSize(n) : ~ (2 * x < CeilSqrt(n)) /\ prime_index[s] = x
        BY <3>3 DEF CountingIterative
      <4>2. SievedBelow(s, 2 * x + 3) = PrimesOf(s)
        BY <2>t, <4>1, IterativeIsDone
      <4>3. sieve[s] = PrimesOf(s)
        BY <3>3 DEF CountingIterative, Sieved
      <4> QED BY <4>1, <4>2, <4>3
    <3> QED
      BY <1>1, <2>6, <3>1, <3>2, <3>3 DEF IterativeInv, Entering, Allocating, Collecting, IterativeEnded
  <2>7. Iterative!BlockIsSievedSoFar
    BY <2>6, IterativeNames DEF Iterative!BlockIsSievedSoFar, SievedBelow, NumberAt
  <2> QED BY <2>5, <2>7 DEF Iterative!SieveInv
<1> QED BY <1>1, IterativeAlways, PTL

(* The search for the next prime reads only the block of process 0: there
   are never too many processes for it. *)
THEOREM IterativeSearchStaysInBlock == Iterative!Spec => []Iterative!SearchStaysInBlock
<1>1. ASSUME IterativeInv
      PROVE  Iterative!SearchStaysInBlock
  <2>1. /\ SizesOK /\ Wide /\ 0 \in Procs /\ SmallSize(n) \in Nat
        /\ prime_index \in [Procs -> 0 .. SmallSize(n)]
    BY <1>1, RootsAre DEF IterativeInv, IterativeTyped
  <2>2. ASSUME NEW j \in prime_index[0] + 1 .. SmallSize(n) - 2
        PROVE  j \in Block(0)
    <3>1. j \in Nat /\ j <= SmallSize(n) - 2
      BY <2>1
    <3> QED BY <2>1, <3>1, SearchInBlock
  <2> QED BY <2>2, IterativeNames DEF Iterative!SearchStaysInBlock
<1> QED BY <1>1, IterativeAlways, PTL

----
(* The sequential sieves. *)
LEMMA SequentialNames ==
  /\ Sequential!Procs = Procs
  /\ \A m : /\ Sequential!OddsUpTo(m) = OddsUpTo(m) /\ Sequential!CeilSqrt(m) = CeilSqrt(m)
            /\ Sequential!IsPrime(m) <=> IsPrime(m)
            /\ Sequential!PrimesUpTo(m) = PrimesUpTo(m)
            /\ Sequential!Cardinality(m) = Cardinality(m)
<1>1. \A m : Sequential!IsPrime(m) <=> IsPrime(m)
  BY DEF IsPrime, Sequential!IsPrime
<1> QED
  BY <1>1 DEF Procs, Sequential!Procs, OddsUpTo, Sequential!OddsUpTo, CeilSqrt, Sequential!CeilSqrt,
       PrimesUpTo, Sequential!PrimesUpTo, Cardinality, Sequential!Cardinality

(* What is left of all numbers once those below b have been sieved with. *)
MarkedOfAll(x, b) == \A q \in 2 .. b-1 : IsPrime(q) => x = q \/ x % q # 0

LEMMA MarkedOfAllIsPrime ==
  ASSUME NEW x \in Nat, x > 1, NEW b \in Nat, \A q \in Nat : q * q <= x => q < b
  PROVE  MarkedOfAll(x, b) <=> IsPrime(x)
<1>1. ASSUME MarkedOfAll(x, b), ~ IsPrime(x)
      PROVE  FALSE
  <2>1. PICK q \in 2 .. x : IsPrime(q) /\ x % q = 0 /\ q * q <= x
    BY <1>1, PrimeDivisor
  <2>2. q \in 2 .. b-1 /\ q # x
    BY <1>1, <2>1
  <2> QED BY <1>1, <2>1, <2>2 DEF MarkedOfAll
<1>2. ASSUME IsPrime(x), NEW q \in 2 .. b-1, x # q, x % q = 0
      PROVE  FALSE
  <2>1. q \in Nat /\ q > 1
    OBVIOUS
  <2> QED BY <1>2, <2>1, PrimeIsNoMultiple
<1> QED BY <1>1, <1>2 DEF MarkedOfAll

(* Only multiples from the square on are still marked. *)
LEMMA RoundOfAll ==
  ASSUME NEW j \in Nat, j >= 2, NEW k \in Nat, k >= 2
  PROVE  MarkedOfAll(k, j + 1) <=>
           /\ MarkedOfAll(k, j)
           /\ ~ (IsPrime(j) /\ k >= j * j /\ k % j = 0)
<1>1. MarkedOfAll(k, j + 1) <=> MarkedOfAll(k, j) /\ (IsPrime(j) => k = j \/ k % j # 0)
  <2>1. 2 .. (j + 1) - 1 = (2 .. j - 1) \cup {j}
    OBVIOUS
  <2> QED BY <2>1 DEF MarkedOfAll
<1>2. j * j \in Nat /\ j * j > j
  <2>1. PICK z \in Nat : j = z + 2
    OBVIOUS
  <2>2. (z + 2) * (z + 2) = z * z + 4 * z + 4 /\ z * z \in Nat
    OBVIOUS
  <2> QED BY <2>1, <2>2
<1>3. ASSUME MarkedOfAll(k, j), k % j = 0, k # j, k < j * j
      PROVE  FALSE
  <2>1. PICK c \in Nat : k = j * c
    BY <1>3, Multiple
  <2>2. c > 1
    <3>1. c # 0 /\ c # 1
      BY <1>3, <2>1
    <3> QED BY <3>1
  <2>3. c < j
    <3>1. ASSUME c >= j
          PROVE  FALSE
      <4>1. PICK z \in Nat : c = j + z
        BY <3>1
      <4>2. j * (j + z) = j * j + j * z /\ j * z \in Nat
        OBVIOUS
      <4> QED BY <1>2, <1>3, <2>1, <4>1, <4>2
    <3> QED BY <3>1
  <2>4. PICK q \in 2 .. c : IsPrime(q) /\ c % q = 0
    BY <2>2, PrimeDivisor
  <2>5. k % q = 0
    <3>1. k = c * j /\ c \in Nat \ {0} /\ q \in Nat \ {0}
      BY <2>1, <2>2, <2>4
    <3>2. k % c = 0
      BY <3>1, Multiple
    <3> QED BY <2>4, <3>1, <3>2, DivisorOfDivisor
  <2>6. q \in 2 .. j-1 /\ k # q
    <3>1. j <= k
      BY <2>1, <2>2, FactorsBelow
    <3> QED BY <2>3, <2>4, <3>1
  <2> QED BY <1>3, <2>4, <2>5, <2>6 DEF MarkedOfAll
<1> QED BY <1>1, <1>2, <1>3

(* The same for the odd numbers. *)
LEMMA OddMarkedIsPrime ==
  ASSUME NEW x \in Nat, x > 1, x % 2 = 1, NEW b \in Nat,
         \A q \in Nat : q % 2 = 1 /\ q * q <= x => q < b
  PROVE  Marked(x, b) <=> IsPrime(x)
<1>1. ASSUME Marked(x, b), ~ IsPrime(x)
      PROVE  FALSE
  <2>1. PICK q \in 3 .. x-1 : IsPrime(q) /\ q % 2 = 1 /\ x % q = 0 /\ q * q <= x
    BY <1>1, OddPrime
  <2>2. q \in 3 .. b-1 /\ q # x
    BY <1>1, <2>1
  <2> QED BY <1>1, <2>1, <2>2 DEF Marked
<1>2. ASSUME IsPrime(x), NEW q \in 3 .. b-1, x # q, x % q = 0
      PROVE  FALSE
  <2>1. q \in Nat /\ q > 1
    OBVIOUS
  <2> QED BY <1>2, <2>1, PrimeIsNoMultiple
<1> QED BY <1>1, <1>2 DEF Marked

(* The invariant: what is marked between the rounds. *)
StillMarked(x, m) == IF odd THEN Marked(2 * x + 1, 2 * m) ELSE MarkedOfAll(x, m)
Least == IF odd THEN 1 ELSE 2
Remaining == {k \in Least .. Sequential!Size - 1 : IsPrime(Sequential!Number(k))}

SequentialTyped ==
  /\ SizesOK /\ n \in Limits /\ P = 1 /\ odd \in BOOLEAN /\ waiting = {} /\ puts = {}
  /\ pc = [s \in {0} |-> pc[0]] /\ sieve = [s \in {0} |-> sieve[0]]
  /\ primes = [s \in {0} |-> primes[0]] /\ i = [s \in {0} |-> i[0]]
  /\ i[0] \in Least .. n + 1

SequentialInv ==
  /\ SequentialTyped
  /\ \/ /\ pc[0] = "sift" /\ primes[0] = <<>>
        /\ sieve[0] = {k \in Least .. Sequential!Size - 1 : StillMarked(k, i[0])}
     \/ pc[0] = "end" /\ odd /\ sieve[0] = Remaining /\ IsResult(primes[0])
     \/ pc[0] = "marks" /\ ~ odd /\ sieve[0] = Remaining /\ primes[0] = <<>>

LEMMA SequentialSizes ==
  ASSUME SizesOK, odd \in BOOLEAN
  PROVE  /\ Sequential!Size \in Nat \ {0} /\ Sequential!Size <= n
         /\ odd => Sequential!Size = OddsUpTo(n) + 1
         /\ ~ odd => Sequential!Size = n
         /\ CeilSqrt(Sequential!Size) \in 1 .. Sequential!Size
         /\ CeilSqrt(Sequential!Size) * CeilSqrt(Sequential!Size) >= Sequential!Size
<1>1. n \in Nat \ {0, 1}
  BY DEF SizesOK
<1> DEFINE S == Sequential!Size
<1>2. S \in Nat \ {0} /\ S <= n /\ (odd => S = OddsUpTo(n) + 1) /\ (~ odd => S = n)
  BY <1>1 DEF Sequential!Size, OddsUpTo
<1> HIDE DEF S
<1>3. CASE S = 1
  <2>1. CeilSqrt(1) = 1
    <3>1. 1 \in 0 .. 1 /\ 1 * 1 >= 1 /\ (1 - 1) * (1 - 1) < 1
      OBVIOUS
    <3>2. \A r \in 0 .. 1 : r * r >= 1 => r = 1
      OBVIOUS
    <3> QED BY <3>1, <3>2 DEF CeilSqrt
  <2> QED BY <1>2, <1>3, <2>1 DEF S
<1>4. CASE S # 1
  <2>1. S \in Nat \ {0, 1}
    BY <1>2, <1>4
  <2>2. CeilSqrt(S) \in 2 .. S /\ CeilSqrt(S) * CeilSqrt(S) >= S
    BY <2>1, CeilSqrtIs
  <2> QED BY <1>2, <2>1, <2>2 DEF S
<1> QED BY <1>3, <1>4

LEMMA SequentialInitInv == Sequential!Init => SequentialInv
<1> SUFFICES ASSUME Sequential!Init
             PROVE  SequentialInv
  OBVIOUS
<1>1. /\ n \in Limits /\ odd \in BOOLEAN /\ P = 1 /\ waiting = {} /\ puts = {}
      /\ pc = [s \in Procs |-> "sift"] /\ primes = [s \in Procs |-> <<>>]
      /\ sieve = [s \in Procs |-> Least .. Sequential!Size - 1]
      /\ i = [s \in Procs |-> Least]
  BY SequentialNames DEF Sequential!Init, Least
<1>2. n \in Nat \ {0, 1} /\ Procs = {0}
  BY <1>1, LimitsAssumption DEF Procs
<1>3. SizesOK
  BY <1>1, <1>2 DEF SizesOK
<1>4. SequentialTyped
  BY <1>1, <1>2, <1>3 DEF SequentialTyped, Least
<1>5. \A k : StillMarked(k, Least)
  BY DEF StillMarked, Least, Marked, MarkedOfAll
<1>6. pc[0] = "sift" /\ primes[0] = <<>> /\ i[0] = Least /\ sieve[0] = Least .. Sequential!Size - 1
  BY <1>1, <1>2
<1> QED BY <1>4, <1>5, <1>6 DEF SequentialInv

(* A round of the outer loop. *)
LEMMA SequentialRound ==
  ASSUME SizesOK, odd \in BOOLEAN, NEW m \in Nat, m >= Least, m < Sequential!Size,
         NEW R, R = {k \in Least .. Sequential!Size - 1 : StillMarked(k, m)}
  PROVE  (IF m \in R THEN R \ Sequential!Multiples(m) ELSE R)
           = {k \in Least .. Sequential!Size - 1 : StillMarked(k, m + 1)}
<1> DEFINE S == Sequential!Size
<1>t. S \in Nat \ {0} /\ m \in Least .. S - 1 /\ \A k \in Least .. S - 1 : k \in Nat /\ k >= Least
  BY SequentialSizes DEF Least
<1>1. CASE odd
  <2>1. Least = 1
    BY <1>1 DEF Least
  <2>2. m \in R <=> IsPrime(2 * m + 1)
    BY <1>1, <1>t, <2>1, MarkedIsPrime DEF StillMarked
  <2>3. ASSUME NEW k \in Least .. S - 1
        PROVE  StillMarked(k, m + 1) <=>
                 StillMarked(k, m) /\ ~ (IsPrime(2 * m + 1) /\ k \in Sequential!Multiples(m))
    <3>1. 2 * (m + 1) = 2 * m + 2 /\ k \in Nat /\ k >= 1 /\ k <= S - 1
      BY <1>t, <2>1
    <3>2. k \in Sequential!Multiples(m) <=> k >= 3 * m + 1 /\ (k - m) % (2 * m + 1) = 0
      BY <1>1, <1>t, <3>1 DEF Sequential!Multiples
    <3>3. Marked(2 * k + 1, 2 * m + 2) <=>
           /\ Marked(2 * k + 1, 2 * m)
           /\ ~ (IsPrime(2 * m + 1) /\ k >= 3 * m + 1 /\ (k - m) % (2 * m + 1) = 0)
      BY <2>1, <3>1, SmallRound
    <3> QED BY <1>1, <3>1, <3>2, <3>3 DEF StillMarked
  <2> HIDE DEF S
  <2> QED BY <2>2, <2>3 DEF S
<1>2. CASE ~ odd
  <2>1. Least = 2
    BY <1>2 DEF Least
  <2>2. m \in R <=> IsPrime(m)
    <3>1. \A q \in Nat : q * q <= m => q < m
      <4> SUFFICES ASSUME NEW q \in Nat, q * q <= m, q >= m
                   PROVE  FALSE
        OBVIOUS
      <4>1. PICK y \in Nat, z \in Nat : m = y + 2 /\ q = m + z
        BY <2>1
      <4>2. (y + 2 + z) * (y + 2 + z) = y * y + z * z + 2 * (y * z) + 4 * y + 4 * z + 4
            /\ y * y \in Nat /\ z * z \in Nat /\ y * z \in Nat
        OBVIOUS
      <4> QED BY <4>1, <4>2
    <3> QED BY <1>2, <1>t, <2>1, <3>1, MarkedOfAllIsPrime DEF StillMarked
  <2>3. ASSUME NEW k \in Least .. S - 1
        PROVE  StillMarked(k, m + 1) <=>
                 StillMarked(k, m) /\ ~ (IsPrime(m) /\ k \in Sequential!Multiples(m))
    <3>1. k \in Nat /\ k >= 2 /\ k <= S - 1 /\ m * m \in Nat
      BY <1>t, <2>1
    <3>2. k \in Sequential!Multiples(m) <=> k >= m * m /\ k % m = 0
      BY <1>2, <1>t, <3>1 DEF Sequential!Multiples
    <3>3. MarkedOfAll(k, m + 1) <=>
            MarkedOfAll(k, m) /\ ~ (IsPrime(m) /\ k >= m * m /\ k % m = 0)
      BY <2>1, <3>1, RoundOfAll
    <3> QED BY <1>2, <3>2, <3>3 DEF StillMarked
  <2> HIDE DEF S
  <2> QED BY <2>2, <2>3 DEF S
<1> QED BY <1>1, <1>2

(* Where the loops stop, what is marked is prime. *)
LEMMA SequentialIsDone ==
  ASSUME SizesOK, odd \in BOOLEAN, NEW m \in Nat, m >= CeilSqrt(Sequential!Size)
  PROVE  {k \in Least .. Sequential!Size - 1 : StillMarked(k, m)} = Remaining
<1> DEFINE S == Sequential!Size
           C == CeilSqrt(S)
<1>t. S \in Nat \ {0} /\ C \in Nat /\ C * C >= S /\ C * C \in Nat
  BY SequentialSizes
<1> HIDE DEF S, C
<1>m. m >= C
  BY DEF S, C
<1>1. ASSUME NEW k \in Least .. S - 1
      PROVE  StillMarked(k, m) <=> IsPrime(Sequential!Number(k))
  <2>1. CASE odd
    <3>1. k \in Nat /\ k >= 1 /\ k <= S - 1 /\ 2 * k + 1 \in Nat /\ 2 * k + 1 > 1
          /\ (2 * k + 1) % 2 = 1 /\ 2 * m \in Nat
      BY <1>t, <2>1 DEF Least
    <3>2. ASSUME NEW q \in Nat, q * q <= 2 * k + 1
          PROVE  q < 2 * m
      <4>1. (2 * C) * (2 * C) = 4 * (C * C) /\ 2 * C \in Nat /\ q * q \in Nat
        BY <1>t
      <4>2. q * q < (2 * C) * (2 * C)
        BY <1>t, <3>1, <3>2, <4>1
      <4>3. q < 2 * C
        BY <4>1, <4>2, SquaresGrow
      <4> QED BY <1>t, <1>m, <4>3
    <3>3. Marked(2 * k + 1, 2 * m) <=> IsPrime(2 * k + 1)
      BY <3>1, <3>2, OddMarkedIsPrime
    <3> QED BY <2>1, <3>3 DEF StillMarked, Sequential!Number
  <2>2. CASE ~ odd
    <3>1. k \in Nat /\ k > 1 /\ k <= S - 1
      BY <1>t, <2>2 DEF Least
    <3>2. ASSUME NEW q \in Nat, q * q <= k
          PROVE  q < m
      <4>1. q * q \in Nat /\ q * q < C * C
        BY <1>t, <3>1, <3>2
      <4>2. q < C
        BY <1>t, <4>1, SquaresGrow
      <4> QED BY <1>t, <1>m, <4>2
    <3>3. MarkedOfAll(k, m) <=> IsPrime(k)
      BY <3>1, <3>2, MarkedOfAllIsPrime
    <3> QED BY <2>2, <3>3 DEF StillMarked, Sequential!Number
  <2> QED BY <2>1, <2>2
<1> QED BY <1>1 DEF Remaining, S

(* The list of test_validity: what is marked, by rank. *)
LEMMA ExtractedIsResult ==
  ASSUME SizesOK, odd = TRUE, NEW R, R = Remaining,
         NEW list, list = [k \in 0 .. Cardinality(R) |->
           IF k = 0 THEN 2
           ELSE Sequential!Number(CHOOSE j \in R : Cardinality({m \in R : m <= j}) = k)]
  PROVE  IsResult(list)
<1>t. /\ Sequential!Size = OddsUpTo(n) + 1 /\ OddsUpTo(n) \in Nat /\ Least = 1
      /\ IsFiniteSet(Found) /\ Cardinality(Found) \in Nat /\ Found \subseteq Nat
  BY SequentialSizes, FoundIs DEF Least
<1>1. R = {k + 1 : k \in Found}
  <2>1. ASSUME NEW j \in R
        PROVE  j - 1 \in Found /\ j = (j - 1) + 1
    <3>1. j \in 1 .. OddsUpTo(n) /\ IsPrime(2 * j + 1)
      BY <1>t DEF Remaining, Sequential!Number
    <3>2. 2 * j + 1 = 2 * (j - 1) + 3 /\ j - 1 \in 0 .. OddsUpTo(n) - 1
      BY <3>1, <1>t
    <3> QED BY <3>1, <3>2 DEF Found, NumberAt
  <2>2. ASSUME NEW k \in Found
        PROVE  k + 1 \in R
    <3>1. k \in 0 .. OddsUpTo(n) - 1 /\ IsPrime(2 * k + 3)
      BY DEF Found, NumberAt
    <3>2. 2 * (k + 1) + 1 = 2 * k + 3 /\ k + 1 \in 1 .. (OddsUpTo(n) + 1) - 1
      BY <3>1, <1>t
    <3> QED BY <1>t, <3>1, <3>2 DEF Remaining, Sequential!Number
  <2> QED BY <2>1, <2>2
<1>2. \A T \in SUBSET Found : Cardinality({k + 1 : k \in T}) = Cardinality(T)
  <2> TAKE T \in SUBSET Found
  <2> DEFINE f == [k \in T |-> k + 1]
             U == {k + 1 : k \in T}
  <2>1. f \in Bijection(T, U)
    <3>1. f \in [T -> U] /\ \A u \in U : \E k \in T : f[k] = u
      OBVIOUS
    <3>2. \A j, k \in T : f[j] = f[k] => j = k
      BY <1>t
    <3> QED BY <3>1, <3>2 DEF Bijection, Injection, Surjection, IsInjective
  <2>2. IsFiniteSet(T)
    BY <1>t, FS_Subset
  <2> HIDE DEF f, U
  <2>3. Cardinality(U) = Cardinality(T)
    BY <2>1, <2>2, FS_Bijection DEF ExistsBijection
  <2> QED BY <2>3 DEF U
<1>3. Cardinality(R) = Cardinality(Found)
  BY <1>1, <1>2
<1>4. ASSUME NEW k \in Found
      PROVE  Cardinality({m \in R : m <= k + 1}) = Rank(k)
  <2>1. {m \in R : m <= k + 1} = {j + 1 : j \in {j \in Found : j <= k}}
    BY <1>1, <1>t
  <2> QED BY <1>2, <2>1 DEF Rank
<1>5. ASSUME NEW k \in Found
      PROVE  list[Rank(k)] = NumberAt(k)
  <2>1. Rank(k) \in 1 .. Cardinality(Found)
    BY RanksAre
  <2>2. PICK c : c = CHOOSE j \in R : Cardinality({m \in R : m <= j}) = Rank(k)
    OBVIOUS
  <2>3. k + 1 \in R /\ Cardinality({m \in R : m <= k + 1}) = Rank(k)
    BY <1>1, <1>4
  <2>4. c \in R /\ Cardinality({m \in R : m <= c}) = Rank(k)
    BY <2>2, <2>3
  <2>5. PICK j \in Found : c = j + 1
    BY <1>1, <2>4
  <2>6. j = k
    BY <1>4, <2>4, <2>5, RanksAre
  <2>7. list[Rank(k)] = Sequential!Number(c)
    BY <1>3, <1>t, <2>1, <2>2
  <2>8. k \in Nat /\ 2 * (k + 1) + 1 = 2 * k + 3
    BY <1>t
  <2> QED BY <2>5, <2>6, <2>7, <2>8 DEF Sequential!Number, NumberAt
<1>6. DOMAIN list = 0 .. Cardinality(Found) /\ list[0] = 2
  BY <1>3, <1>t
<1> QED BY <1>5, <1>6 DEF IsResult

LEMMA SequentialTypedRests ==
  ASSUME SequentialTyped, UNCHANGED <<n, P, waiting, puts, odd>>
  PROVE  /\ SizesOK' /\ n' \in Limits /\ P' = 1 /\ odd' \in BOOLEAN /\ waiting' = {} /\ puts' = {}
         /\ Least' = Least /\ Sequential!Size' = Sequential!Size /\ Remaining' = Remaining
         /\ \A k, m : StillMarked(k, m)' <=> StillMarked(k, m)
BY Rests DEF SequentialTyped, Least, Sequential!Size, Remaining, Sequential!Number, IsPrime,
     StillMarked, Marked, MarkedOfAll

LEMMA SequentialNext ==
  ASSUME SequentialInv, [Sequential!Next]_(Sequential!vars)
  PROVE  SequentialInv'
<1>t. /\ SequentialTyped /\ SizesOK /\ odd \in BOOLEAN /\ 0 \in {0}
      /\ n \in Nat /\ i[0] \in Nat /\ i[0] >= Least /\ i[0] <= n + 1
      /\ Sequential!Size \in Nat /\ Sequential!Size <= n
      /\ CeilSqrt(Sequential!Size) \in 1 .. Sequential!Size
      /\ Least \in {1, 2}
  BY SequentialSizes DEF SequentialInv, SequentialTyped, SizesOK, Least
<1>1. ASSUME Sequential!Sift
      PROVE  SequentialInv'
  <2>1. /\ pc[0] = "sift" /\ i[0] < CeilSqrt(Sequential!Size)
        /\ sieve' = [sieve EXCEPT ![0] =
             IF i[0] \in @ THEN @ \ Sequential!Multiples(i[0]) ELSE @]
        /\ i' = [i EXCEPT ![0] = @ + 1]
        /\ UNCHANGED <<n, P, pc, waiting, primes, puts, odd>>
    BY <1>1, SequentialNames DEF Sequential!Sift
  <2>2. /\ primes[0] = <<>>
        /\ sieve[0] = {k \in Least .. Sequential!Size - 1 : StillMarked(k, i[0])}
    BY <2>1 DEF SequentialInv
  <2>3. i'[0] = i[0] + 1 /\ i' = [s \in {0} |-> i'[0]] /\ i[0] < Sequential!Size
    <3>1. i = [s \in {0} |-> i[0]]
      BY <1>t DEF SequentialTyped
    <3>2. i' = [s \in {0} |-> i[0] + 1]
      BY <2>1, <3>1
    <3>3. i'[0] = i[0] + 1
      BY <3>2
    <3>4. i[0] < Sequential!Size
      BY <1>t, <2>1
    <3> QED BY <3>2, <3>3, <3>4
  <2>4. /\ sieve' = [s \in {0} |-> sieve'[0]]
        /\ sieve'[0] = IF i[0] \in sieve[0] THEN sieve[0] \ Sequential!Multiples(i[0]) ELSE sieve[0]
    <3>1. sieve = [s \in {0} |-> sieve[0]]
      BY <1>t DEF SequentialTyped
    <3> QED BY <2>1, <3>1
  <2>5. sieve'[0] = {k \in Least .. Sequential!Size - 1 : StillMarked(k, i[0] + 1)}
    <3> DEFINE R == sieve[0]
    <3> HIDE DEF R
    <3>1. (IF i[0] \in R THEN R \ Sequential!Multiples(i[0]) ELSE R)
            = {k \in Least .. Sequential!Size - 1 : StillMarked(k, i[0] + 1)}
      BY <1>t, <2>2, <2>3, SequentialRound DEF R
    <3> QED BY <2>4, <3>1 DEF R
  <2>6. SequentialTyped'
    <3>1. pc' = [s \in {0} |-> pc'[0]] /\ primes' = [s \in {0} |-> primes'[0]]
      BY <1>t, <2>1 DEF SequentialTyped
    <3>2. i'[0] \in Least .. n + 1
      BY <1>t, <2>3
    <3> QED BY <1>t, <2>1, <2>3, <2>4, <3>1, <3>2, SequentialTypedRests DEF SequentialTyped
  <2>7. (sieve[0] = {k \in Least .. Sequential!Size - 1 : StillMarked(k, i[0])})'
    BY <1>t, <2>1, <2>3, <2>5, SequentialTypedRests
  <2> QED BY <2>1, <2>2, <2>6, <2>7 DEF SequentialInv
<1>d. ASSUME pc[0] = "sift", i[0] >= CeilSqrt(Sequential!Size)
      PROVE  sieve[0] = Remaining /\ primes[0] = <<>>
  BY <1>d, <1>t, SequentialIsDone DEF SequentialInv
<1>2. ASSUME Sequential!Extract
      PROVE  SequentialInv'
  <2>1. /\ pc[0] = "sift" /\ i[0] >= CeilSqrt(Sequential!Size) /\ odd = TRUE
        /\ pc' = [pc EXCEPT ![0] = "end"]
        /\ UNCHANGED <<n, P, waiting, sieve, puts, i, odd>>
    BY <1>2, <1>t, SequentialNames DEF Sequential!Extract
  <2>2. primes' = [primes EXCEPT ![0] =
          [k \in 0 .. Cardinality(sieve[0]) |->
             IF k = 0 THEN 2
             ELSE Sequential!Number(CHOOSE j \in sieve[0] :
                                      Cardinality({m \in sieve[0] : m <= j}) = k)]]
    <3> DEFINE Old(k) == IF k = 0 THEN 2
                         ELSE Sequential!Number(CHOOSE j \in sieve[0] :
                                Sequential!Cardinality({m \in sieve[0] : m <= j}) = k)
               New(k) == IF k = 0 THEN 2
                         ELSE Sequential!Number(CHOOSE j \in sieve[0] :
                                Cardinality({m \in sieve[0] : m <= j}) = k)
    <3>1. \A S : Sequential!Cardinality(S) = Cardinality(S)
      BY SequentialNames
    <3>2. \A k : Old(k) = New(k)
      BY Zenon DEF Cardinality, Sequential!Cardinality
    <3>3. primes' = [primes EXCEPT ![0] =
            [k \in 0 .. Sequential!Cardinality(sieve[0]) |-> Old(k)]]
      BY <1>2, Zenon DEF Sequential!Extract
    <3> HIDE DEF Old, New
    <3>4. [k \in 0 .. Sequential!Cardinality(sieve[0]) |-> Old(k)]
            = [k \in 0 .. Cardinality(sieve[0]) |-> New(k)]
      BY <3>1, <3>2
    <3>5. primes' = [primes EXCEPT ![0] = [k \in 0 .. Cardinality(sieve[0]) |-> New(k)]]
      BY <3>3, <3>4
    <3> QED BY <3>5 DEF New
  <2>3. /\ primes' = [s \in {0} |-> primes'[0]]
        /\ primes'[0] = [k \in 0 .. Cardinality(sieve[0]) |->
             IF k = 0 THEN 2
             ELSE Sequential!Number(CHOOSE j \in sieve[0] :
                                      Cardinality({m \in sieve[0] : m <= j}) = k)]
    <3>1. primes = [s \in {0} |-> primes[0]]
      BY <1>t DEF SequentialTyped
    <3> QED BY <2>2, <3>1
  <2>4. sieve[0] = Remaining
    BY <1>d, <2>1
  <2>5. IsResult(primes'[0])
    BY <1>t, <2>1, <2>3, <2>4, ExtractedIsResult
  <2>6. IsResult(primes[0])'
    <3>1. Found' = Found /\ \A k : Rank(k)' = Rank(k)
      BY <2>1, Rests
    <3> QED BY <2>5, <3>1 DEF IsResult, NumberAt
  <2>7. pc' = [s \in {0} |-> pc'[0]] /\ pc'[0] = "end"
    <3>1. pc = [s \in {0} |-> pc[0]]
      BY <1>t DEF SequentialTyped
    <3> QED BY <2>1, <3>1
  <2>8. SequentialTyped'
    <3>1. sieve' = [s \in {0} |-> sieve'[0]] /\ i' = [s \in {0} |-> i'[0]] /\ i'[0] \in Least .. n + 1
      BY <1>t, <2>1 DEF SequentialTyped
    <3> QED BY <1>t, <2>1, <2>3, <2>7, <3>1, SequentialTypedRests DEF SequentialTyped
  <2>9. sieve'[0] = Remaining' /\ odd'
    BY <1>t, <2>1, <2>4, SequentialTypedRests
  <2> QED BY <2>6, <2>7, <2>8, <2>9 DEF SequentialInv
<1>3. ASSUME Sequential!ReturnMarks
      PROVE  SequentialInv'
  <2>1. /\ pc[0] = "sift" /\ i[0] >= CeilSqrt(Sequential!Size) /\ ~ odd
        /\ pc' = [pc EXCEPT ![0] = "marks"]
        /\ UNCHANGED <<n, P, waiting, sieve, primes, puts, i, odd>>
    BY <1>3, SequentialNames DEF Sequential!ReturnMarks
  <2>2. sieve[0] = Remaining /\ primes[0] = <<>>
    BY <1>d, <2>1
  <2>3. pc' = [s \in {0} |-> pc'[0]] /\ pc'[0] = "marks"
    <3>1. pc = [s \in {0} |-> pc[0]]
      BY <1>t DEF SequentialTyped
    <3> QED BY <2>1, <3>1
  <2>4. SequentialTyped'
    <3>1. sieve' = [s \in {0} |-> sieve'[0]] /\ i' = [s \in {0} |-> i'[0]] /\ i'[0] \in Least .. n + 1
          /\ primes' = [s \in {0} |-> primes'[0]]
      BY <1>t, <2>1 DEF SequentialTyped
    <3> QED BY <1>t, <2>1, <2>3, <3>1, SequentialTypedRests DEF SequentialTyped
  <2>5. sieve'[0] = Remaining' /\ ~ odd' /\ primes'[0] = <<>>
    BY <1>t, <2>1, <2>2, SequentialTypedRests
  <2> QED BY <2>3, <2>4, <2>5 DEF SequentialInv
<1>4. ASSUME UNCHANGED Sequential!vars
      PROVE  SequentialInv'
  <2>1. UNCHANGED <<n, P, pc, waiting, sieve, primes, puts, i, odd>>
    BY <1>4 DEF Sequential!vars
  <2>2. SequentialTyped'
    <3>1. /\ pc' = [s \in {0} |-> pc'[0]] /\ sieve' = [s \in {0} |-> sieve'[0]]
          /\ primes' = [s \in {0} |-> primes'[0]] /\ i' = [s \in {0} |-> i'[0]]
          /\ i'[0] \in Least .. n + 1
      BY <1>t, <2>1 DEF SequentialTyped
    <3> QED BY <1>t, <2>1, <3>1, SequentialTypedRests DEF SequentialTyped
  <2>3. IsResult(primes[0]) => IsResult(primes[0])'
    BY <2>1, Rests DEF IsResult, NumberAt
  <2>4. Least' = Least /\ Sequential!Size' = Sequential!Size /\ Remaining' = Remaining
        /\ \A k, m : StillMarked(k, m)' <=> StillMarked(k, m)
    BY <1>t, <2>1, SequentialTypedRests
  <2>5. (sieve[0] = {k \in Least .. Sequential!Size - 1 : StillMarked(k, i[0])})'
          <=> sieve[0] = {k \in Least .. Sequential!Size - 1 : StillMarked(k, i[0])}
    BY <2>1, <2>4
  <2> QED BY <2>1, <2>2, <2>3, <2>4, <2>5 DEF SequentialInv
<1> QED BY <1>1, <1>2, <1>3, <1>4 DEF Sequential!Next, Sequential!Finished

LEMMA SequentialAlways == Sequential!Spec => []SequentialInv
<1>1. Sequential!Init => SequentialInv
  BY SequentialInitInv
<1>2. SequentialInv /\ [Sequential!Next]_(Sequential!vars) => SequentialInv'
  BY SequentialNext
<1> QED BY <1>1, <1>2, PTL DEF Sequential!Spec

(* The list test_validity makes of sieve_non_even holds all primes up to
   the limit, in ascending order. *)
THEOREM SequentialDeliversAllPrimes == Sequential!Spec => []DeliversAllPrimes
<1>1. ASSUME SequentialInv
      PROVE  DeliversAllPrimes
  <2> SUFFICES ASSUME pc[0] \in {"end", "return"}, waiting = {}
               PROVE  /\ {primes[0][k] : k \in DOMAIN primes[0]} = PrimesUpTo(n)
                      /\ \A j, k \in DOMAIN primes[0] : j < k => primes[0][j] < primes[0][k]
    BY DEF DeliversAllPrimes
  <2>1. IsResult(primes[0]) /\ SizesOK
    BY <1>1 DEF SequentialInv, SequentialTyped
  <2> DEFINE list == primes[0]
  <2> HIDE DEF list
  <2>2. /\ {list[k] : k \in DOMAIN list} = PrimesUpTo(n)
        /\ \A j, k \in DOMAIN list : j < k => list[j] < list[k]
    BY <2>1, ResultIsPrimes DEF list
  <2> QED BY <2>2 DEF list
<1> QED BY <1>1, SequentialAlways, PTL

(* Between the rounds of both sequential sieves exactly the proper
   multiples of the primes below the current number have lost their marks,
   and when they stop exactly the primes are marked. *)
THEOREM SequentialSieves == Sequential!Spec => []Sequential!SieveInv
<1>1. ASSUME SequentialInv
      PROVE  Sequential!SieveInv
  <2>t. /\ SizesOK /\ odd \in BOOLEAN /\ n \in Nat /\ i[0] \in Nat /\ i[0] >= Least
        /\ i[0] <= n + 1 /\ Least \in {1, 2} /\ Sequential!Size \in Nat \ {0}
        /\ (odd => Least = 1) /\ (~ odd => Least = 2)
    BY <1>1, SequentialSizes DEF SequentialInv, SequentialTyped, SizesOK, Least
  <2>1. i[0] \in 1 .. n + 1
    BY <2>t
  <2>2. ASSUME pc[0] = "sift"
        PROVE  sieve[0] = {k \in 1 .. Sequential!Size - 1 :
                 /\ Sequential!Number(k) > 1
                 /\ \A q \in 2 .. Sequential!Number(i[0]) - 1 :
                      IsPrime(q) /\ (odd => q # 2) =>
                        Sequential!Number(k) = q \/ Sequential!Number(k) % q # 0}
    <3>1. sieve[0] = {k \in Least .. Sequential!Size - 1 : StillMarked(k, i[0])}
      BY <1>1, <2>2 DEF SequentialInv
    <3>2. CASE odd
      <4>1. \A q \in 2 .. 2 * i[0] : IsPrime(q) /\ q # 2 => q \in 3 .. 2 * i[0] - 1
        <5> SUFFICES ASSUME NEW q \in 2 .. 2 * i[0], IsPrime(q), q # 2
                     PROVE  q # 2 * i[0]
          BY <2>t
        <5>1. q \in Nat /\ q >= 3 /\ q % 2 = 1
          BY <2>t, PrimesAreOdd
        <5> QED BY <2>t, <5>1
      <4>2. \A q \in 3 .. 2 * i[0] - 1 : q \in 2 .. 2 * i[0] /\ q # 2
        BY <2>t
      <4>3. \A k \in 1 .. Sequential!Size - 1 : 2 * k + 1 > 1
        BY <2>t
      <4>4. \A x : Marked(x, 2 * i[0]) <=>
                     \A q \in 2 .. 2 * i[0] : IsPrime(q) /\ q # 2 => x = q \/ x % q # 0
        BY <4>1, <4>2 DEF Marked
      <4>5. 2 * i[0] = (2 * i[0] + 1) - 1
        BY <2>t
      <4> QED BY <2>t, <3>1, <3>2, <4>3, <4>4, <4>5 DEF StillMarked, Sequential!Number
    <3>3. CASE ~ odd
      <4>1. \A k : k \in 2 .. Sequential!Size - 1 <=> k \in 1 .. Sequential!Size - 1 /\ k > 1
        BY <2>t
      <4> QED BY <2>t, <3>1, <3>3, <4>1 DEF StillMarked, MarkedOfAll, Sequential!Number
    <3> QED BY <3>2, <3>3
  <2>3. ASSUME pc[0] # "sift"
        PROVE  {Sequential!Number(k) : k \in sieve[0]}
                 = PrimesUpTo(Sequential!Number(Sequential!Size - 1)) \ (IF odd THEN {2} ELSE {})
    <3>1. sieve[0] = Remaining
      BY <1>1, <2>3 DEF SequentialInv
    <3> DEFINE S == Sequential!Size
    <3> HIDE DEF S
    <3>s. S \in Nat \ {0} /\ Remaining = {k \in Least .. S - 1 : IsPrime(Sequential!Number(k))}
      BY <2>t DEF S, Remaining
    <3>2. CASE odd
      <4>1. ASSUME NEW k \in Remaining
            PROVE  2 * k + 1 \in PrimesUpTo(2 * (S - 1) + 1) \ {2}
        BY <2>t, <3>s, <3>2 DEF PrimesUpTo, Sequential!Number
      <4>2. ASSUME NEW q \in PrimesUpTo(2 * (S - 1) + 1) \ {2}
            PROVE  \E k \in Remaining : q = 2 * k + 1
        <5>1. q \in Nat /\ q >= 3 /\ q <= 2 * (S - 1) + 1 /\ IsPrime(q)
          BY <3>s DEF PrimesUpTo
        <5>2. q % 2 = 1
          BY <5>1, PrimesAreOdd
        <5>3. PICK k \in Nat : q = 2 * k + 1
          <6>1. (q - 1) \div 2 \in Nat /\ q = 2 * ((q - 1) \div 2) + 1
            BY <5>1, <5>2
          <6> QED BY <6>1
        <5>4. k \in 1 .. S - 1
          BY <3>s, <5>1, <5>3
        <5> QED BY <2>t, <3>s, <3>2, <5>1, <5>3, <5>4 DEF Sequential!Number
      <4>3. {2 * k + 1 : k \in Remaining} = PrimesUpTo(2 * (S - 1) + 1) \ {2}
        BY <4>1, <4>2
      <4> QED BY <3>1, <3>2, <4>3 DEF S, Sequential!Number
    <3>3. CASE ~ odd
      <4>1. {k : k \in Remaining} = PrimesUpTo(S - 1) \ {}
        BY <2>t, <3>s, <3>3 DEF PrimesUpTo, Sequential!Number
      <4> QED BY <3>1, <3>3, <4>1 DEF S, Sequential!Number
    <3> QED BY <3>2, <3>3
  <2> QED BY <2>1, <2>2, <2>3, SequentialNames DEF Sequential!SieveInv
<1> QED BY <1>1, SequentialAlways, PTL
----
(* The three programs together, as the runs have them. *)

(* A behaviour is one of the sieve that it began with. *)
LEMMA OneSieveRuns ==
  Spec => \/ Parallel!Spec /\ [](program = "parallel")
          \/ Iterative!Spec /\ [](program = "iterative")
          \/ Sequential!Spec /\ [](program = "sequential")
<1>1. Init => \/ program = "parallel" /\ Parallel!Init
              \/ program = "iterative" /\ Iterative!Init
              \/ program = "sequential" /\ Sequential!Init
  BY DEF Init
<1>2. program = "parallel" /\ [Next]_vars
        => (program = "parallel")' /\ [Parallel!Next]_(Parallel!vars)
  BY DEF Next, vars, Parallel!vars
<1>3. program = "iterative" /\ [Next]_vars
        => (program = "iterative")' /\ [Iterative!Next]_(Iterative!vars)
  BY DEF Next, vars, Iterative!vars
<1>4. program = "sequential" /\ [Next]_vars
        => (program = "sequential")' /\ [Sequential!Next]_(Sequential!vars)
  BY DEF Next, vars, Sequential!vars
<1>5. Spec => Init /\ [][Next]_vars
  BY PTL DEF Spec
<1> QED BY <1>1, <1>2, <1>3, <1>4, <1>5, PTL DEF Parallel!Spec, Iterative!Spec, Sequential!Spec

(* What the sieving loop of each of the three programs maintains. *)
THEOREM SievesHold == Spec => []SieveInv
<1>1. program = "parallel" /\ Parallel!SieveInv => SieveInv
  BY DEF SieveInv
<1>2. program = "iterative" /\ Iterative!SieveInv /\ Iterative!SearchStaysInBlock => SieveInv
  BY DEF SieveInv
<1>3. program = "sequential" /\ Sequential!SieveInv => SieveInv
  BY DEF SieveInv
<1> QED
  BY <1>1, <1>2, <1>3, OneSieveRuns, ParallelSieves, IterativeSieves,
     IterativeSearchStaysInBlock, SequentialSieves, PTL

(* The processes of the iterative sieve call bsp_sync equally often. *)
THEOREM SuperstepsHold == Spec => []SuperstepsMatch
<1>1. program # "iterative" => SuperstepsMatch
  BY DEF SuperstepsMatch
<1>2. Iterative!SuperstepsMatch => SuperstepsMatch
  BY DEF SuperstepsMatch
<1>3. program = "parallel" => program # "iterative"
  OBVIOUS
<1>4. program = "sequential" => program # "iterative"
  OBVIOUS
<1> QED BY <1>1, <1>2, <1>3, <1>4, OneSieveRuns, IterativeSuperstepsMatch, PTL

(* No two puts of a superstep write the same element, in any program. *)
THEOREM PutsHold == Spec => []PutsAreSafe
<1>1. SequentialInv => PutsAreSafe
  BY DEF SequentialInv, SequentialTyped, PutsAreSafe
<1> QED BY <1>1, OneSieveRuns, ParallelPutsAreSafe, IterativePutsAreSafe, SequentialAlways, PTL

(* Every program delivers the primes up to the limit, in ascending order. *)
THEOREM PrimesDelivered == Spec => []DeliversAllPrimes
BY OneSieveRuns, ParallelDeliversAllPrimes, IterativeDeliversAllPrimes,
   SequentialDeliversAllPrimes, PTL
====
