------------------------- MODULE ClockServer_proofs -------------------------
(***************************************************************************)
(* Proofs about ClockServer, for any clock domains, registries, skews,     *)
(* rate matchers and callbacks: the base frequency is the least common     *)
(* multiple of the registered frequencies, no registry runs a period ahead *)
(* of another, no time event is lost, the writers are called after the     *)
(* modules, and the server implements ClockContract.                       *)
(***************************************************************************)
EXTENDS ClockServer, FiniteSetTheorems, WellFoundedInduction, TLAPS

-----------------------------------------------------------------------------
(* Divisors *)

\* A set of natural numbers has a least one.
LEMMA Least ==
    ASSUME NEW S \in SUBSET Nat, S # {}
    PROVE  \E n \in S : \A m \in S : n <= m
<1> DEFINE R == {x \in Nat \X Nat : x[1] < x[2]}
<1>1. OpToRel(<, Nat) = R
  BY DEF OpToRel
<1>2. IsWellFoundedOn(R, Nat)
  BY <1>1, NatLessThanWellFounded
<1>3. PICK n \in S : \A m \in S : ~(<<m, n>> \in R)
  <2> HIDE DEF R
  <2> QED BY <1>2, WFMin
<1>4. ASSUME NEW m \in S PROVE n <= m
  <2>1. <<m, n>> \in Nat \X Nat /\ m \in Nat /\ n \in Nat
    OBVIOUS
  <2>2. ~(m < n)
    BY <1>3, <2>1
  <2> QED BY <2>1, <2>2
<1> QED BY <1>4

Divides(d, n) == \E k \in Nat : n = d * k

Common(a, b) == {d \in Nat \ {0} : Divides(d, a) /\ Divides(d, b)}

IsGreatest(g, S) == g \in S /\ \A d \in S : d <= g

Gcd(a, b) == IF a = 0 /\ b = 0 THEN 0 ELSE CHOOSE g : IsGreatest(g, Common(a, b))

\* What the remainder is.
LEMMA Remainder ==
    ASSUME NEW a \in Nat, NEW b \in Nat \ {0}
    PROVE  \E q, r \in Nat : r = a % b /\ r < b /\ a = b * q + r
<1>1. PICK q, r : q = a \div b /\ r = a % b
  OBVIOUS
<1>2. q \in Nat /\ r \in 0..b - 1
  BY <1>1
<1>3. a = b * q + r
  BY <1>1, <1>2
<1>4. q \in Nat /\ r \in Nat /\ r < b
  BY <1>2
<1> QED BY <1>1, <1>3, <1>4, Zenon

\* A number and its remainder have the same divisors in common with the other.
LEMMA SameDivisors ==
    ASSUME NEW a \in Nat, NEW b \in Nat \ {0}
    PROVE  Common(a, b) = Common(b, a % b)
<1>2. PICK q, r \in Nat : r = a % b /\ r < b /\ a = b * q + r
  BY Remainder
<1>3. a = b * q + r
  BY <1>2
<1>4. ASSUME NEW d \in Nat \ {0}, Divides(d, b), Divides(d, r) PROVE Divides(d, a)
  <2>1. PICK k \in Nat, l \in Nat : b = d * k /\ r = d * l
    BY <1>4 DEF Divides
  <2>2. a = d * (k * q + l) /\ k * q + l \in Nat
    BY <1>3, <2>1
  <2> QED BY <2>2 DEF Divides
<1>5. ASSUME NEW d \in Nat \ {0}, Divides(d, b), Divides(d, a) PROVE Divides(d, r)
  <2>1. PICK k \in Nat, l \in Nat : b = d * k /\ a = d * l
    BY <1>5 DEF Divides
  <2>2. PICK m \in Int : m = l - k * q
    OBVIOUS
  <2>3. k * q \in Nat /\ d * (k * q) = b * q
    BY <2>1
  <2>4. r = d * m
    <3>1. d * m = d * l - d * (k * q)
      BY <2>2, <2>3
    <3> QED BY <1>3, <2>1, <2>3, <3>1
  <2>5. m >= 0
    <3>1. ASSUME m < 0 PROVE FALSE
      <4>1. d * m < 0
        BY <3>1
      <4> QED BY <2>4, <4>1
    <3> QED BY <3>1
  <2> QED BY <2>4, <2>5 DEF Divides
<1> QED BY <1>2, <1>4, <1>5 DEF Common

\* There is a greatest common divisor.
LEMMA GreatestExists ==
    ASSUME NEW a \in Nat, NEW b \in Nat, a # 0 \/ b # 0
    PROVE  IsGreatest(Gcd(a, b), Common(a, b))
<1>1. PICK n \in Nat \ {0} : Common(a, b) \subseteq 1..n
  <2>1. ASSUME NEW n \in Nat \ {0}, NEW d \in Nat \ {0}, Divides(d, n) PROVE d <= n
    <3>1. PICK k \in Nat : n = d * k
      BY <2>1 DEF Divides
    <3>2. k >= 1
      BY <3>1
    <3> QED BY <3>1, <3>2
  <2> QED BY <2>1 DEF Common
<1>2. 1 \in Common(a, b)
  BY DEF Common, Divides
<1> DEFINE S == {m \in Nat : n - m \in Common(a, b)}
<1>3. S # {} /\ S \subseteq Nat
  <2>1. n - 1 \in Nat /\ n - (n - 1) = 1
    OBVIOUS
  <2> QED BY <1>2, <2>1
<1>4. PICK m \in S : \A k \in S : m <= k
  <2> HIDE DEF S
  <2> QED BY <1>3, Least
<1>5. IsGreatest(n - m, Common(a, b))
  <2>1. ASSUME NEW d \in Common(a, b) PROVE d <= n - m
    <3>1. d \in 1..n /\ n - (n - d) = d /\ n - d \in Nat
      BY <1>1
    <3>2. m <= n - d
      BY <1>4, <3>1
    <3> QED BY <3>1, <3>2
  <2> QED BY <1>4, <2>1 DEF IsGreatest
<1> QED BY <1>5 DEF Gcd

\* The greatest common divisor of a number and 0.
LEMMA GcdOfZero ==
    ASSUME NEW a \in Nat
    PROVE  Gcd(a, 0) = a
<1>1. CASE a # 0
  <2>1. a \in Common(a, 0)
    <3>1. a = a * 1 /\ 0 = a * 0
      OBVIOUS
    <3> QED BY <1>1, <3>1 DEF Common, Divides
  <2>2. IsGreatest(Gcd(a, 0), Common(a, 0))
    BY <1>1, GreatestExists
  <2>3. ASSUME NEW d \in Common(a, 0) PROVE d <= a
    <3>1. PICK k \in Nat : a = d * k
      BY DEF Common, Divides
    <3>2. k >= 1 /\ d \in Nat
      BY <1>1, <3>1 DEF Common
    <3> QED BY <3>1, <3>2
  <2>4. Gcd(a, 0) \in Nat
    BY <2>2 DEF IsGreatest, Common
  <2> QED BY <2>1, <2>2, <2>3, <2>4 DEF IsGreatest
<1> QED BY <1>1 DEF Gcd

\* The loop of gcd.
LEMMA GcdLoop ==
    \A a, b \in Word : gcd[<<a, b>>] = IF b = 0 THEN a ELSE gcd[<<b, a % b>>]
<1> DEFINE h == [p \in Word \X Word |-> Gcd(p[1], p[2])]
           step(f, p) == IF p[2] = 0 THEN p[1] ELSE f[<<p[2], p[1] % p[2]>>]
<1>1. ASSUME NEW a \in Word, NEW b \in Word, b # 0
      PROVE  a % b \in Word /\ Gcd(a, b) = Gcd(b, a % b)
  <2>1. WordMax \in Nat /\ a \in Nat /\ b \in Nat \ {0} /\ b <= WordMax
    BY <1>1, FrequencyConstants DEF Word
  <2>2. a % b \in Nat /\ a % b < b
    BY <2>1, Remainder
  <2>3. Common(a, b) = Common(b, a % b)
    BY <2>1, SameDivisors
  <2> QED BY <1>1, <2>1, <2>2, <2>3 DEF Gcd, Word
<1>2. ASSUME NEW p \in Word \X Word PROVE Gcd(p[1], p[2]) = step(h, p)
  <2>1. PICK a \in Word, b \in Word : p = <<a, b>>
    OBVIOUS
  <2>2. CASE b = 0
    <3>1. a \in Nat
      BY FrequencyConstants DEF Word
    <3> QED BY <2>1, <2>2, <3>1, GcdOfZero
  <2>3. CASE b # 0
    <3>1. PICK r \in Word : r = a % b /\ Gcd(a, b) = Gcd(b, r)
      BY <1>1, <2>3
    <3>2. h[<<b, r>>] = Gcd(b, r)
      OBVIOUS
    <3> QED BY <2>1, <2>3, <3>1, <3>2
  <2> QED BY <2>2, <2>3
<1>3. h = [p \in Word \X Word |-> step(h, p)]
  <2> HIDE DEF step
  <2> QED BY <1>2
<1>4. gcd = [p \in Word \X Word |-> step(gcd, p)]
  <2> HIDE DEF h
  <2> QED BY <1>3 DEF gcd
<1> QED BY <1>4

-----------------------------------------------------------------------------
(* gcd and lcm *)

\* A divisor of two numbers that is a combination of them.
IsGcd(g, a, b) ==
    /\ g \in Nat \ {0} /\ Divides(g, a) /\ Divides(g, b)
    /\ \E u, v \in Int : g = u * a + v * b

\* gcd finds the greatest common divisor, which is a combination of the two.
LEMMA GcdWorks ==
    ASSUME NEW a \in Word, NEW b \in Word, a # 0 \/ b # 0
    PROVE  IsGcd(gcd[<<a, b>>], a, b) /\ gcd[<<a, b>>] \in 1..WordMax
<1> USE FrequencyConstants
<1> DEFINE Good(c, d) == IsGcd(gcd[<<c, d>>], c, d) /\ gcd[<<c, d>>] \in 1..WordMax
           Bad == {d \in Word : \E c \in Word : (c # 0 \/ d # 0) /\ ~Good(c, d)}
<1>1. ASSUME NEW d \in Bad, \A e \in Bad : d <= e PROVE FALSE
  <2>1. PICK c \in Word : (c # 0 \/ d # 0) /\ ~Good(c, d)
    OBVIOUS
  <2>2. d \in Word /\ c \in Nat /\ d \in Nat /\ c <= WordMax /\ d <= WordMax
    BY DEF Word
  <2>3. CASE d = 0
    <3>1. gcd[<<c, d>>] = c
      BY <2>2, <2>3, GcdLoop
    <3>2. Divides(c, c) /\ Divides(c, 0)
      <4>1. c = c * 1 /\ 0 = c * 0
        BY <2>2
      <4> QED BY <4>1 DEF Divides
    <3>3. 1 \in Int /\ 0 \in Int /\ c = 1 * c + 0 * 0
      BY <2>2
    <3>4. c \in Nat \ {0} /\ c \in 1..WordMax
      BY <2>1, <2>2, <2>3
    <3>5. \E u, v \in Int : c = u * c + v * 0
      BY <3>3, Zenon
    <3>6. Good(c, d)
      BY <2>3, <3>1, <3>2, <3>4, <3>5 DEF IsGcd
    <3> QED BY <2>1, <3>6
  <2>4. CASE d # 0
    <3>1. PICK q, r \in Nat : r = c % d /\ r < d /\ c = d * q + r
      <4>1. c \in Nat /\ d \in Nat \ {0}
        BY <2>2, <2>4
      <4> QED BY <4>1, Remainder
    <3>2. r \in Word /\ gcd[<<c, d>>] = gcd[<<d, r>>]
      <4>1. r \in Nat /\ r < d /\ d <= WordMax /\ WordMax \in Nat
        BY <2>2, <3>1, FrequencyConstants
      <4>2. r \in Word
        BY <4>1 DEF Word
      <4>3. gcd[<<c, d>>] = gcd[<<d, c % d>>]
        BY <2>2, <2>4, GcdLoop
      <4> QED BY <3>1, <4>2, <4>3
    <3>3. Good(d, r)
      <4> HIDE DEF Good, Bad
      <4>1. r \notin Bad
        <5>1. ~(d <= r)
          BY <2>2, <3>1
        <5> QED BY <1>1, <5>1
      <4> QED BY <2>2, <2>4, <3>2, <4>1 DEF Bad
    <3>4. PICK g : g = gcd[<<d, r>>]
      OBVIOUS
    <3>5. IsGcd(g, d, r)
      BY <3>3, <3>4
    <3> HIDE DEF Good, Bad
    <3>6. IsGcd(g, c, d)
      <4>1. g \in Nat \ {0}
        BY <3>5 DEF IsGcd
      <4>2. PICK x \in Nat, y \in Nat : d = g * x /\ r = g * y
        BY <3>5 DEF IsGcd, Divides
      <4>3. Divides(g, c)
        <5>1. PICK p \in Nat : p = x * q
          OBVIOUS
        <5>2. d * q = g * p
          <6>1. (g * x) * q = g * (x * q)
            BY <4>1
          <6> QED BY <4>2, <5>1, <6>1
        <5>3. c = g * (p + y) /\ p + y \in Nat
          <6>1. g * (p + y) = g * p + g * y
            BY <4>1
          <6> QED BY <3>1, <4>2, <5>2, <6>1
        <5> QED BY <5>3 DEF Divides
      <4>4. \E m, n \in Int : g = m * c + n * d
        <5>1. PICK u, v \in Int : g = u * d + v * r
          BY <3>5 DEF IsGcd
        <5>2. PICK w \in Int : w = u - v * q
          OBVIOUS
        <5>3. v * c = v * (d * q) + v * r
          BY <2>2, <3>1
        <5>4. w * d = u * d - v * (d * q)
          BY <2>2, <5>2
        <5>5. g = v * c + w * d
          <6>1. PICK i, j, k \in Int : i = v * (d * q) /\ j = v * r /\ k = u * d
            BY <2>2
          <6> QED BY <5>1, <5>3, <5>4, <6>1
        <5> QED BY <5>5, Zenon
      <4> QED BY <3>5, <4>1, <4>3, <4>4 DEF IsGcd
    <3>7. Good(c, d)
      BY <3>2, <3>3, <3>4, <3>6 DEF Good
    <3> QED BY <2>1, <3>7
  <2> QED BY <2>3, <2>4
<1>2. Bad = {}
  <2>1. Bad \in SUBSET Nat
    BY DEF Word
  <2> HIDE DEF Bad
  <2> QED BY <1>1, <2>1, Least
<1> QED BY <1>2

\* A product over one of its factors.
LEMMA DivideOut ==
    ASSUME NEW a \in Nat \ {0}, NEW b \in Nat
    PROVE  (a * b) \div a = b
OBVIOUS

\* How a product compares with a bound.
LEMMA ProductFits ==
    ASSUME NEW x \in Nat \ {0}, NEW y \in Nat, NEW n \in Nat
    PROVE  y > n \div x <=> x * y > n
<1>1. PICK q \in Nat, r \in Nat : q = n \div x /\ r < x /\ n = x * q + r
  <2>1. PICK q, r : q = n \div x /\ r = n % x
    OBVIOUS
  <2>2. q \in Nat /\ r \in Nat /\ r < x
    BY <2>1
  <2>3. n = x * q + r
    BY <2>1, <2>2
  <2> QED BY <2>1, <2>2, <2>3, Zenon
<1>2. ASSUME y > q PROVE x * y > n
  <2>1. x * y >= x * (q + 1) /\ x * (q + 1) = x * q + x
    BY <1>2
  <2>2. PICK i, j \in Int : i = x * q /\ j = x * y
    OBVIOUS
  <2> QED BY <1>1, <2>1, <2>2
<1>3. ASSUME ~(y > q) PROVE ~(x * y > n)
  <2>1. x * y <= x * q
    BY <1>3
  <2>2. PICK i, j \in Int : i = x * q /\ j = x * y
    OBVIOUS
  <2> QED BY <1>1, <2>1, <2>2
<1> QED BY <1>1, <1>2, <1>3

\* lcm is a common multiple and divides every other that fits in a word.
LEMMA LcmWorks ==
    ASSUME NEW a \in 1..WordMax, NEW b \in 1..WordMax, NEW n \in 1..WordMax,
           Divides(a, n), Divides(b, n)
    PROVE  /\ lcm(a, b) \in 1..WordMax
           /\ Divides(a, lcm(a, b)) /\ Divides(b, lcm(a, b)) /\ Divides(lcm(a, b), n)
<1>1. WordMax \in Nat /\ a \in Nat \ {0} /\ b \in Nat \ {0} /\ n \in Nat \ {0} /\ n <= WordMax
  BY FrequencyConstants
<1>2. PICK g \in Nat \ {0} : g = gcd[<<a, b>>] /\ IsGcd(g, a, b)
  <2>1. a \in Word /\ b \in Word
    BY <1>1 DEF Word
  <2>2. IsGcd(gcd[<<a, b>>], a, b)
    BY <1>1, <2>1, GcdWorks
  <2> QED BY <2>2 DEF IsGcd
<1>3. PICK x \in Nat, y \in Nat : a = g * x /\ b = g * y
  BY <1>2 DEF IsGcd, Divides
<1>4. x # 0 /\ y # 0
  BY <1>1, <1>2, <1>3
<1>5. a \div g = x /\ b \div g = y
  BY <1>2, <1>3, DivideOut
<1>6. PICK m \in Nat : m = x * y * g
  OBVIOUS
<1>7. m = a * y /\ m = b * x
  <2>1. a * y = g * x * y /\ b * x = g * y * x
    BY <1>3
  <2>2. g * x * y = x * y * g /\ g * y * x = x * y * g
    OBVIOUS
  <2> QED BY <1>6, <2>1, <2>2
<1>8. PICK k \in Int : n = m * k
  <2>1. PICK s \in Nat, t \in Nat : n = a * s /\ n = b * t
    BY DEF Divides
  <2>2. PICK u, v \in Int : g = u * a + v * b
    BY <1>2 DEF IsGcd
  <2>3. PICK k \in Int : k = u * t + v * s
    OBVIOUS
  <2>4. g * n = (u * a) * n + (v * b) * n
    BY <1>1, <2>2
  <2>5. (u * a) * n = (a * b) * (u * t)
    <3>1. (u * a) * n = (u * a) * (b * t)
      BY <2>1
    <3>2. (u * a) * (b * t) = (a * b) * (u * t)
      BY <1>1
    <3> QED BY <3>1, <3>2
  <2>6. (v * b) * n = (a * b) * (v * s)
    <3>1. (v * b) * n = (v * b) * (a * s)
      BY <2>1
    <3>2. (v * b) * (a * s) = (a * b) * (v * s)
      BY <1>1
    <3> QED BY <3>1, <3>2
  <2>7. g * n = (a * b) * k
    <3>1. (a * b) * k = (a * b) * (u * t) + (a * b) * (v * s)
      BY <1>1, <2>3
    <3> QED BY <2>4, <2>5, <2>6, <3>1
  <2>8. (a * b) * k = g * (m * k)
    <3>1. a * b = g * m
      <4>1. a * b = (g * x) * b
        BY <1>3
      <4>2. (g * x) * b = g * (b * x)
        BY <1>1
      <4> QED BY <1>7, <4>1, <4>2
    <3>2. (g * m) * k = g * (m * k)
      OBVIOUS
    <3> QED BY <3>1, <3>2
  <2>9. ASSUME NEW i \in Int, NEW j \in Int, g * i = g * j PROVE i = j
    BY <2>9
  <2>10. g * n = g * (m * k)
    BY <2>7, <2>8
  <2>11. PICK j \in Int : j = m * k
    OBVIOUS
  <2>12. n = j
    BY <1>1, <2>9, <2>10, <2>11
  <2> QED BY <2>11, <2>12
<1>9. m >= 1 /\ k >= 1
  <2>1. m # 0
    BY <1>1, <1>4, <1>7
  <2>2. ASSUME k <= 0 PROVE FALSE
    <3>1. m * k <= 0
      BY <2>2
    <3> QED BY <1>1, <1>8, <3>1
  <2> QED BY <2>1, <2>2
<1>10. m <= n
  BY <1>8, <1>9
<1>11. x * y <= m /\ x * y \in Nat
  <2>1. PICK p \in Nat : p = x * y
    OBVIOUS
  <2>2. p <= p * g
    OBVIOUS
  <2> QED BY <1>6, <2>1, <2>2
<1>12. ~LcmOverflows(a, b)
  <2>1. LcmOverflows(a, b) <=> y > WordMax \div x
    BY <1>2, <1>5 DEF LcmOverflows
  <2>2. y > WordMax \div x <=> x * y > WordMax
    BY <1>1, <1>4, ProductFits
  <2> QED BY <1>1, <1>10, <1>11, <2>1, <2>2
<1>13. lcm(a, b) = m
  <2>1. \A i \in 0..WordMax : Wrap(i) = i
    BY <1>1 DEF Wrap
  <2>2. x * y \in 0..WordMax /\ m \in 0..WordMax
    BY <1>1, <1>9, <1>10, <1>11
  <2>3. lcm(a, b) = Wrap(Wrap(x * y) * g)
    BY <1>1, <1>2, <1>5, <1>12 DEF lcm, Overflow
  <2> QED BY <1>6, <2>1, <2>2, <2>3
<1>14. Divides(a, m) /\ Divides(b, m) /\ Divides(m, n)
  <2>1. k \in Nat
    BY <1>9
  <2> QED BY <1>7, <1>8, <2>1 DEF Divides
<1> QED BY <1>1, <1>9, <1>10, <1>13, <1>14

\* What is computed one after the other.
Computes(f, n, S, first, step) ==
    /\ f \in [0..n -> S]
    /\ \A k \in 0..n : f[k] = IF k = 0 THEN first ELSE step[k][f[k - 1]]

LEMMA OneAfterTheOther ==
    ASSUME NEW n \in Nat, NEW S, NEW first \in S, NEW step \in [1..n -> [S -> S]]
    PROVE  \E f : Computes(f, n, S, first, step)
<1> DEFINE Upto(m, f) == f \in [0..m -> S]
                         /\ \A k \in 0..m : f[k] = IF k = 0 THEN first ELSE step[k][f[k - 1]]
           Bad == {m \in 0..n : ~\E f : Upto(m, f)}
<1>1. ASSUME NEW m \in Bad, \A k \in Bad : m <= k PROVE FALSE
  <2>1. CASE m = 0
    <3> DEFINE f == [k \in 0..0 |-> first]
    <3>1. Upto(m, f)
      BY <2>1
    <3> HIDE DEF f, Upto
    <3> QED BY <3>1
  <2>2. CASE m # 0
    <3>1. m - 1 \in 0..n /\ m - 1 \notin Bad /\ m \in 1..n
      <4>1. m \in 0..n
        OBVIOUS
      <4> HIDE DEF Bad
      <4>2. m - 1 \in 0..n /\ m \in 1..n /\ ~(m <= m - 1)
        BY <2>2, <4>1
      <4> QED BY <1>1, <4>2
    <3>2. PICK f : Upto(m - 1, f)
      BY <3>1
    <3> DEFINE g == [k \in 0..m |-> IF k = m THEN step[m][f[m - 1]] ELSE f[k]]
    <3>3. f[m - 1] \in S /\ step[m] \in [S -> S]
      BY <3>1, <3>2
    <3>4. g \in [0..m -> S]
      BY <3>2, <3>3
    <3>5. ASSUME NEW k \in 0..m PROVE g[k] = IF k = 0 THEN first ELSE step[k][g[k - 1]]
      <4>1. CASE k = m
        <5>1. m - 1 \in 0..m /\ m - 1 # m /\ g[m - 1] = f[m - 1] /\ g[m] = step[m][f[m - 1]]
          BY <3>1
        <5> HIDE DEF g
        <5> QED BY <2>2, <4>1, <5>1
      <4>2. CASE k # m
        <5>1. k \in 0..m - 1 /\ g[k] = f[k] /\ (k # 0 => k - 1 \in 0..m /\ k - 1 # m /\ g[k - 1] = f[k - 1])
          BY <3>1, <4>2
        <5> HIDE DEF g
        <5> QED BY <3>2, <5>1
      <4> QED BY <4>1, <4>2
    <3>6. Upto(m, g)
      BY <3>4, <3>5
    <3> HIDE DEF g, Upto
    <3> QED BY <3>6
  <2> QED BY <2>1, <2>2
<1>2. Bad = {}
  <2>1. Bad \in SUBSET Nat
    OBVIOUS
  <2> HIDE DEF Bad
  <2> QED BY <1>1, <2>1, Least
<1>3. PICK f : Upto(n, f)
  BY <1>2
<1> QED BY <1>3 DEF Computes

\* The base frequency is a common multiple of the frequencies, and divides every other that
\* fits in a word.
LEMMA BaseFrequencyWorks ==
    ASSUME NEW freqs \in Seq(1..WordMax), NEW n \in 1..WordMax,
           \A i \in DOMAIN freqs : Divides(freqs[i], n)
    PROVE  /\ BaseFrequencyOf(freqs) \in 1..WordMax
           /\ \A i \in DOMAIN freqs : Divides(freqs[i], BaseFrequencyOf(freqs))
           /\ Divides(BaseFrequencyOf(freqs), n)
<1>1. WordMax \in Nat /\ Len(freqs) \in Nat /\ DOMAIN freqs = 1..Len(freqs)
      /\ \A i \in 1..Len(freqs) : freqs[i] \in 1..WordMax
  BY FrequencyConstants
<1> DEFINE S == {m \in 1..WordMax : Divides(m, n)}
           step == [k \in 1..Len(freqs) |-> [m \in S |-> lcm(m, freqs[k])]]
           Folds(f) == f = [k \in 0..Len(freqs) |-> IF k = 0 THEN 1 ELSE lcm(f[k - 1], freqs[k])]
           folded == CHOOSE f : Folds(f)
<1>2. 1 \in S
  <2>1. n = 1 * n /\ n \in Nat
    OBVIOUS
  <2> QED BY <1>1, <2>1 DEF Divides
<1>3. ASSUME NEW k \in 1..Len(freqs), NEW m \in S
      PROVE  lcm(m, freqs[k]) \in S /\ Divides(m, lcm(m, freqs[k])) /\ Divides(freqs[k], lcm(m, freqs[k]))
  BY <1>1, LcmWorks
<1>4. \E f : Folds(f) /\ f \in [0..Len(freqs) -> S]
  <2>1. step \in [1..Len(freqs) -> [S -> S]]
    BY <1>3
  <2>2. \A k \in 1..Len(freqs) : \A m \in S : step[k][m] = lcm(m, freqs[k])
    OBVIOUS
  <2> HIDE DEF step, S
  <2>3. PICK f : Computes(f, Len(freqs), S, 1, step)
    BY <1>1, <1>2, <2>1, OneAfterTheOther
  <2> USE DEF Computes
  <2>4. ASSUME NEW k \in 0..Len(freqs), k # 0
        PROVE  step[k][f[k - 1]] = lcm(f[k - 1], freqs[k])
    <3>1. k \in 1..Len(freqs) /\ k - 1 \in 0..Len(freqs)
      BY <1>1, <2>4
    <3>2. f[k - 1] \in S
      BY <2>3, <3>1
    <3> QED BY <2>2, <3>1, <3>2
  <2>5. Folds(f)
    BY <2>3, <2>4
  <2> QED BY <2>3, <2>5
<1>5. Folds(folded)
  <2> HIDE DEF Folds
  <2> QED BY <1>4
<1>6. BaseFrequencyOf(freqs) = folded[Len(freqs)]
  BY DEF BaseFrequencyOf
<1> HIDE DEF folded, S
<1> DEFINE Bad == {k \in 0..Len(freqs) :
                     ~(folded[k] \in S /\ \A i \in 1..k : Divides(freqs[i], folded[k]))}
<1>7. ASSUME NEW k \in Bad, \A j \in Bad : k <= j PROVE FALSE
  <2>1. CASE k = 0
    BY <1>1, <1>2, <1>5, <2>1
  <2>2. CASE k # 0
    <3>1. k \in 1..Len(freqs) /\ k - 1 \in 0..Len(freqs) /\ k - 1 \notin Bad
      BY <1>1, <1>7, <2>2
    <3>2. folded[k] = lcm(folded[k - 1], freqs[k])
      BY <1>5, <3>1
    <3>3. folded[k - 1] \in S /\ \A i \in 1..k - 1 : Divides(freqs[i], folded[k - 1])
      BY <3>1
    <3>4. folded[k] \in S /\ Divides(folded[k - 1], folded[k]) /\ Divides(freqs[k], folded[k])
      BY <1>3, <3>1, <3>2, <3>3
    <3>5. ASSUME NEW i \in 1..k - 1 PROVE Divides(freqs[i], folded[k])
      <4>1. PICK b, c : b = folded[k - 1] /\ c = folded[k]
        OBVIOUS
      <4>2. PICK d, e : d \in Nat /\ e \in Nat /\ b = freqs[i] * d /\ c = b * e
        BY <3>3, <3>4, <4>1 DEF Divides
      <4>3. c = freqs[i] * (d * e) /\ d * e \in Nat
        <5>1. freqs[i] \in Nat
          BY <1>1, <3>1
        <5> QED BY <4>2, <5>1
      <4> QED BY <4>1, <4>3 DEF Divides
    <3>6. \A i \in 1..k : i = k \/ i \in 1..k - 1
      BY <3>1
    <3> QED BY <3>4, <3>5, <3>6
  <2> QED BY <2>1, <2>2
<1>8. Bad = {}
  <2>1. Bad \in SUBSET Nat
    OBVIOUS
  <2> HIDE DEF Bad
  <2> QED BY <1>7, <2>1, Least
<1>9. Len(freqs) \notin Bad /\ Len(freqs) \in 0..Len(freqs)
  BY <1>1, <1>8
<1> QED BY <1>1, <1>6, <1>9 DEF S

\* Divisibility is what the remainder says.
LEMMA DividesMod ==
    ASSUME NEW d \in Nat \ {0}, NEW n \in Nat
    PROVE  n % d = 0 <=> Divides(d, n)
<1>1. PICK q, r \in Nat : r = n % d /\ r < d /\ n = d * q + r
  BY Remainder
<1>2. ASSUME Divides(d, n) PROVE r = 0
  <2>1. PICK k \in Nat : n = d * k
    BY <1>2 DEF Divides
  <2>2. r = d * (k - q)
    <3>1. d * (k - q) = d * k - d * q
      OBVIOUS
    <3>2. PICK i, j \in Int : i = d * k /\ j = d * q
      OBVIOUS
    <3>3. i = j + r
      BY <1>1, <2>1, <3>2
    <3> QED BY <3>1, <3>2, <3>3
  <2>3. PICK j \in Int : j = k - q
    OBVIOUS
  <2>4. r = d * j
    BY <2>2, <2>3
  <2>5. ASSUME j >= 1 PROVE FALSE
    <3>1. d * j >= d
      BY <2>5
    <3> QED BY <1>1, <2>4, <3>1
  <2>6. ASSUME j <= -1 PROVE FALSE
    <3>1. d * j < 0
      BY <2>6
    <3> QED BY <1>1, <2>4, <3>1
  <2>7. j = 0
    BY <2>5, <2>6
  <2> QED BY <2>4, <2>7
<1>3. ASSUME r = 0 PROVE Divides(d, n)
  BY <1>1, <1>3 DEF Divides
<1> QED BY <1>1, <1>2, <1>3

\* The base frequency InitClockServer computes is the least common multiple of the
\* frequencies whenever that fits in a word, whatever the frequencies and their order.
THEOREM BaseFrequencyIsLcm == ExactIfRepresentable
<1> SUFFICES ASSUME NEW n \in 0..MaxFreqs, NEW freqs \in [1..n -> 1..MaxFreq],
                    CommonMultiples(freqs) # {}
             PROVE  /\ BaseFrequencyOf(freqs) \in CommonMultiples(freqs)
                    /\ \A m \in CommonMultiples(freqs) : BaseFrequencyOf(freqs) <= m
  BY DEF ExactIfRepresentable
<1>1. /\ WordMax \in Nat /\ MaxFreq <= WordMax /\ MaxFreq \in Nat /\ n \in Nat
      /\ DOMAIN freqs = 1..n /\ freqs \in Seq(1..WordMax)
  <2>1. n \in Nat /\ MaxFreq <= WordMax /\ MaxFreq \in Nat /\ WordMax \in Nat
    BY FrequencyConstants
  <2>2. freqs \in [1..n -> 1..WordMax]
    BY <2>1
  <2> QED BY <2>1, <2>2
<1>2. \A i \in 1..n : freqs[i] \in Nat \ {0}
  BY <1>1
<1>3. ASSUME NEW m \in 1..WordMax
      PROVE  m \in CommonMultiples(freqs) <=> \A i \in 1..n : Divides(freqs[i], m)
  <2>1. \A i \in 1..n : m % freqs[i] = 0 <=> Divides(freqs[i], m)
    BY <1>2, DividesMod
  <2> QED BY <1>1, <2>1 DEF CommonMultiples
<1>4. CommonMultiples(freqs) \subseteq 1..WordMax
  BY DEF CommonMultiples
<1>5. ASSUME NEW m \in CommonMultiples(freqs)
      PROVE  /\ BaseFrequencyOf(freqs) \in 1..WordMax
             /\ \A i \in 1..n : Divides(freqs[i], BaseFrequencyOf(freqs))
             /\ Divides(BaseFrequencyOf(freqs), m)
  BY <1>1, <1>3, <1>4, <1>5, BaseFrequencyWorks
<1>6. BaseFrequencyOf(freqs) \in CommonMultiples(freqs)
  BY <1>3, <1>5
<1>7. ASSUME NEW m \in CommonMultiples(freqs) PROVE BaseFrequencyOf(freqs) <= m
  <2>1. PICK b \in 1..WordMax, k \in Nat : b = BaseFrequencyOf(freqs) /\ m = b * k
    BY <1>5 DEF Divides
  <2>2. m >= 1 /\ m \in Nat
    BY <1>4
  <2>3. k # 0
    BY <2>1, <2>2
  <2>4. b <= b * k
    BY <2>3
  <2> QED BY <2>1, <2>4
<1> QED BY <1>6, <1>7

-----------------------------------------------------------------------------
(* Sequences *)

NoneTwice(s) == \A i, j \in DOMAIN s : s[i] = s[j] => i = j

\* What Append does to the elements of a sequence.
LEMMA Appended ==
    ASSUME NEW S, NEW s \in Seq(S), NEW x \in S
    PROVE  /\ Append(s, x) \in Seq(S) /\ Append(s, x) # <<>> /\ Last(Append(s, x)) = x
           /\ ToSet(Append(s, x)) = ToSet(s) \cup {x}
           /\ NoneTwice(s) /\ x \notin ToSet(s) => NoneTwice(Append(s, x))
<1>1. /\ Append(s, x) \in Seq(S) /\ Len(Append(s, x)) = Len(s) + 1 /\ Len(s) \in Nat
      /\ Append(s, x)[Len(s) + 1] = x /\ \A i \in 1..Len(s) : Append(s, x)[i] = s[i]
      /\ DOMAIN Append(s, x) = 1..Len(s) + 1 /\ DOMAIN s = 1..Len(s)
  OBVIOUS
<1>2. PICK t : t = Append(s, x)
  OBVIOUS
<1>3. ToSet(t) = ToSet(s) \cup {x}
  BY <1>1, <1>2 DEF ToSet
<1>4. NoneTwice(s) /\ x \notin ToSet(s) => NoneTwice(t)
  BY <1>1, <1>2 DEF NoneTwice, ToSet
<1> QED BY <1>1, <1>2, <1>3, <1>4 DEF Last

\* The first element of a sequence and the others.
LEMMA Popped ==
    ASSUME NEW S, NEW s \in Seq(S), s # <<>>
    PROVE  /\ Tail(s) \in Seq(S) /\ Head(s) \in S /\ Head(s) = s[1] /\ 1 \in DOMAIN s
           /\ ToSet(s) = ToSet(Tail(s)) \cup {Head(s)}
           /\ NoneTwice(s) => NoneTwice(Tail(s)) /\ Head(s) \notin ToSet(Tail(s))
<1>1. PICK n \in Nat : n = Len(s) /\ n # 0
  OBVIOUS
<1>2. PICK t : t = Tail(s)
  OBVIOUS
<1>3. /\ t \in Seq(S) /\ DOMAIN t = 1..n - 1 /\ \A i \in 1..n - 1 : t[i] = s[i + 1]
      /\ DOMAIN s = 1..n /\ Head(s) = s[1]
  BY <1>1, <1>2
<1>4. ToSet(s) = ToSet(t) \cup {s[1]}
  <2>1. \A i \in 2..n : i - 1 \in 1..n - 1 /\ t[i - 1] = s[i]
    BY <1>1, <1>3
  <2>2. \A i \in 1..n : i = 1 \/ i \in 2..n
    BY <1>1
  <2>3. \A i \in 1..n - 1 : i + 1 \in 1..n
    BY <1>1
  <2>4. 1 \in 1..n
    BY <1>1
  <2>5. ToSet(s) \subseteq ToSet(t) \cup {s[1]}
    BY <1>3, <2>1, <2>2 DEF ToSet
  <2>6. ToSet(t) \cup {s[1]} \subseteq ToSet(s)
    BY <1>3, <2>3, <2>4 DEF ToSet
  <2> QED BY <2>5, <2>6
<1>5. ASSUME NoneTwice(s) PROVE NoneTwice(t) /\ s[1] \notin ToSet(t)
  <2>1. \A i \in 1..n - 1 : i + 1 \in 1..n /\ i + 1 # 1 /\ t[i] = s[i + 1]
    BY <1>1, <1>3
  <2>2. 1 \in 1..n
    BY <1>1
  <2>3. \A i \in 1..n - 1 : t[i] # s[1]
    BY <1>3, <1>5, <2>1, <2>2 DEF NoneTwice
  <2>4. ASSUME NEW i \in 1..n - 1, NEW j \in 1..n - 1, t[i] = t[j] PROVE i + 1 = j + 1
    <3>1. i + 1 \in DOMAIN s /\ j + 1 \in DOMAIN s /\ s[i + 1] = s[j + 1]
      BY <1>3, <2>1, <2>4
    <3> QED BY <1>5, <3>1 DEF NoneTwice
  <2>5. \A i, j \in 1..n - 1 : t[i] = t[j] => i = j
    BY <2>4
  <2> QED BY <1>3, <2>3, <2>5 DEF NoneTwice, ToSet
<1> QED BY <1>1, <1>2, <1>3, <1>4, <1>5

\* What taking one element out does.
LEMMA TakenOut ==
    ASSUME NEW S, NEW s \in Seq(S), NEW k \in 1..Len(s)
    PROVE  /\ RemoveAt(s, k) \in Seq(S)
           /\ NoneTwice(s) => NoneTwice(RemoveAt(s, k)) /\ ToSet(RemoveAt(s, k)) = ToSet(s) \ {s[k]}
<1>1. PICK n \in Nat : n = Len(s) /\ DOMAIN s = 1..n
  OBVIOUS
<1>2. PICK v, w : v = SubSeq(s, 1, k - 1) /\ w = SubSeq(s, k + 1, n)
  OBVIOUS
<1>3. /\ v \in Seq(S) /\ Len(v) = k - 1 /\ \A i \in 1..k - 1 : v[i] = s[i]
      /\ w \in Seq(S) /\ Len(w) = n - k /\ \A i \in 1..n - k : w[i] = s[i + k]
  BY <1>1, <1>2
<1>4. PICK t : t = v \o w
  OBVIOUS
<1>5. t = RemoveAt(s, k)
  BY <1>1, <1>2, <1>4 DEF RemoveAt
<1>6. /\ t \in Seq(S) /\ DOMAIN t = 1..n - 1
      /\ \A i \in 1..n - 1 : t[i] = IF i < k THEN s[i] ELSE s[i + 1]
  <2>1. t \in Seq(S) /\ Len(t) = n - 1
    <3>1. v \in Seq(S) /\ w \in Seq(S)
      BY <1>3
    <3>2. t \in Seq(S) /\ Len(t) = Len(v) + Len(w)
      BY <1>4, <3>1
    <3> QED BY <1>1, <1>3, <3>2
  <2>2. \A i \in 1..k - 1 : t[i] = v[i]
    BY <1>3, <1>4
  <2>3. \A i \in k..n - 1 : t[i] = w[i - (k - 1)]
    BY <1>1, <1>3, <1>4
  <2>4. \A i \in k..n - 1 : t[i] = s[i + 1]
    <3>1. \A i \in k..n - 1 : i - (k - 1) \in 1..n - k /\ (i - (k - 1)) + k = i + 1
      BY <1>1
    <3> QED BY <1>3, <2>3, <3>1
  <2> QED BY <1>1, <1>3, <2>1, <2>2, <2>4
<1>7. ASSUME NoneTwice(s) PROVE NoneTwice(t)
  <2>1. ASSUME NEW i \in 1..n - 1, NEW j \in 1..n - 1, t[i] = t[j] PROVE i = j
    <3> DEFINE from(h) == IF h < k THEN h ELSE h + 1
    <3>1. from(i) \in 1..n /\ from(j) \in 1..n /\ t[i] = s[from(i)] /\ t[j] = s[from(j)]
      BY <1>1, <1>6
    <3>2. from(i) = from(j) => i = j
      BY <1>1
    <3> HIDE DEF from
    <3>3. from(i) = from(j)
      BY <1>1, <1>7, <2>1, <3>1 DEF NoneTwice
    <3> QED BY <3>2, <3>3
  <2> QED BY <1>6, <2>1 DEF NoneTwice
<1>8. ASSUME NoneTwice(s) PROVE ToSet(t) = ToSet(s) \ {s[k]}
  <2>1. ASSUME NEW i \in 1..n - 1 PROVE t[i] \in ToSet(s) /\ t[i] # s[k]
    BY <1>1, <1>6, <1>8 DEF NoneTwice, ToSet
  <2>2. ASSUME NEW i \in 1..n, i # k PROVE s[i] \in ToSet(t)
    <3>1. CASE i < k
      BY <1>1, <1>6, <3>1 DEF ToSet
    <3>2. CASE i > k
      <4>1. i - 1 \in 1..n - 1 /\ t[i - 1] = s[i]
        BY <1>1, <1>6, <3>2
      <4> QED BY <1>6, <4>1 DEF ToSet
    <3> QED BY <1>1, <2>2, <3>1, <3>2
  <2> QED BY <1>1, <1>6, <2>1, <2>2 DEF ToSet
<1> QED BY <1>5, <1>6, <1>7, <1>8

\* The elements from a place on.
LEMMA FromPlace ==
    ASSUME NEW S, NEW s \in Seq(S), NEW k \in 1..Len(s)
    PROVE  ToSet(SubSeq(s, k, Len(s))) = {s[i] : i \in k..Len(s)}
<1>1. PICK n \in Nat : n = Len(s) /\ DOMAIN s = 1..n
  OBVIOUS
<1>2. PICK t : t = SubSeq(s, k, n)
  OBVIOUS
<1>3. DOMAIN t = 1..n - k + 1 /\ \A i \in 1..n - k + 1 : t[i] = s[i + k - 1]
  BY <1>1, <1>2
<1>4. \A i \in k..n : i - k + 1 \in 1..n - k + 1 /\ (i - k + 1) + k - 1 = i
  BY <1>1
<1>5. \A i \in 1..n - k + 1 : i + k - 1 \in k..n
  BY <1>1
<1>6. ToSet(t) = {s[i] : i \in k..n}
  <2>1. \A i \in k..n : t[i - k + 1] = s[i]
    BY <1>3, <1>4
  <2>2. ToSet(t) \subseteq {s[i] : i \in k..n}
    BY <1>3, <1>5 DEF ToSet
  <2>3. {s[i] : i \in k..n} \subseteq ToSet(t)
    BY <1>3, <1>4, <2>1 DEF ToSet
  <2> QED BY <2>2, <2>3
<1> QED BY <1>1, <1>2, <1>6

\* Two sequences one after the other.
LEMMA Joined ==
    ASSUME NEW S, NEW s \in Seq(S), NEW t \in Seq(S)
    PROVE  /\ s \o t \in Seq(S) /\ ToSet(s \o t) = ToSet(s) \cup ToSet(t)
           /\ NoneTwice(s) /\ NoneTwice(t) /\ ToSet(s) \cap ToSet(t) = {} => NoneTwice(s \o t)
<1>1. PICK m \in Nat, n \in Nat : m = Len(s) /\ n = Len(t) /\ DOMAIN s = 1..m /\ DOMAIN t = 1..n
  OBVIOUS
<1>2. PICK u : u = s \o t
  OBVIOUS
<1>3. /\ u \in Seq(S) /\ DOMAIN u = 1..m + n
      /\ (\A i \in 1..m : u[i] = s[i]) /\ \A i \in 1..n : u[m + i] = t[i]
  BY <1>1, <1>2
<1>4. \A i \in 1..m + n : i \in 1..m \/ (i - m \in 1..n /\ u[i] = t[i - m])
  <2>1. \A i \in 1..m + n : i \in 1..m \/ (i - m \in 1..n /\ m + (i - m) = i)
    BY <1>1
  <2> QED BY <1>3, <2>1
<1>5. \A i \in 1..n : m + i \in 1..m + n
  BY <1>1
<1>6. ToSet(u) = ToSet(s) \cup ToSet(t)
  <2>1. ToSet(u) \subseteq ToSet(s) \cup ToSet(t)
    <3>1. ASSUME NEW i \in 1..m + n PROVE u[i] \in ToSet(s) \cup ToSet(t)
      <4>1. CASE i \in 1..m
        BY <1>1, <1>3, <4>1 DEF ToSet
      <4>2. CASE i - m \in 1..n /\ u[i] = t[i - m]
        BY <1>1, <4>2 DEF ToSet
      <4> QED BY <1>4, <4>1, <4>2
    <3> QED BY <1>3, <3>1 DEF ToSet
  <2>2. ToSet(s) \subseteq ToSet(u)
    <3>1. \A j \in 1..m : j \in 1..m + n
      BY <1>1
    <3> QED BY <1>1, <1>3, <3>1 DEF ToSet
  <2>3. ToSet(t) \subseteq ToSet(u)
    <3>1. ASSUME NEW j \in 1..n PROVE t[j] \in ToSet(u)
      <4>1. m + j \in 1..m + n /\ u[m + j] = t[j]
        BY <1>3
      <4> QED BY <1>3, <4>1 DEF ToSet
    <3> QED BY <1>1, <3>1 DEF ToSet
  <2> QED BY <2>1, <2>2, <2>3
<1>7. ASSUME NoneTwice(s), NoneTwice(t), ToSet(s) \cap ToSet(t) = {} PROVE NoneTwice(u)
  <2>1. ASSUME NEW i \in 1..m + n, NEW j \in 1..m + n, u[i] = u[j] PROVE i = j
    <3>1. CASE i \in 1..m /\ j \in 1..m
      BY <1>1, <1>3, <1>7, <2>1, <3>1 DEF NoneTwice
    <3>2. CASE i - m \in 1..n /\ u[i] = t[i - m] /\ j - m \in 1..n /\ u[j] = t[j - m]
      <4>1. i - m = j - m
        BY <1>1, <1>7, <2>1, <3>2 DEF NoneTwice
      <4> QED BY <1>1, <4>1
    <3>3. \A p \in 1..m : \A q \in 1..n : s[p] # t[q]
      BY <1>1, <1>7 DEF ToSet
    <3> QED BY <1>3, <1>4, <2>1, <3>1, <3>2, <3>3
  <2> QED BY <1>3, <2>1 DEF NoneTwice
<1> QED BY <1>2, <1>3, <1>6, <1>7

\* The length of a sequence without repetitions.
LEMMA LengthIsCardinality ==
    ASSUME NEW S, NEW s \in Seq(S), NoneTwice(s)
    PROVE  Len(s) = Cardinality(ToSet(s))
<1>1. Len(s) \in Nat /\ DOMAIN s = 1..Len(s)
  OBVIOUS
<1>2. s \in Bijection(1..Len(s), ToSet(s))
  BY <1>1 DEF Bijection, Injection, Surjection, IsInjective, NoneTwice, ToSet
<1>3. ExistsBijection(1..Len(s), ToSet(s))
  BY <1>2 DEF ExistsBijection
<1> QED BY <1>1, <1>3, FS_CountingElements

\* What InsertAt does, place by place.
LEMMA Inserted ==
    ASSUME NEW S, NEW s \in Seq(S), NEW k \in 1..Len(s) + 1, NEW e \in S
    PROVE  /\ InsertAt(s, k, e) \in Seq(S) /\ DOMAIN InsertAt(s, k, e) = 1..Len(s) + 1
           /\ \A i \in 1..k - 1 : InsertAt(s, k, e)[i] = s[i]
           /\ InsertAt(s, k, e)[k] = e
           /\ \A i \in k..Len(s) : InsertAt(s, k, e)[i + 1] = s[i]
<1>1. PICK n \in Nat : n = Len(s) /\ DOMAIN s = 1..n
  OBVIOUS
<1>2. PICK u, v : u = SubSeq(s, 1, k - 1) /\ v = SubSeq(s, k, n)
  OBVIOUS
<1>3. /\ u \in Seq(S) /\ Len(u) = k - 1 /\ \A i \in 1..k - 1 : u[i] = s[i]
      /\ v \in Seq(S) /\ Len(v) = n - k + 1 /\ \A i \in 1..n - k + 1 : v[i] = s[i + k - 1]
  <2>1. u \in Seq(S) /\ Len(u) = k - 1 /\ \A i \in 1..k - 1 : u[i] = s[i]
    BY <1>1, <1>2
  <2>2. v \in Seq(S) /\ Len(v) = n - k + 1
    BY <1>1, <1>2
  <2>3. \A i \in 1..n - k + 1 : v[i] = s[i + k - 1]
    BY <1>1, <1>2
  <2> QED BY <2>1, <2>2, <2>3
<1>4. PICK w : w = u \o <<e>>
  OBVIOUS
<1>5. w \in Seq(S) /\ Len(w) = k /\ (\A i \in 1..k - 1 : w[i] = u[i]) /\ w[k] = e
  <2>1. u \in Seq(S) /\ Len(u) = k - 1
    BY <1>3
  <2> QED BY <1>4, <2>1
<1>6. PICK t : t = w \o v
  OBVIOUS
<1>7. t = InsertAt(s, k, e)
  BY <1>1, <1>2, <1>4, <1>6 DEF InsertAt
<1>8. t \in Seq(S) /\ DOMAIN t = 1..n + 1
  <2>1. w \in Seq(S) /\ v \in Seq(S)
    BY <1>3, <1>5
  <2>2. t \in Seq(S) /\ Len(t) = Len(w) + Len(v)
    BY <1>6, <2>1
  <2> QED BY <1>1, <1>3, <1>5, <2>2
<1>9. \A i \in 1..k : t[i] = w[i]
  BY <1>3, <1>5, <1>6
<1>10. \A i \in 1..n - k + 1 : t[k + i] = v[i]
  BY <1>3, <1>5, <1>6
<1>11. ASSUME NEW i \in k..n PROVE t[i + 1] = s[i]
  <2>1. PICK j \in 1..n - k + 1 : j = i + 1 - k /\ k + j = i + 1 /\ j + k - 1 = i
    BY <1>1
  <2>2. t[k + j] = v[j] /\ v[j] = s[j + k - 1]
    BY <1>3, <1>10
  <2> QED BY <2>1, <2>2
<1>12. t[k] = e /\ \A i \in 1..k - 1 : t[i] = s[i]
  <2>1. k \in 1..k /\ \A i \in 1..k - 1 : i \in 1..k
    BY <1>1
  <2> QED BY <1>3, <1>5, <1>9, <2>1
<1> QED BY <1>1, <1>7, <1>8, <1>11, <1>12

\* Registries in the order of their base cycles.
Sorted(events, base) == \A i, j \in DOMAIN events : i < j => base[events[i]] <= base[events[j]]

\* AddTimeEvent adds a registry to the list and keeps the list in order.
LEMMA TimeEventAdded ==
    ASSUME NEW events \in Seq(Registry), NEW base \in [Registry -> Nat], NEW r \in Registry
    PROVE  /\ AddTimeEvent(events, base, r) \in Seq(Registry)
           /\ ToSet(AddTimeEvent(events, base, r)) = ToSet(events) \cup {r}
           /\ NoneTwice(events) /\ r \notin ToSet(events) => NoneTwice(AddTimeEvent(events, base, r))
           /\ Sorted(events, base) => Sorted(AddTimeEvent(events, base, r), base)
<1>1. PICK n \in Nat : n = Len(events) /\ DOMAIN events = 1..n
  OBVIOUS
<1> DEFINE Place(k) == /\ k \in 1..n + 1
                       /\ k <= n => base[events[k]] > base[r]
                       /\ \A j \in 1..k - 1 : base[events[j]] <= base[r]
<1>2. \E k : Place(k)
  <2> DEFINE S == {k \in 1..n + 1 : k <= n => base[events[k]] > base[r]}
  <2>1. S \in SUBSET Nat /\ n + 1 \in S
    BY <1>1
  <2>2. PICK k \in S : \A m \in S : k <= m
    <3> HIDE DEF S
    <3> QED BY <2>1, Least
  <2>3. ASSUME NEW j \in 1..k - 1 PROVE base[events[j]] <= base[r]
    <3>1. j \in 1..n /\ j \notin S
      BY <1>1, <2>2
    <3>2. events[j] \in Registry
      BY <1>1, <3>1
    <3> QED BY <3>1, <3>2
  <2> QED BY <2>2, <2>3
<1>3. PICK k : k = CHOOSE i \in 1..Len(events) + 1 :
                      /\ i <= Len(events) => base[events[i]] > base[r]
                      /\ \A j \in 1..i - 1 : base[events[j]] <= base[r]
  OBVIOUS
<1>4. Place(k)
  BY <1>1, <1>2, <1>3
<1>5. PICK t : t = AddTimeEvent(events, base, r)
  OBVIOUS
<1>6. t = InsertAt(events, k, r)
  BY <1>3, <1>5 DEF AddTimeEvent
<1>7. /\ t \in Seq(Registry) /\ DOMAIN t = 1..n + 1 /\ k \in 1..n + 1 /\ t[k] = r
      /\ \A i \in 1..k - 1 : t[i] = events[i]
      /\ \A i \in k..n : t[i + 1] = events[i]
  <2>1. k \in 1..Len(events) + 1
    BY <1>1, <1>4
  <2>2. /\ InsertAt(events, k, r) \in Seq(Registry)
        /\ DOMAIN InsertAt(events, k, r) = 1..Len(events) + 1
        /\ InsertAt(events, k, r)[k] = r
        /\ \A i \in 1..k - 1 : InsertAt(events, k, r)[i] = events[i]
        /\ \A i \in k..Len(events) : InsertAt(events, k, r)[i + 1] = events[i]
    <3> HIDE DEF Place
    <3>1. r \in Registry /\ events \in Seq(Registry)
      OBVIOUS
    <3> QED BY ONLY <2>1, <3>1, Inserted, SMTT(30)
  <2> QED BY <1>1, <1>6, <2>1, <2>2
<1>8. ASSUME NEW i \in 1..n + 1, i # k
      PROVE  \E p \in 1..n : p = (IF i < k THEN i ELSE i - 1) /\ t[i] = events[p]
  <2>1. CASE i < k
    BY <1>7, <2>1
  <2>2. CASE i > k
    <3>1. i - 1 \in k..n /\ (i - 1) + 1 = i /\ i - 1 \in 1..n
      BY <1>7, <2>2
    <3>2. PICK p \in 1..n : p = i - 1
      BY <3>1
    <3>3. p \in k..n /\ p + 1 = i /\ p = (IF i < k THEN i ELSE i - 1)
      BY <1>7, <2>2, <3>1, <3>2
    <3>4. t[i] = events[p]
      BY <1>7, <3>3
    <3> QED BY <3>3, <3>4
  <2> QED BY <1>7, <1>8, <2>1, <2>2
<1>10. ToSet(t) = ToSet(events) \cup {r}
  <2>1. ASSUME NEW i \in 1..n + 1 PROVE t[i] \in ToSet(events) \cup {r}
    BY <1>1, <1>7, <1>8 DEF ToSet
  <2>3. ASSUME NEW i \in 1..n PROVE events[i] \in ToSet(t)
    <3>1. CASE i < k
      <4>1. i \in 1..k - 1 /\ i \in 1..n + 1
        BY <1>7, <3>1
      <4> QED BY <1>7, <4>1 DEF ToSet
    <3>2. CASE i >= k
      <4>1. i \in k..n /\ i + 1 \in 1..n + 1
        BY <1>7, <3>2
      <4> QED BY <1>7, <4>1 DEF ToSet
    <3> QED BY <1>7, <3>1, <3>2
  <2>4. r \in ToSet(t)
    BY <1>7 DEF ToSet
  <2>5. ToSet(t) \subseteq ToSet(events) \cup {r}
    BY <1>7, <2>1 DEF ToSet
  <2>6. ToSet(events) \subseteq ToSet(t)
    BY <1>1, <2>3 DEF ToSet
  <2> QED BY <2>4, <2>5, <2>6
<1>11. ASSUME NoneTwice(events), r \notin ToSet(events) PROVE NoneTwice(t)
  <2>1. \A i \in 1..n : events[i] # r
    BY <1>1, <1>11 DEF ToSet
  <2>2. \A i, j \in 1..n : events[i] = events[j] => i = j
    BY <1>1, <1>11 DEF NoneTwice
  <2>3. ASSUME NEW i \in 1..n + 1, NEW j \in 1..n + 1, t[i] = t[j] PROVE i = j
    <3>1. i # k => t[i] # r
      BY <1>8, <2>1
    <3>2. j # k => t[j] # r
      BY <1>8, <2>1
    <3>3. CASE i # k /\ j # k
      <4>1. PICK p \in 1..n : p = (IF i < k THEN i ELSE i - 1) /\ t[i] = events[p]
        BY <1>8, <3>3
      <4>2. PICK q \in 1..n : q = (IF j < k THEN j ELSE j - 1) /\ t[j] = events[q]
        BY <1>8, <3>3
      <4>3. p = q
        BY <2>2, <2>3, <4>1, <4>2
      <4> QED BY <1>7, <3>3, <4>1, <4>2, <4>3
    <3> QED BY <1>7, <2>3, <3>1, <3>2, <3>3
  <2> QED BY <1>7, <2>3 DEF NoneTwice
<1>12. ASSUME Sorted(events, base) PROVE Sorted(t, base)
  <2>1. \A i \in 1..n : events[i] \in Registry /\ base[events[i]] \in Nat
    BY <1>1
  <2>2. \A i, j \in 1..n : i < j => base[events[i]] <= base[events[j]]
    BY <1>1, <1>12 DEF Sorted
  <2>3. base[r] \in Nat /\ \A j \in 1..k - 1 : base[events[j]] <= base[r]
    BY <1>4
  <2>4. ASSUME NEW j \in k..n PROVE base[r] <= base[events[j]]
    <3>1. k \in 1..n /\ base[events[k]] > base[r] /\ j \in 1..n
      BY <1>1, <1>4, <1>7
    <3>2. k < j => base[events[k]] <= base[events[j]]
      BY <2>2, <3>1
    <3> QED BY <2>1, <2>3, <3>1, <3>2
  <2>5. ASSUME NEW i \in 1..n + 1, NEW j \in 1..n + 1, i < j PROVE base[t[i]] <= base[t[j]]
    <3>1. CASE i = k
      <4>1. PICK q \in 1..n : q = (IF j < k THEN j ELSE j - 1) /\ t[j] = events[q]
        BY <1>8, <2>5, <3>1
      <4>2. q \in k..n
        BY <1>7, <2>5, <3>1, <4>1
      <4> QED BY <1>7, <2>4, <3>1, <4>1, <4>2
    <3>2. CASE j = k
      <4>1. i \in 1..k - 1
        BY <1>7, <2>5, <3>2
      <4> QED BY <1>7, <2>3, <3>2, <4>1
    <3>3. CASE i # k /\ j # k
      <4>1. PICK p \in 1..n : p = (IF i < k THEN i ELSE i - 1) /\ t[i] = events[p]
        BY <1>8, <3>3
      <4>2. PICK q \in 1..n : q = (IF j < k THEN j ELSE j - 1) /\ t[j] = events[q]
        BY <1>8, <3>3
      <4>3. p < q
        BY <1>7, <2>5, <3>3, <4>1, <4>2
      <4> QED BY <2>2, <4>1, <4>2, <4>3
    <3> QED BY <3>1, <3>2, <3>3
  <2> QED BY <1>7, <2>5 DEF Sorted
<1> QED BY <1>5, <1>7, <1>10, <1>11, <1>12

\* What holds first and from each number to the next holds of all.
LEMMA UpTo ==
    ASSUME NEW n \in Nat, NEW Good \in SUBSET (0..n), 0 \in Good,
           \A k \in 1..n : k - 1 \in Good => k \in Good
    PROVE  Good = 0..n
<1> DEFINE Bad == (0..n) \ Good
<1>1. ASSUME NEW k \in Bad, \A j \in Bad : k <= j PROVE FALSE
  <2>1. k \in 1..n /\ k - 1 \in 0..n /\ k - 1 < k
    OBVIOUS
  <2>2. k - 1 \notin Bad
    BY <1>1, <2>1
  <2> QED BY <2>1, <2>2
<1>2. Bad = {}
  <2>1. Bad \in SUBSET Nat
    OBVIOUS
  <2> HIDE DEF Bad
  <2> QED BY <1>1, <2>1, Least
<1> QED BY <1>2

\* Sequences without repetitions, and with nothing in common.
AllApart(seqs, n) ==
    /\ \A i \in 1..n : NoneTwice(seqs[i])
    /\ \A i, j \in 1..n : i # j => ToSet(seqs[i]) \cap ToSet(seqs[j]) = {}

\* What FlattenSeq does to a sequence of sequences.
LEMMA Flattened ==
    ASSUME NEW S, NEW n \in Nat, NEW seqs \in [1..n -> Seq(S)]
    PROVE  /\ FlattenSeq(seqs) \in Seq(S)
           /\ ToSet(FlattenSeq(seqs)) = UNION {ToSet(seqs[i]) : i \in 1..n}
           /\ AllApart(seqs, n) => NoneTwice(FlattenSeq(seqs))
<1>1. seqs \in Seq(Seq(S)) /\ Len(seqs) = n /\ DOMAIN seqs = 1..n /\ \A i \in 1..n : seqs[i] \in Seq(S)
  OBVIOUS
<1>2. CASE n = 0
  <2>1. FlattenSeq(seqs) = seqs /\ seqs = <<>>
    BY <1>1, <1>2 DEF FlattenSeq
  <2> QED BY <1>2, <2>1 DEF ToSet, NoneTwice
<1>3. CASE n # 0
  <2> DEFINE step == [k \in 1..n |-> [s \in Seq(S) |-> s \o seqs[k]]]
             Flattens(f) == f = [i \in 1..n |-> IF i = 1 THEN seqs[i] ELSE f[i - 1] \o seqs[i]]
             flatten == CHOOSE f : Flattens(f)
  <2>1. \E f : Flattens(f)
    <3>1. step \in [1..n -> [Seq(S) -> Seq(S)]] /\ <<>> \in Seq(S)
      BY <1>1
    <3>2. ASSUME NEW k \in 1..n, NEW s \in Seq(S) PROVE step[k][s] = s \o seqs[k]
      OBVIOUS
    <3> HIDE DEF step
    <3>3. PICK g : Computes(g, n, Seq(S), <<>>, step)
      BY <3>1, OneAfterTheOther
    <3> DEFINE f == [k \in 1..n |-> g[k]]
    <3>4. \A k \in 1..n : k - 1 \in 0..n /\ k \in 0..n /\ k # 0 /\ (k # 1 => k - 1 \in 1..n)
      OBVIOUS
    <3>5. ASSUME NEW k \in 1..n PROVE g[k] = g[k - 1] \o seqs[k]
      <4>1. g[k] = step[k][g[k - 1]] /\ g[k - 1] \in Seq(S)
        BY <3>3, <3>4 DEF Computes
      <4> QED BY <3>2, <4>1
    <3>6. g[0] = <<>>
      BY <3>3 DEF Computes
    <3>7. ASSUME NEW k \in 1..n PROVE f[k] = IF k = 1 THEN seqs[k] ELSE f[k - 1] \o seqs[k]
      <4>1. CASE k = 1
        <5>1. g[k] = <<>> \o seqs[k]
          <6>1. k - 1 = 0
            BY <4>1
          <6> QED BY <3>5, <3>6, <6>1
        <5>2. <<>> \o seqs[k] = seqs[k]
          BY <1>1
        <5> QED BY <4>1, <5>1, <5>2
      <4>2. CASE k # 1
        BY <3>4, <3>5, <4>2
      <4> QED BY <4>1, <4>2
    <3>8. Flattens(f)
      <4> DEFINE h(i) == IF i = 1 THEN seqs[i] ELSE f[i - 1] \o seqs[i]
      <4>1. \A k \in 1..n : f[k] = h(k)
        BY <3>7
      <4>2. f = [k \in 1..n |-> f[k]]
        OBVIOUS
      <4> HIDE DEF f, h
      <4>3. f = [k \in 1..n |-> h(k)]
        BY <4>1, <4>2
      <4> QED BY <4>3 DEF h
    <3> HIDE DEF f, Flattens
    <3> QED BY <3>8
  <2>2. Flattens(flatten)
    <3> HIDE DEF Flattens
    <3> QED BY <2>1
  <2>3. FlattenSeq(seqs) = flatten[n]
    BY <1>1, <1>3 DEF FlattenSeq
  <2> HIDE DEF flatten
  <2>4. flatten[1] = seqs[1] /\ \A k \in 2..n : flatten[k] = flatten[k - 1] \o seqs[k]
    <3>1. \A k \in 1..n : flatten[k] = IF k = 1 THEN seqs[k] ELSE flatten[k - 1] \o seqs[k]
      BY <2>2
    <3>2. 1 \in 1..n /\ \A k \in 2..n : k \in 1..n /\ k # 1
      BY <1>3
    <3> HIDE DEF Flattens
    <3> QED BY <3>1, <3>2
  <2> HIDE DEF Flattens
  <2> DEFINE Flat(k) == /\ flatten[k] \in Seq(S)
                        /\ ToSet(flatten[k]) = UNION {ToSet(seqs[i]) : i \in 1..k}
                        /\ AllApart(seqs, n) => NoneTwice(flatten[k])
             Good == {k \in 0..n : k = 0 \/ Flat(k)}
  <2>5. ASSUME NEW k \in 1..n, k - 1 \in Good PROVE k \in Good
    <3>1. CASE k = 1
      BY <1>1, <2>4, <3>1 DEF AllApart
    <3>2. CASE k # 1
      <4>1. k \in 2..n /\ k - 1 # 0 /\ \A i \in 1..k - 1 : i \in 1..n /\ i # k
        BY <3>2
      <4>2. Flat(k - 1)
        BY <2>5, <4>1
      <4>3. PICK s, t, u : s = flatten[k - 1] /\ t = seqs[k] /\ u = flatten[k]
        OBVIOUS
      <4>4. u = s \o t /\ s \in Seq(S) /\ t \in Seq(S)
        BY <1>1, <2>4, <4>1, <4>2, <4>3
      <4>5. u \in Seq(S) /\ ToSet(u) = ToSet(s) \cup ToSet(t)
        BY <4>4, Joined
      <4>6. ToSet(u) = UNION {ToSet(seqs[i]) : i \in 1..k}
        <5>1. \A i : i \in 1..k <=> i \in 1..k - 1 \/ i = k
          OBVIOUS
        <5>2. ToSet(s) = UNION {ToSet(seqs[i]) : i \in 1..k - 1}
          BY <4>2, <4>3
        <5> QED BY <4>3, <4>5, <5>1, <5>2
      <4>7. ASSUME AllApart(seqs, n) PROVE NoneTwice(u)
        <5>1. NoneTwice(s) /\ NoneTwice(t)
          BY <4>2, <4>3, <4>7 DEF AllApart
        <5>2. ToSet(s) \cap ToSet(t) = {}
          BY <4>1, <4>2, <4>3, <4>7 DEF AllApart
        <5> QED BY <4>4, <5>1, <5>2, Joined
      <4> QED BY <4>3, <4>5, <4>6, <4>7
    <3> QED BY <3>1, <3>2
  <2>6. Good = 0..n
    <3>1. Good \in SUBSET (0..n) /\ 0 \in Good
      OBVIOUS
    <3> HIDE DEF Good
    <3> QED BY <2>5, <3>1, UpTo
  <2>7. n \in Good
    <3>1. n \in 0..n
      OBVIOUS
    <3> QED BY <2>6, <3>1
  <2>8. Flat(n)
    BY <1>3, <2>7
  <2> QED BY <2>3, <2>8
<1> QED BY <1>2, <1>3

-----------------------------------------------------------------------------
(* Frequencies and steps *)

\* Every frequency a domain was created with is in range, and all divide some word.
LEMMA FrequenciesFit ==
    \E n \in 1..WordMax : \A d \in Domain : \A i \in DOMAIN Freqs[d] :
        Normalized(Freqs[d][i]) \in 1..WordMax /\ Divides(Normalized(Freqs[d][i]), n)
<1>1. PICK n \in 1..WordMax :
         \A d \in Domain : \A i \in DOMAIN Freqs[d] : n % ((Freqs[d][i] + 50) \div 100) = 0
  BY ClockServerConstants
<1>2. ASSUME NEW d \in Domain, NEW i \in DOMAIN Freqs[d]
      PROVE  Normalized(Freqs[d][i]) \in 1..WordMax /\ Divides(Normalized(Freqs[d][i]), n)
  <2>1. PICK f \in Nat \ (0..99) : f = Freqs[d][i]
    <3>1. PICK t \in Seq(Nat \ (0..99)) : t = Freqs[d]
      BY ClockServerConstants
    <3>2. i \in DOMAIN t
      BY <3>1
    <3>3. t[i] \in Nat \ (0..99)
      BY <3>2
    <3> QED BY <3>1, <3>3
  <2>2. PICK g \in Int : g = (f + 50) \div 100 /\ g >= 1
    <3>1. (f + 50) \div 100 \in Int /\ (f + 50) \div 100 >= 1
      BY <2>1
    <3> QED BY <3>1
  <2>3. n % g = 0 /\ Normalized(Freqs[d][i]) = g
    BY <1>1, <2>1, <2>2 DEF Normalized
  <2>4. n \in Nat /\ n <= WordMax /\ WordMax \in Nat /\ n >= 1
    BY FrequencyConstants
  <2>5. Divides(g, n)
    BY <2>2, <2>3, <2>4, DividesMod
  <2>6. g <= WordMax
    <3>1. PICK k \in Nat : n = g * k
      BY <2>5 DEF Divides
    <3>2. k # 0
      BY <2>2, <2>4, <3>1
    <3>3. g <= g * k
      BY <2>2, <3>2
    <3> QED BY <2>2, <2>4, <3>1, <3>3
  <2> QED BY <2>2, <2>3, <2>4, <2>5, <2>6
<1> QED BY <1>2

\* Bf is a multiple of every frequency of the created domains.
LEMMA BfWorks ==
    ASSUME lDomain \in Seq(Domain)
    PROVE  /\ Bf \in 1..WordMax
           /\ \A d \in ToSet(lDomain) : \A f \in normalizedFrequencies(d) :
                 f \in 1..WordMax /\ Divides(f, Bf)
<1>1. PICK n \in 1..WordMax : \A d \in Domain : \A i \in DOMAIN Freqs[d] :
         Normalized(Freqs[d][i]) \in 1..WordMax /\ Divides(Normalized(Freqs[d][i]), n)
  BY FrequenciesFit
<1> DEFINE seqs == [i \in DOMAIN lDomain |->
                      [j \in DOMAIN Freqs[lDomain[i]] |-> Normalized(Freqs[lDomain[i]][j])]]
<1>2. PICK m \in Nat : m = Len(lDomain) /\ DOMAIN lDomain = 1..m
  OBVIOUS
<1>3. ASSUME NEW i \in 1..m
      PROVE  /\ lDomain[i] \in Domain /\ seqs[i] \in Seq(1..WordMax)
             /\ ToSet(seqs[i]) = normalizedFrequencies(lDomain[i])
  <2>1. PICK d \in Domain : d = lDomain[i]
    BY <1>2
  <2>2. Freqs[d] \in Seq(Nat \ (0..99))
    BY ClockServerConstants
  <2>3. PICK l \in Nat : DOMAIN Freqs[d] = 1..l
    BY <2>2
  <2>4. seqs[i] = [j \in 1..l |-> Normalized(Freqs[d][j])]
    BY <1>2, <2>1, <2>3
  <2>5. [j \in 1..l |-> Normalized(Freqs[d][j])] \in [1..l -> 1..WordMax]
    BY <1>1, <2>3
  <2>6. seqs[i] \in Seq(1..WordMax)
    <3>1. ASSUME NEW S, NEW t \in [1..l -> S] PROVE t \in Seq(S)
      OBVIOUS
    <3> QED BY <2>4, <2>5, <3>1, Zenon
  <2>7. ToSet(seqs[i]) = normalizedFrequencies(d)
    <3>1. PICK t : t = [j \in 1..l |-> Normalized(Freqs[d][j])]
      OBVIOUS
    <3>2. ToSet(t) = {Normalized(Freqs[d][j]) : j \in 1..l}
      BY <3>1 DEF ToSet
    <3> QED BY <2>3, <2>4, <3>1, <3>2 DEF normalizedFrequencies
  <2> QED BY <2>1, <2>6, <2>7
<1>4. seqs \in [1..m -> Seq(1..WordMax)]
  BY <1>2, <1>3
<1>5. PICK freqs : freqs = FlattenSeq(seqs)
  OBVIOUS
<1>6. Bf = BaseFrequencyOf(freqs)
  BY <1>5 DEF Bf
<1> HIDE DEF seqs
<1>7. freqs \in Seq(1..WordMax) /\ ToSet(freqs) = UNION {ToSet(seqs[i]) : i \in 1..m}
  BY <1>4, <1>5, Flattened
<1>8. ASSUME NEW f \in ToSet(freqs) PROVE Divides(f, n)
  <2>1. PICK i \in 1..m : f \in ToSet(seqs[i])
    BY <1>7
  <2>2. PICK d \in Domain : f \in normalizedFrequencies(d)
    BY <1>3, <2>1
  <2> QED BY <1>1, <2>2 DEF normalizedFrequencies
<1>9. \A i \in DOMAIN freqs : Divides(freqs[i], n)
  BY <1>8 DEF ToSet
<1>10. Bf \in 1..WordMax /\ \A i \in DOMAIN freqs : Divides(freqs[i], Bf)
  BY <1>6, <1>7, <1>9, BaseFrequencyWorks
<1>11. ASSUME NEW d \in ToSet(lDomain), NEW f \in normalizedFrequencies(d)
       PROVE  f \in 1..WordMax /\ Divides(f, Bf)
  <2>1. PICK i \in 1..m : d = lDomain[i]
    BY <1>2 DEF ToSet
  <2>2. f \in ToSet(seqs[i])
    BY <1>3, <2>1
  <2>3. f \in ToSet(freqs)
    BY <1>7, <2>2
  <2>4. PICK j \in DOMAIN freqs : f = freqs[j]
    BY <2>3 DEF ToSet
  <2>5. freqs[j] \in 1..WordMax
    <3>1. ASSUME NEW S, NEW t \in Seq(S), NEW k \in DOMAIN t PROVE t[k] \in S
      OBVIOUS
    <3>2. freqs \in Seq(1..WordMax)
      BY <1>7
    <3> QED BY <2>4, <3>1, <3>2, Zenon
  <2> QED BY <1>10, <2>4, <2>5
<1> QED BY <1>10, <1>11

\* A period and the part of it that a skew is, in hundredths of a base cycle.
PeriodFits(b, f, skew) ==
    /\ (b \div f) * 100 \in Nat /\ (b \div f) * 100 >= 100 /\ (b \div f) * 100 <= 100 * b
    /\ ((b \div f) * 100) * f = 100 * b
    /\ (skew * b) \div f \in Nat /\ ((skew * b) \div f) * f = skew * b
    /\ (skew * b) \div f < (b \div f) * 100

\* A step of a frequency that divides the base frequency, and a skew in percent of it.
LEMMA StepWorks ==
    ASSUME NEW b \in Nat \ {0}, NEW f \in Nat \ {0}, Divides(f, b), NEW skew \in 0..99
    PROVE  PeriodFits(b, f, skew)
<1>1. PICK k \in Nat : b = f * k
  BY DEF Divides
<1>2. k # 0
  BY <1>1
<1>3. b \div f = k
  BY <1>1, DivideOut
<1>4. PICK p \in Nat : p = skew * k
  OBVIOUS
<1>5. skew * b = f * p
  BY <1>1, <1>4
<1>6. (skew * b) \div f = p
  BY <1>5, DivideOut
<1>7. (k * 100) * f = 100 * b /\ p * f = skew * b
  BY <1>1, <1>5
<1>8. k * 100 <= 100 * b
  <2>1. k <= f * k
    OBVIOUS
  <2> QED BY <1>1, <2>1
<1>9. p < k * 100
  <2>1. p <= 99 * k
    BY <1>4
  <2> QED BY <1>2, <2>1
<1> QED BY <1>2, <1>3, <1>6, <1>7, <1>8, <1>9 DEF PeriodFits

-----------------------------------------------------------------------------
(* The lists InitClockServer builds *)

\* The registries of the domains.
ListsOfDomains ==
    /\ NoneTwice(lDomain)
    /\ \A d \in Domain : NoneTwice(lClock[d])
    /\ \A d \in Domain : \A r \in ToSet(lClock[d]) : regDomain[r] = d /\ d \in ToSet(lDomain)

\* Every registry that has been created is found once.
LEMMA RegisteredOnce ==
    ASSUME lDomain \in Seq(Domain), lClock \in [Domain -> Seq(Registry)], ListsOfDomains
    PROVE  /\ Registered \in Seq(Registry) /\ ToSet(Registered) = AllRegistries
           /\ NoneTwice(Registered)
<1> DEFINE seqs == [i \in 1..Len(lDomain) |-> lClock[lDomain[i]]]
<1>1. PICK m \in Nat : m = Len(lDomain) /\ DOMAIN lDomain = 1..m
  OBVIOUS
<1>2. ASSUME NEW i \in 1..m
      PROVE  /\ lDomain[i] \in Domain /\ seqs[i] = lClock[lDomain[i]] /\ seqs[i] \in Seq(Registry)
             /\ NoneTwice(seqs[i]) /\ lDomain[i] \in ToSet(lDomain)
  <2>1. lDomain[i] \in Domain /\ i \in 1..Len(lDomain)
    BY <1>1
  <2>2. NoneTwice(lClock[lDomain[i]]) /\ lClock[lDomain[i]] \in Seq(Registry)
    BY <2>1 DEF ListsOfDomains
  <2> QED BY <1>1, <2>1, <2>2 DEF ToSet
<1>3. seqs \in [1..m -> Seq(Registry)]
  BY <1>1, <1>2
<1>4. Registered = FlattenSeq(seqs)
  BY DEF Registered
<1> HIDE DEF seqs
<1>5. ASSUME NEW i \in 1..m, NEW j \in 1..m, i # j PROVE ToSet(seqs[i]) \cap ToSet(seqs[j]) = {}
  <2>1. lDomain[i] # lDomain[j]
    BY <1>1, <1>5 DEF ListsOfDomains, NoneTwice
  <2>2. \A r \in ToSet(seqs[i]) : regDomain[r] = lDomain[i]
    BY <1>2 DEF ListsOfDomains
  <2>3. \A r \in ToSet(seqs[j]) : regDomain[r] = lDomain[j]
    BY <1>2 DEF ListsOfDomains
  <2> QED BY <2>1, <2>2, <2>3
<1>6. /\ Registered \in Seq(Registry) /\ NoneTwice(Registered)
      /\ ToSet(Registered) = UNION {ToSet(seqs[i]) : i \in 1..m}
  <2>1. AllApart(seqs, m)
    BY <1>2, <1>5 DEF AllApart
  <2> QED BY <1>3, <1>4, <2>1, Flattened
<1>7. ASSUME NEW r \in AllRegistries PROVE r \in ToSet(Registered)
  <2>1. PICK d \in Domain : d = regDomain[r] /\ r \in ToSet(lClock[d])
    BY ClockServerConstants DEF AllRegistries
  <2>2. d \in ToSet(lDomain)
    BY <2>1 DEF ListsOfDomains
  <2>3. PICK i \in 1..m : d = lDomain[i]
    BY <1>1, <2>2 DEF ToSet
  <2>4. r \in ToSet(seqs[i])
    BY <1>2, <2>1, <2>3
  <2> QED BY <1>6, <2>4
<1>8. ASSUME NEW r \in ToSet(Registered) PROVE r \in AllRegistries
  <2>1. PICK i \in 1..m : r \in ToSet(seqs[i])
    BY <1>6
  <2>2. PICK d \in Domain : r \in ToSet(lClock[d]) /\ lClock[d] \in Seq(Registry)
    BY <1>2, <2>1
  <2>3. regDomain[r] = d
    BY <2>2 DEF ListsOfDomains
  <2>4. r \in Registry
    BY <2>2 DEF ToSet
  <2> QED BY <2>2, <2>3, <2>4 DEF AllRegistries
<1> QED BY <1>6, <1>7, <1>8

\* The list of events InitClockServer builds holds each registry once, the earliest first.
LEMMA EventsBuilt ==
    ASSUME Registered \in Seq(Registry), NoneTwice(Registered), NEW base \in [Registry -> Nat]
    PROVE  /\ InitialEvents(base) \in Seq(Registry)
           /\ ToSet(InitialEvents(base)) = ToSet(Registered)
           /\ NoneTwice(InitialEvents(base)) /\ Sorted(InitialEvents(base), base)
<1>1. PICK n \in Nat : n = Len(Registered) /\ DOMAIN Registered = 1..n
  OBVIOUS
<1>2. \A k \in 1..n : Registered[k] \in Registry
  BY <1>1
<1> DEFINE step == [k \in 1..n |-> [s \in Seq(Registry) |-> AddTimeEvent(s, base, Registered[k])]]
           Adds(f) == f = [k \in 0..Len(Registered) |->
                              IF k = 0 THEN <<>> ELSE AddTimeEvent(f[k - 1], base, Registered[k])]
           added == CHOOSE f : Adds(f)
<1>3. \E f : Adds(f)
  <2>1. step \in [1..n -> [Seq(Registry) -> Seq(Registry)]] /\ <<>> \in Seq(Registry)
    BY <1>2, TimeEventAdded
  <2>2. ASSUME NEW k \in 1..n, NEW s \in Seq(Registry)
        PROVE  step[k][s] = AddTimeEvent(s, base, Registered[k])
    OBVIOUS
  <2> HIDE DEF step
  <2>3. PICK f : Computes(f, n, Seq(Registry), <<>>, step)
    BY <2>1, OneAfterTheOther
  <2>4. ASSUME NEW k \in 0..n, k # 0 PROVE f[k] = AddTimeEvent(f[k - 1], base, Registered[k])
    <3>1. k \in 1..n /\ k - 1 \in 0..n
      BY <2>4
    <3>2. f[k] = step[k][f[k - 1]] /\ f[k - 1] \in Seq(Registry)
      BY <2>3, <2>4, <3>1 DEF Computes
    <3> QED BY <2>2, <3>1, <3>2
  <2>5. f[0] = <<>> /\ f = [k \in 0..n |-> f[k]]
    BY <2>3 DEF Computes
  <2>6. f = [k \in 0..n |-> IF k = 0 THEN <<>> ELSE AddTimeEvent(f[k - 1], base, Registered[k])]
    <3> DEFINE h(k) == IF k = 0 THEN <<>> ELSE AddTimeEvent(f[k - 1], base, Registered[k])
    <3>1. \A k \in 0..n : f[k] = h(k)
      BY <2>4, <2>5
    <3> HIDE DEF h
    <3>2. f = [k \in 0..n |-> h(k)]
      BY <2>5, <3>1
    <3> QED BY <3>2 DEF h
  <2> QED BY <1>1, <2>6
<1>4. Adds(added)
  <2> HIDE DEF Adds
  <2> QED BY <1>3
<1>5. InitialEvents(base) = added[n]
  BY <1>1 DEF InitialEvents, AddAll
<1> HIDE DEF added
<1>6. \A k \in 0..n : added[k] = IF k = 0 THEN <<>> ELSE AddTimeEvent(added[k - 1], base, Registered[k])
  BY <1>1, <1>4
<1> HIDE DEF Adds
<1> DEFINE Listed(k) == /\ added[k] \in Seq(Registry)
                        /\ ToSet(added[k]) = {Registered[i] : i \in 1..k}
                        /\ NoneTwice(added[k]) /\ Sorted(added[k], base)
           Good == {k \in 0..n : Listed(k)}
<1>7. 0 \in Good
  <2>1. added[0] = <<>> /\ 0 \in 0..n /\ 1..0 = {}
    BY <1>6
  <2>2. ToSet(<<>>) = {} /\ NoneTwice(<<>>) /\ Sorted(<<>>, base) /\ <<>> \in Seq(Registry)
    BY DEF ToSet, NoneTwice, Sorted
  <2>3. {Registered[i] : i \in 1..0} = {}
    BY <2>1
  <2> QED BY <2>1, <2>2, <2>3
<1>8. ASSUME NEW k \in 1..n, k - 1 \in Good PROVE k \in Good
  <2>1. k \in 0..n /\ k # 0
    OBVIOUS
  <2>2. PICK s, r : s = added[k - 1] /\ r = Registered[k]
    OBVIOUS
  <2>3. /\ s \in Seq(Registry) /\ r \in Registry /\ ToSet(s) = {Registered[i] : i \in 1..k - 1}
        /\ NoneTwice(s) /\ Sorted(s, base)
    BY <1>2, <1>8, <2>2
  <2>4. r \notin ToSet(s)
    <3>1. \A i \in 1..k - 1 : i \in 1..n /\ i # k
      OBVIOUS
    <3>2. \A i \in 1..k - 1 : Registered[i] # r
      BY <1>1, <2>2, <3>1 DEF NoneTwice
    <3> QED BY <2>3, <3>2
  <2>5. added[k] = AddTimeEvent(s, base, r)
    BY <1>6, <2>1, <2>2
  <2>6. /\ added[k] \in Seq(Registry) /\ ToSet(added[k]) = ToSet(s) \cup {r}
        /\ NoneTwice(added[k]) /\ Sorted(added[k], base)
    <3>1. s \in Seq(Registry) /\ r \in Registry
      BY <2>3
    <3>2. NoneTwice(s) /\ Sorted(s, base)
      BY <2>3
    <3> QED BY <2>4, <2>5, <3>1, <3>2, TimeEventAdded
  <2>7. ToSet(added[k]) = {Registered[i] : i \in 1..k}
    <3>1. \A i : i \in 1..k <=> i \in 1..k - 1 \/ i = k
      OBVIOUS
    <3> QED BY <2>2, <2>3, <2>6, <3>1
  <2> QED BY <2>1, <2>6, <2>7
<1>9. Good = 0..n
  <2>1. Good \in SUBSET (0..n)
    OBVIOUS
  <2> HIDE DEF Good
  <2> QED BY <1>7, <1>8, <2>1, UpTo
<1>10. Listed(n)
  <2>1. n \in 0..n
    OBVIOUS
  <2>2. n \in Good
    BY <1>9, <2>1
  <2> QED BY <2>2
<1> HIDE DEF Good
<1>11. /\ added[n] \in Seq(Registry) /\ ToSet(added[n]) = {Registered[i] : i \in 1..n}
       /\ NoneTwice(added[n]) /\ Sorted(added[n], base)
  BY <1>10
<1>12. {Registered[i] : i \in 1..n} = ToSet(Registered)
  BY <1>1 DEF ToSet
<1> HIDE DEF Listed
<1> QED BY <1>1, <1>5, <1>11, <1>12

\* The writer rate matchers that join a registry are those that are read in it.
LEMMA ConnectedWorks ==
    ASSUME NEW r \in Registry, lWriterRM[r] = <<>>, lrateWriter \in Seq(WriterRM), NoneTwice(lrateWriter)
    PROVE  /\ Connected(r) \in Seq(WriterRM) /\ NoneTwice(Connected(r))
           /\ ToSet(Connected(r)) = {c \in ToSet(lrateWriter) : cbReg[c] = r}
<1>1. PICK n \in Nat : n = Len(lrateWriter) /\ DOMAIN lrateWriter = 1..n
  OBVIOUS
<1>2. \A k \in 1..n : lrateWriter[k] \in WriterRM
  BY <1>1
<1> DEFINE next(s, k) == IF cbReg[lrateWriter[k]] = r THEN Append(s, lrateWriter[k]) ELSE s
           step == [k \in 1..n |-> [s \in Seq(WriterRM) |-> next(s, k)]]
           Joins(f) == f = [k \in 0..Len(lrateWriter) |->
                               IF k = 0 THEN lWriterRM[r]
                               ELSE IF cbReg[lrateWriter[k]] = r THEN Append(f[k - 1], lrateWriter[k])
                               ELSE f[k - 1]]
           upTo == CHOOSE f : Joins(f)
<1>3. \E f : Joins(f)
  <2>1. step \in [1..n -> [Seq(WriterRM) -> Seq(WriterRM)]] /\ <<>> \in Seq(WriterRM)
    BY <1>2
  <2>2. ASSUME NEW k \in 1..n, NEW s \in Seq(WriterRM) PROVE step[k][s] = next(s, k)
    OBVIOUS
  <2> HIDE DEF step, next
  <2>3. PICK f : Computes(f, n, Seq(WriterRM), <<>>, step)
    BY <2>1, OneAfterTheOther
  <2>4. ASSUME NEW k \in 0..n, k # 0 PROVE f[k] = next(f[k - 1], k)
    <3>1. k \in 1..n /\ k - 1 \in 0..n
      BY <2>4
    <3>2. f[k] = step[k][f[k - 1]] /\ f[k - 1] \in Seq(WriterRM)
      BY <2>3, <2>4, <3>1 DEF Computes
    <3> QED BY <2>2, <3>1, <3>2
  <2>5. f[0] = <<>> /\ f = [k \in 0..n |-> f[k]]
    BY <2>3 DEF Computes
  <2>6. f = [k \in 0..n |-> IF k = 0 THEN lWriterRM[r]
                            ELSE IF cbReg[lrateWriter[k]] = r THEN Append(f[k - 1], lrateWriter[k])
                            ELSE f[k - 1]]
    <3> DEFINE h(k) == IF k = 0 THEN lWriterRM[r]
                       ELSE IF cbReg[lrateWriter[k]] = r THEN Append(f[k - 1], lrateWriter[k])
                       ELSE f[k - 1]
    <3>1. \A k \in 0..n : f[k] = h(k)
      BY <2>4, <2>5 DEF next
    <3> HIDE DEF h
    <3>2. f = [k \in 0..n |-> h(k)]
      BY <2>5, <3>1
    <3> QED BY <3>2 DEF h
  <2> QED BY <1>1, <2>6
<1>4. Joins(upTo)
  <2> HIDE DEF Joins
  <2> QED BY <1>3
<1>5. Connected(r) = upTo[n]
  BY <1>1 DEF Connected
<1> HIDE DEF upTo
<1>6. \A k \in 0..n : upTo[k] = IF k = 0 THEN <<>> ELSE next(upTo[k - 1], k)
  BY <1>1, <1>4
<1> HIDE DEF Joins
<1> DEFINE Listed(k) == /\ upTo[k] \in Seq(WriterRM) /\ NoneTwice(upTo[k])
                        /\ ToSet(upTo[k]) = {lrateWriter[i] : i \in {j \in 1..k : cbReg[lrateWriter[j]] = r}}
           Good == {k \in 0..n : Listed(k)}
<1>7. 0 \in Good
  <2>1. upTo[0] = <<>> /\ 0 \in 0..n /\ 1..0 = {}
    BY <1>6
  <2>2. ToSet(<<>>) = {} /\ NoneTwice(<<>>) /\ <<>> \in Seq(WriterRM)
    BY DEF ToSet, NoneTwice
  <2>3. {lrateWriter[i] : i \in {j \in 1..0 : cbReg[lrateWriter[j]] = r}} = {}
    BY <2>1
  <2> QED BY <2>1, <2>2, <2>3
<1>8. ASSUME NEW k \in 1..n, k - 1 \in Good PROVE k \in Good
  <2>1. k \in 0..n /\ k # 0
    OBVIOUS
  <2>2. PICK s, c : s = upTo[k - 1] /\ c = lrateWriter[k]
    OBVIOUS
  <2>3. /\ s \in Seq(WriterRM) /\ c \in WriterRM /\ NoneTwice(s)
        /\ ToSet(s) = {lrateWriter[i] : i \in {j \in 1..k - 1 : cbReg[lrateWriter[j]] = r}}
    BY <1>2, <1>8, <2>2
  <2>4. c \notin ToSet(s)
    <3>1. \A i \in 1..k - 1 : i \in 1..n /\ i # k
      OBVIOUS
    <3>2. \A i \in 1..k - 1 : lrateWriter[i] # c
      BY <1>1, <2>2, <3>1 DEF NoneTwice
    <3> QED BY <2>3, <3>2
  <2>5. upTo[k] = IF cbReg[c] = r THEN Append(s, c) ELSE s
    BY <1>6, <2>1, <2>2
  <2>6. \A i : i \in 1..k <=> i \in 1..k - 1 \/ i = k
    OBVIOUS
  <2>7. CASE cbReg[c] = r
    <3>1. upTo[k] \in Seq(WriterRM) /\ NoneTwice(upTo[k]) /\ ToSet(upTo[k]) = ToSet(s) \cup {c}
      BY <2>3, <2>4, <2>5, <2>7, Appended
    <3> QED BY <2>1, <2>2, <2>3, <2>6, <2>7, <3>1
  <2>8. CASE cbReg[c] # r
    BY <2>1, <2>2, <2>3, <2>5, <2>6, <2>8
  <2> QED BY <2>7, <2>8
<1>9. Good = 0..n
  <2>1. Good \in SUBSET (0..n)
    OBVIOUS
  <2> HIDE DEF Good
  <2> QED BY <1>7, <1>8, <2>1, UpTo
<1>10. Listed(n)
  <2>1. n \in 0..n
    OBVIOUS
  <2>2. n \in Good
    BY <1>9, <2>1
  <2> QED BY <2>2
<1> HIDE DEF Good
<1>11. PICK t : t = upTo[n]
  OBVIOUS
<1>12. ToSet(t) = {lrateWriter[i] : i \in {j \in 1..n : cbReg[lrateWriter[j]] = r}}
  BY <1>10, <1>11
<1>13. ToSet(lrateWriter) = {lrateWriter[i] : i \in 1..n}
  BY <1>1 DEF ToSet
<1>14. ToSet(t) = {c \in ToSet(lrateWriter) : cbReg[c] = r}
  BY <1>12, <1>13
<1> QED BY <1>5, <1>10, <1>11, <1>14

-----------------------------------------------------------------------------
(* The inductive invariant *)

\* A domain whose registries are clocked in a fixed order keeps its frequency, unless it has
\* only one registry.
SkewsKeepFrequency ==
    uniqueDomainOptimization =>
        \A r, s \in Registry : r # s /\ regDomain[r] = regDomain[s] =>
            \A f, g \in normalizedFrequencies(regDomain[r]) : f = g

\* The variables that no clocking loop changes.
staticVars == <<restarts, domainVars, listVars, lWriterRM, stepVars, referenceVars,
                uniqueClockDomain, changed>>

StaticTypes ==
    /\ restarts \in 0..MaxRestarts /\ RandomClocking \in BOOLEAN /\ changed \in BOOLEAN
    /\ uniqueClockDomain \in BOOLEAN
    /\ lDomain \in Seq(Domain) /\ currentFrequency \in [Domain -> Nat]
    /\ lClock \in [Domain -> Seq(Registry)]
    /\ lModules \in [Registry -> Seq(Callback)] /\ lWriterRM \in [Registry -> Seq(WriterRM)]
    /\ lrateWriter \in Seq(WriterRM)
    /\ nFrequency \in [Registry -> Nat] /\ nStep \in [Registry -> Nat]
    /\ referenceClockDomain \in Domain \cup {NoDomain}
    /\ referenceClockRegitry \in Registry \cup {NoRegistry}
    /\ firstClockRegitry \in Registry \cup {NoRegistry}

LoopTypes ==
    /\ pc \in {"config", "idle", "modules", "writers", "failed"}
    /\ nBaseCycle \in [Registry -> Nat] /\ nCycle \in [Registry -> Nat]
    /\ lTimeEvents \in Seq(Registry) /\ lClockedEvents \in Seq(Registry)
    /\ toCall \in Seq(Callback) /\ mayChange \in BOOLEAN
    /\ currentBaseCycle \in Nat /\ it \in Nat /\ internalBaseCycle \in Nat
    /\ currentCycle \in [Callback -> Nat] /\ calls \in [Callback -> Nat]

\* The lists of the configuration.
CreatedInv ==
    /\ ListsOfDomains
    /\ \A d \in ToSet(lDomain) : currentFrequency[d] \in normalizedFrequencies(d)
    /\ NoneTwice(lrateWriter)
    /\ \A r \in Registry : NoneTwice(lModules[r]) /\ NoneTwice(lWriterRM[r])
    /\ \A r \in Registry : \A c \in ToSet(lModules[r]) : cbReg[c] = r /\ c \notin WriterRM
    /\ \A r \in Registry : \A c \in ToSet(lWriterRM[r]) : cbReg[c] = r
    /\ \A r \in AllRegistries : nFrequency[r] = currentFrequency[regDomain[r]]

\* What is still to be set up ...
ConfigInv ==
    pc = "config" =>
        /\ \A r \in Registry : lWriterRM[r] = <<>>
        /\ \A r \in AllRegistries : nCycle[r] = 0
        /\ calls = [c \in Callback |-> 0] /\ ~changed

\* ... and what InitClockServer has set up.
StartedInv ==
    pc # "config" =>
        /\ \A r \in AllRegistries : nStep[r] = StepOf(nFrequency[r])
        /\ uniqueClockDomain = (Len(lDomain) <= 1 /\ uniqueDomainOptimization)
        /\ \A c \in Callback : cbReg[c] \in AllRegistries =>
              c \in ToSet(lModules[cbReg[c]]) \cup ToSet(lWriterRM[cbReg[c]])

StaticInv == StaticTypes /\ CreatedInv /\ StartedInv

Running == pc \in {"idle", "modules", "writers"}

\* When there may be clocked events, and when a module may change a frequency.
PhaseInv ==
    /\ mayChange => pc = "modules"
    /\ pc \in {"config", "idle"} \/ UniqueLoop => lClockedEvents = <<>>

\* Each registry is in the list of events, or has been taken off and is to be put back.
EventsInv ==
    Running =>
        /\ NoneTwice(lTimeEvents) /\ NoneTwice(lClockedEvents)
        /\ ToSet(lClockedEvents) \subseteq AllRegistries
        /\ ToSet(lTimeEvents) = AllRegistries \ ToSet(Pending)

\* The callbacks the current registry has in this phase.
CallsOf(r) == IF pc = "modules" THEN lModules[r] ELSE lWriterRM[r]

\* Where the loops are.
PlaceInv ==
    Clocking =>
        /\ UniqueLoop => it \in DOMAIN lTimeEvents
        /\ ~UniqueLoop => lClockedEvents # <<>>
        /\ ~UniqueLoop /\ pc = "writers" => it \in DOMAIN lClockedEvents
        /\ NoneTwice(toCall) /\ ToSet(toCall) \subseteq ToSet(CallsOf(CurrentEvent))

\* Has the callback been called for the cycle its registry is in?
Called(c) ==
    /\ Clocking
    /\ \/ cbReg[c] = CurrentEvent /\ c \notin ToSet(toCall) /\ (pc = "modules" => c \notin WriterRM)
       \/ ~UniqueLoop /\ c \notin WriterRM /\ cbReg[c] \in ToSet(Pending) \ {CurrentEvent}

\* Every callback has been called once for each cycle.
CallInv ==
    Running => \A c \in Callback : cbReg[c] \in AllRegistries =>
        calls[c] = nCycle[cbReg[c]] + IF Called(c) THEN 1 ELSE 0

\* The registries that have completed their cycle in this call.
Done == IF UniqueLoop THEN IF Clocking THEN {lTimeEvents[i] : i \in 1..it - 1} ELSE {}
        ELSE Advanced

\* When a registry was due as the call began.
Since(r) == IF r \in Done THEN nBaseCycle[r] - nStep[r] ELSE nBaseCycle[r]

\* Time is known to advance in order unless a frequency has been changed and registries of
\* the same domain are not sorted again.
Trusted == Running /\ (changed => SkewsKeepFrequency)

\* A registry alone is in order.
SingleInv == uniqueClockDomain /\ changed => \A r, s \in AllRegistries : r = s

\* Times stay below those of the cycles within the bound.
BoundInv == \A r \in AllRegistries : nBaseCycle[r] < 100 * Bf * (nCycle[r] + 1) /\ nBaseCycle[r] < Never

\* No registry is a period ahead of another, ...
SpreadInv == ~changed => \A r, s \in AllRegistries : Since(r) - nStep[r] < Since(s)

\* ... each is due exactly where its frequency and its skew put it, ...
ExactInv == ~changed => \A r \in AllRegistries :
                nBaseCycle[r] * nFrequency[r] = (100 * nCycle[r] + nSkew[r]) * Bf

\* ... the list is in order ...
SortedInv ==
    /\ UniqueLoop => \A i, j \in DOMAIN lTimeEvents : i < j => Since(lTimeEvents[i]) <= Since(lTimeEvents[j])
    /\ ~UniqueLoop => Sorted(lTimeEvents, nBaseCycle)

\* ... and those that are clocked are the earliest.
TurnInv ==
    /\ Clocking /\ UniqueLoop => Since(lTimeEvents[1]) < 100 * Bf * MaxCycle
    /\ Clocking /\ ~UniqueLoop =>
          /\ \A r \in ToSet(lClockedEvents) : Since(r) = currentBaseCycle
          /\ \A r \in ToSet(lTimeEvents) : /\ nBaseCycle[r] >= currentBaseCycle
                                           /\ pc = "writers" => nBaseCycle[r] > currentBaseCycle
          /\ currentBaseCycle < 100 * Bf * MaxCycle

OrderInv == Trusted => SingleInv /\ BoundInv /\ SpreadInv /\ ExactInv /\ SortedInv /\ TurnInv

IInv == /\ StaticInv /\ LoopTypes /\ ConfigInv /\ PhaseInv /\ EventsInv /\ PlaceInv
        /\ CallInv /\ OrderInv

-----------------------------------------------------------------------------
(* What the loops can rely on *)

\* The loops leave everything that has been configured alone.
LEMMA StaticKept ==
    ASSUME StaticInv, pc # "config", pc' # "config", UNCHANGED staticVars
    PROVE  /\ StaticInv' /\ ConfigInv' /\ AllRegistries' = AllRegistries /\ Bf' = Bf /\ Never' = Never
           /\ UniqueLoop' = UniqueLoop
<1> USE DEF staticVars, domainVars, listVars, stepVars, referenceVars
<1>1. AllRegistries' = AllRegistries
  BY DEF AllRegistries
<1>2. Bf' = Bf
  BY DEF Bf
<1>3. Never' = Never
  BY <1>2 DEF Never
<1>4. StaticTypes'
  BY DEF StaticInv, StaticTypes
<1>5. CreatedInv'
  BY <1>1 DEF StaticInv, CreatedInv, ListsOfDomains, NoneTwice
<1>6. StartedInv'
  BY <1>1, <1>2 DEF StaticInv, StartedInv, StepOf
<1>7. ConfigInv'
  BY DEF ConfigInv
<1>8. UniqueLoop' = UniqueLoop
  BY DEF UniqueLoop
<1> QED BY <1>1, <1>2, <1>3, <1>4, <1>5, <1>6, <1>7, <1>8 DEF StaticInv

\* The base frequency, and the steps of the registries.
LEMMA StepsFit ==
    ASSUME StaticInv, pc # "config"
    PROVE  /\ Bf \in Nat /\ Bf >= 1
           /\ \A r \in AllRegistries :
                 /\ r \in Registry /\ nStep[r] \in Nat /\ nStep[r] >= 100 /\ nStep[r] <= 100 * Bf
                 /\ nFrequency[r] \in Nat /\ nFrequency[r] >= 1 /\ nStep[r] * nFrequency[r] = 100 * Bf
<1>1. lDomain \in Seq(Domain) /\ WordMax \in Nat
  BY FrequencyConstants DEF StaticInv, StaticTypes
<1>2. /\ Bf \in 1..WordMax
      /\ \A d \in ToSet(lDomain) : \A f \in normalizedFrequencies(d) : f \in 1..WordMax /\ Divides(f, Bf)
  BY <1>1, BfWorks
<1>3. PICK b \in Nat \ {0} : b = Bf
  BY <1>1, <1>2
<1>4. ASSUME NEW r \in AllRegistries
      PROVE  /\ r \in Registry /\ nStep[r] \in Nat /\ nStep[r] >= 100 /\ nStep[r] <= 100 * b
             /\ nFrequency[r] \in Nat /\ nFrequency[r] >= 1 /\ nStep[r] * nFrequency[r] = 100 * b
  <2>1. r \in Registry /\ regDomain[r] \in Domain /\ r \in ToSet(lClock[regDomain[r]])
    BY ClockServerConstants DEF AllRegistries
  <2>2. regDomain[r] \in ToSet(lDomain) /\ nFrequency[r] = currentFrequency[regDomain[r]]
    BY <2>1 DEF StaticInv, CreatedInv, ListsOfDomains
  <2>3. nFrequency[r] \in normalizedFrequencies(regDomain[r])
    BY <2>2 DEF StaticInv, CreatedInv
  <2>4. PICK f \in Nat \ {0} : f = nFrequency[r] /\ Divides(f, b)
    BY <1>1, <1>2, <1>3, <2>2, <2>3
  <2>5. nStep[r] = (b \div f) * 100
    BY <1>3, <2>4 DEF StaticInv, StartedInv, StepOf
  <2>6. /\ (b \div f) * 100 \in Nat /\ (b \div f) * 100 >= 100 /\ (b \div f) * 100 <= 100 * b
        /\ ((b \div f) * 100) * f = 100 * b
    <3>1. 0 \in 0..99
      OBVIOUS
    <3>2. PeriodFits(b, f, 0)
      BY <2>4, <3>1, StepWorks
    <3> QED BY ONLY <3>2 DEF PeriodFits
  <2> QED BY <2>1, <2>4, <2>5, <2>6
<1> QED BY <1>3, <1>4

\* The registries of a single domain have the same frequency.
LEMMA OneDomain ==
    ASSUME StaticInv, pc # "config", uniqueClockDomain,
           NEW r \in AllRegistries, NEW s \in AllRegistries
    PROVE  regDomain[r] = regDomain[s] /\ nFrequency[r] = nFrequency[s] /\ nStep[r] = nStep[s]
<1>1. PICK m \in Nat : m = Len(lDomain) /\ DOMAIN lDomain = 1..m
  BY DEF StaticInv, StaticTypes
<1>2. m <= 1
  BY <1>1 DEF StaticInv, StartedInv
<1>3. ASSUME NEW q \in AllRegistries PROVE regDomain[q] \in ToSet(lDomain)
  <2>1. regDomain[q] \in Domain /\ q \in ToSet(lClock[regDomain[q]])
    BY ClockServerConstants DEF AllRegistries
  <2> QED BY <2>1 DEF StaticInv, CreatedInv, ListsOfDomains
<1>4. regDomain[r] = regDomain[s]
  <2>1. PICK i, j : i \in 1..m /\ j \in 1..m /\ regDomain[r] = lDomain[i] /\ regDomain[s] = lDomain[j]
    BY <1>1, <1>3 DEF ToSet
  <2>2. i = j
    BY <1>2, <2>1
  <2> QED BY <2>1, <2>2
<1>5. nFrequency[r] = nFrequency[s]
  BY <1>4 DEF StaticInv, CreatedInv
<1> QED BY <1>4, <1>5 DEF StaticInv, StartedInv

\* A callback of a registry is in one of its lists.
LEMMA WhoseCalls ==
    ASSUME StaticInv, pc # "config", NEW c \in Callback, cbReg[c] \in AllRegistries
    PROVE  /\ cbReg[c] \in Registry
           /\ c \in WriterRM <=> c \in ToSet(lWriterRM[cbReg[c]])
           /\ c \notin WriterRM <=> c \in ToSet(lModules[cbReg[c]])
<1>1. cbReg[c] \in Registry
  BY ClockServerConstants
<1>2. c \in ToSet(lModules[cbReg[c]]) \/ c \in ToSet(lWriterRM[cbReg[c]])
  BY DEF StaticInv, StartedInv
<1>3. c \in ToSet(lModules[cbReg[c]]) => c \notin WriterRM
  BY <1>1 DEF StaticInv, CreatedInv
<1>4. c \in ToSet(lWriterRM[cbReg[c]]) => c \in WriterRM
  <2>1. lWriterRM[cbReg[c]] \in Seq(WriterRM)
    BY <1>1 DEF StaticInv, StaticTypes
  <2> QED BY <2>1 DEF ToSet
<1> QED BY <1>1, <1>2, <1>3, <1>4

\* The callbacks in the lists of a registry.
LEMMA CallsOfRegistry ==
    ASSUME StaticInv, NEW r \in Registry
    PROVE  /\ CallsOf(r) \in Seq(Callback) /\ NoneTwice(CallsOf(r))
           /\ lModules[r] \in Seq(Callback) /\ NoneTwice(lModules[r])
           /\ lWriterRM[r] \in Seq(Callback) /\ NoneTwice(lWriterRM[r])
           /\ \A c \in ToSet(lModules[r]) : c \in Callback /\ cbReg[c] = r /\ c \notin WriterRM
           /\ \A c \in ToSet(lWriterRM[r]) : c \in Callback /\ cbReg[c] = r /\ c \in WriterRM
<1>1. lModules[r] \in Seq(Callback) /\ lWriterRM[r] \in Seq(WriterRM) /\ WriterRM \subseteq Callback
  BY ClockServerConstants DEF StaticInv, StaticTypes
<1>2. ASSUME NEW S, NEW T, S \subseteq T, NEW s \in Seq(S) PROVE s \in Seq(T) /\ \A x \in ToSet(s) : x \in S
  BY <1>2 DEF ToSet
<1>3. lWriterRM[r] \in Seq(Callback) /\ \A x \in ToSet(lWriterRM[r]) : x \in WriterRM
  BY <1>1, <1>2
<1>4. \A x \in ToSet(lModules[r]) : x \in Callback
  BY <1>1 DEF ToSet
<1>5. /\ NoneTwice(lModules[r]) /\ NoneTwice(lWriterRM[r])
      /\ \A c \in ToSet(lModules[r]) : cbReg[c] = r /\ c \notin WriterRM
      /\ \A c \in ToSet(lWriterRM[r]) : cbReg[c] = r
  BY DEF StaticInv, CreatedInv
<1> QED BY <1>1, <1>3, <1>4, <1>5 DEF CallsOf

\* Clock: the clocked events are those that have completed their cycle, which are back in the
\* list, and those that have not.
LEMMA Shares ==
    ASSUME LoopTypes, EventsInv, PlaceInv, Clocking, ~UniqueLoop
    PROVE  /\ CurrentEvent \in AllRegistries /\ CurrentEvent \in ToSet(Pending)
           /\ Advanced \cap ToSet(Pending) = {}
           /\ Advanced \cup ToSet(Pending) = ToSet(lClockedEvents)
           /\ Advanced \subseteq ToSet(lTimeEvents)
           /\ pc = "modules" => Advanced = {} /\ Pending = lClockedEvents
           /\ pc = "writers" => /\ CurrentEvent = lClockedEvents[it]
                                /\ Advanced = {lClockedEvents[i] : i \in 1..it - 1}
                                /\ ToSet(Pending) = {lClockedEvents[i] : i \in it..Len(lClockedEvents)}
<1>1. PICK n \in Nat : n = Len(lClockedEvents) /\ DOMAIN lClockedEvents = 1..n
  BY DEF LoopTypes
<1>2. /\ ToSet(lClockedEvents) \subseteq AllRegistries /\ NoneTwice(lClockedEvents)
      /\ ToSet(lTimeEvents) = AllRegistries \ ToSet(Pending) /\ lClockedEvents # <<>>
      /\ lClockedEvents \in Seq(Registry)
  BY DEF EventsInv, Running, PlaceInv, Clocking, LoopTypes
<1>3. n >= 1
  BY <1>1, <1>2
<1>4. CASE pc = "modules"
  <2>1. Pending = lClockedEvents /\ Advanced = {} /\ CurrentEvent = lClockedEvents[n]
    BY <1>1, <1>4 DEF Pending, Advanced, CurrentEvent, Last
  <2>2. lClockedEvents[n] \in ToSet(lClockedEvents)
    BY <1>1, <1>3 DEF ToSet
  <2> QED BY <1>2, <1>4, <2>1, <2>2
<1>5. CASE pc = "writers"
  <2>1. it \in 1..n
    BY <1>1, <1>5 DEF PlaceInv, Clocking
  <2>2. /\ Pending = SubSeq(lClockedEvents, it, n) /\ CurrentEvent = lClockedEvents[it]
        /\ Advanced = {lClockedEvents[i] : i \in 1..it - 1}
    BY <1>1, <1>5 DEF Pending, Advanced, CurrentEvent
  <2>3. ToSet(Pending) = {lClockedEvents[i] : i \in it..n}
    BY <1>1, <1>2, <2>1, <2>2, FromPlace
  <2>4. it \in it..n
    BY <2>1
  <2>5. \A i \in 1..it - 1 : \A j \in it..n : lClockedEvents[i] # lClockedEvents[j]
    BY <1>1, <1>2, <2>1 DEF NoneTwice
  <2>6. \A i : i \in 1..n <=> i \in 1..it - 1 \/ i \in it..n
    BY <2>1
  <2>7. ToSet(lClockedEvents) = {lClockedEvents[i] : i \in 1..n}
    BY <1>1 DEF ToSet
  <2>8. Advanced \cup ToSet(Pending) = ToSet(lClockedEvents)
    BY <2>2, <2>3, <2>6, <2>7
  <2>9. Advanced \cap ToSet(Pending) = {}
    BY <2>2, <2>3, <2>5
  <2> QED BY <1>1, <1>2, <1>5, <2>2, <2>3, <2>4, <2>8, <2>9
<1> QED BY <1>4, <1>5 DEF Clocking

\* UniqueDomainClock: all the registries are in the list.
LEMMA InList ==
    ASSUME LoopTypes, EventsInv, PhaseInv, Running, UniqueLoop \/ pc = "idle"
    PROVE  /\ ToSet(lTimeEvents) = AllRegistries /\ NoneTwice(lTimeEvents)
           /\ lClockedEvents = <<>> /\ Pending = <<>> /\ Advanced = {}
<1>1. lClockedEvents = <<>>
  BY DEF PhaseInv
<1>2. Pending = <<>>
  BY <1>1 DEF Pending
<1>3. Advanced = {}
  BY DEF Advanced
<1>4. ToSet(Pending) = {}
  BY <1>2 DEF ToSet
<1> QED BY <1>1, <1>2, <1>3, <1>4 DEF EventsInv

\* The registry that is being clocked.
LEMMA Current ==
    ASSUME LoopTypes, EventsInv, PhaseInv, PlaceInv, Clocking
    PROVE  CurrentEvent \in AllRegistries /\ CurrentEvent \in Registry
<1>1. CASE UniqueLoop
  <2>1. CurrentEvent = lTimeEvents[it] /\ it \in DOMAIN lTimeEvents
    BY <1>1 DEF CurrentEvent, PlaceInv
  <2>2. ToSet(lTimeEvents) = AllRegistries
    BY <1>1, InList DEF Running, Clocking
  <2> QED BY <2>1, <2>2 DEF ToSet, AllRegistries
<1>2. CASE ~UniqueLoop
  BY <1>2, Shares DEF AllRegistries
<1> QED BY <1>1, <1>2

-----------------------------------------------------------------------------
(* The loops keep the invariant: what is where, and what has been called *)

CoreInv == /\ StaticInv /\ LoopTypes /\ ConfigInv /\ PhaseInv /\ EventsInv /\ PlaceInv /\ CallInv

\* An event is popped from the list.
LEMMA EventPopped ==
    ASSUME StaticInv, lTimeEvents \in Seq(Registry), lTimeEvents # <<>>, NEW clocked \in Seq(Registry),
           PopEvent(clocked), pc' = "modules", ~UniqueLoop, UniqueLoop' = UniqueLoop,
           UNCHANGED lModules
    PROVE  \E h \in Registry :
              /\ h = Head(lTimeEvents) /\ h \in ToSet(lTimeEvents)
              /\ lTimeEvents' = Tail(lTimeEvents) /\ lTimeEvents' \in Seq(Registry)
              /\ lClockedEvents' \in Seq(Registry) /\ lClockedEvents' # <<>>
              /\ CurrentEvent' = h /\ Pending' = lClockedEvents'
              /\ ToSet(lTimeEvents) = ToSet(lTimeEvents') \cup {h}
              /\ ToSet(lClockedEvents') = ToSet(clocked) \cup {h}
              /\ NoneTwice(lTimeEvents) => NoneTwice(lTimeEvents') /\ h \notin ToSet(lTimeEvents')
              /\ NoneTwice(clocked) /\ h \notin ToSet(clocked) => NoneTwice(lClockedEvents')
              /\ toCall' = lModules[h] /\ toCall' \in Seq(Callback) /\ NoneTwice(toCall')
              /\ toCall' = CallsOf(CurrentEvent)'
<1>1. PICK h, t, k : h = Head(lTimeEvents) /\ t = Tail(lTimeEvents) /\ k = Append(clocked, h)
  OBVIOUS
<1>2. /\ t \in Seq(Registry) /\ h \in Registry /\ ToSet(lTimeEvents) = ToSet(t) \cup {h}
      /\ NoneTwice(lTimeEvents) => NoneTwice(t) /\ h \notin ToSet(t)
  BY <1>1, Popped
<1>3. /\ k \in Seq(Registry) /\ k # <<>> /\ Last(k) = h /\ ToSet(k) = ToSet(clocked) \cup {h}
      /\ NoneTwice(clocked) /\ h \notin ToSet(clocked) => NoneTwice(k)
  BY <1>1, <1>2, Appended
<1>4. lTimeEvents' = t /\ lClockedEvents' = k /\ toCall' = lModules[h]
  BY <1>1 DEF PopEvent
<1>5. CurrentEvent' = h
  BY <1>3, <1>4 DEF CurrentEvent, UniqueLoop
<1>6. Pending' = k
  BY <1>4 DEF Pending
<1>7. lModules[h] \in Seq(Callback) /\ NoneTwice(lModules[h])
  BY <1>2, CallsOfRegistry
<1>8. CallsOf(CurrentEvent)' = lModules[h]
  BY <1>5 DEF CallsOf
<1> QED BY <1>1, <1>2, <1>3, <1>4, <1>5, <1>6, <1>7, <1>8

\* The calls stay right while the same callbacks have been called.
LEMMA CallsKept ==
    ASSUME CallInv, Running, Running', AllRegistries' = AllRegistries, UNCHANGED <<calls, nCycle>>,
           \A c \in Callback : cbReg[c] \in AllRegistries => (Called(c)' <=> Called(c))
    PROVE  CallInv'
<1> SUFFICES ASSUME NEW c \in Callback, cbReg[c] \in AllRegistries
             PROVE  calls'[c] = nCycle'[cbReg[c]] + IF Called(c)' THEN 1 ELSE 0
  BY DEF CallInv
<1>1. calls[c] = nCycle[cbReg[c]] + IF Called(c) THEN 1 ELSE 0
  BY DEF CallInv
<1>2. Called(c)' <=> Called(c)
  OBVIOUS
<1> HIDE DEF Called
<1> QED BY <1>1, <1>2

\* A call of Clock() begins.
LEMMA ClockBeginCore ==
    ASSUME CoreInv, ClockBegin
    PROVE  CoreInv'
<1> USE DEF CoreInv
<1>1. pc = "idle" /\ pc' = "modules" /\ ~UniqueLoop /\ lTimeEvents # <<>> /\ PopEvent(<<>>)
  BY DEF ClockBegin
<1>2. UNCHANGED staticVars
  BY DEF ClockBegin, staticVars, domainVars, listVars, stepVars, referenceVars, cbVars
<1>3. StaticInv' /\ ConfigInv' /\ AllRegistries' = AllRegistries /\ UniqueLoop' = UniqueLoop
  BY <1>1, <1>2, StaticKept
<1>4. ToSet(lTimeEvents) = AllRegistries /\ NoneTwice(lTimeEvents)
  BY <1>1, InList DEF Running
<1>5. <<>> \in Seq(Registry) /\ ToSet(<<>>) = {} /\ NoneTwice(<<>>)
  BY DEF ToSet, NoneTwice
<1>6. PICK h \in Registry :
              /\ h \in ToSet(lTimeEvents)
              /\ lTimeEvents' \in Seq(Registry)
              /\ lClockedEvents' \in Seq(Registry) /\ lClockedEvents' # <<>>
              /\ CurrentEvent' = h /\ Pending' = lClockedEvents'
              /\ ToSet(lTimeEvents) = ToSet(lTimeEvents') \cup {h}
              /\ ToSet(lClockedEvents') = ToSet(<<>>) \cup {h}
              /\ NoneTwice(lTimeEvents') /\ h \notin ToSet(lTimeEvents') /\ NoneTwice(lClockedEvents')
              /\ toCall' = lModules[h] /\ toCall' \in Seq(Callback) /\ NoneTwice(toCall')
              /\ toCall' = CallsOf(CurrentEvent)' /\ h = Head(lTimeEvents)
  <2>1. lTimeEvents \in Seq(Registry) /\ UNCHANGED lModules
    BY <1>2 DEF LoopTypes, staticVars, listVars
  <2> QED BY <1>1, <1>3, <1>4, <1>5, <2>1, EventPopped
<1>7. LoopTypes'
  <2>1. nBaseCycle[h] \in Nat
    BY DEF LoopTypes
  <2> QED BY <1>1, <1>6, <2>1 DEF LoopTypes, ClockBegin, timeVars, cbVars, callVars
<1>8. PhaseInv'
  BY <1>1, <1>3 DEF PhaseInv
<1>9. EventsInv'
  BY <1>3, <1>4, <1>5, <1>6 DEF EventsInv
<1>10. PlaceInv'
  BY <1>1, <1>3, <1>6 DEF PlaceInv
<1>11. CallInv'
  <2>1. Running /\ Running' /\ UNCHANGED <<calls, nCycle>>
    BY <1>1 DEF Running, ClockBegin, cbVars, callVars, timeVars
  <2>2. ASSUME NEW c \in Callback, cbReg[c] \in AllRegistries PROVE ~Called(c)' /\ ~Called(c)
    <3>1. ~Called(c)
      BY <1>1 DEF Called, Clocking
    <3>2. cbReg[c] = h => c \in WriterRM \/ c \in ToSet(toCall')
      BY <1>1, <1>6, <2>2, WhoseCalls
    <3>3. ToSet(Pending') = {h}
      BY <1>5, <1>6
    <3>4. ~Called(c)'
      BY <1>1, <1>6, <3>2, <3>3 DEF Called
    <3> QED BY <3>1, <3>4
  <2> QED BY <1>3, <2>1, <2>2, CallsKept
<1> QED BY <1>3, <1>7, <1>8, <1>9, <1>10, <1>11

\* Clock() goes on to the next event.
LEMMA NextEventCore ==
    ASSUME CoreInv, NextEvent
    PROVE  CoreInv'
<1> USE DEF CoreInv
<1>1. /\ pc = "modules" /\ pc' = "modules" /\ ~UniqueLoop /\ lTimeEvents # <<>> /\ toCall = <<>>
      /\ PopEvent(lClockedEvents) /\ mayChange' = FALSE
  BY DEF NextEvent, MoreDue
<1>2. UNCHANGED staticVars
  BY <1>1 DEF NextEvent, staticVars, domainVars, listVars, stepVars, referenceVars, cbVars
<1>3. StaticInv' /\ ConfigInv' /\ AllRegistries' = AllRegistries /\ UniqueLoop' = UniqueLoop
  BY <1>1, <1>2, StaticKept
<1>4. /\ NoneTwice(lTimeEvents) /\ NoneTwice(lClockedEvents)
      /\ ToSet(lClockedEvents) \subseteq AllRegistries
      /\ ToSet(lTimeEvents) = AllRegistries \ ToSet(lClockedEvents)
      /\ Pending = lClockedEvents /\ CurrentEvent \in ToSet(lClockedEvents)
  <2>1. Clocking /\ Running
    BY <1>1 DEF Clocking, Running
  <2>2. Pending = lClockedEvents /\ CurrentEvent \in ToSet(Pending)
    BY <1>1, <2>1, Shares
  <2> QED BY <2>1, <2>2 DEF EventsInv
<1>5. PICK h \in Registry :
              /\ h \in ToSet(lTimeEvents)
              /\ lTimeEvents' \in Seq(Registry)
              /\ lClockedEvents' \in Seq(Registry) /\ lClockedEvents' # <<>>
              /\ CurrentEvent' = h /\ Pending' = lClockedEvents'
              /\ ToSet(lTimeEvents) = ToSet(lTimeEvents') \cup {h}
              /\ ToSet(lClockedEvents') = ToSet(lClockedEvents) \cup {h}
              /\ NoneTwice(lTimeEvents') /\ h \notin ToSet(lTimeEvents') /\ NoneTwice(lClockedEvents')
              /\ toCall' = lModules[h] /\ toCall' \in Seq(Callback) /\ NoneTwice(toCall')
              /\ toCall' = CallsOf(CurrentEvent)' /\ h = Head(lTimeEvents)
  <2>1. lTimeEvents \in Seq(Registry) /\ lClockedEvents \in Seq(Registry) /\ UNCHANGED lModules
    BY <1>2 DEF LoopTypes, staticVars, listVars
  <2> QED BY <1>1, <1>3, <1>4, <2>1, EventPopped
<1>7. LoopTypes'
  BY <1>1, <1>5 DEF LoopTypes, NextEvent, timeVars, cbVars, callVars
<1>8. PhaseInv'
  BY <1>1, <1>3 DEF PhaseInv
<1>9. EventsInv'
  BY <1>3, <1>4, <1>5 DEF EventsInv
<1>10. PlaceInv'
  BY <1>1, <1>3, <1>5 DEF PlaceInv
<1>11. CallInv'
  <2>1. Running /\ Running' /\ UNCHANGED <<calls, nCycle>>
    BY <1>1 DEF Running, NextEvent, cbVars, callVars, timeVars
  <2>2. ASSUME NEW c \in Callback, cbReg[c] \in AllRegistries PROVE Called(c)' <=> Called(c)
    <3>1. Called(c) <=> c \notin WriterRM /\ cbReg[c] \in ToSet(lClockedEvents)
      <4>1. ToSet(toCall) = {}
        BY <1>1 DEF ToSet
      <4> QED BY <1>1, <1>4, <4>1 DEF Called, Clocking
    <3>2. cbReg[c] = h => c \in WriterRM \/ c \in ToSet(toCall')
      BY <1>1, <1>5, <2>2, WhoseCalls
    <3>3. Called(c)' <=> c \notin WriterRM /\ cbReg[c] \in ToSet(lClockedEvents) \ {h}
      BY <1>1, <1>3, <1>5, <3>2 DEF Called, Clocking
    <3>4. h \notin ToSet(lClockedEvents)
      BY <1>4, <1>5
    <3> QED BY <3>1, <3>3, <3>4
  <2> QED BY <1>3, <2>1, <2>2, CallsKept
<1> QED BY <1>3, <1>7, <1>8, <1>9, <1>10, <1>11

\* All the modules of this cycle have been clocked.
LEMMA BeginWritersCore ==
    ASSUME CoreInv, BeginWriters
    PROVE  CoreInv'
<1> USE DEF CoreInv
<1>1. /\ pc = "modules" /\ pc' = "writers" /\ ~UniqueLoop /\ toCall = <<>> /\ it' = 1
      /\ toCall' = lWriterRM[lClockedEvents[1]] /\ mayChange' = FALSE
      /\ UNCHANGED <<lTimeEvents, lClockedEvents>>
  BY DEF BeginWriters
<1>2. UNCHANGED staticVars
  BY <1>1 DEF BeginWriters, staticVars, domainVars, listVars, stepVars, referenceVars, cbVars
<1>3. StaticInv' /\ ConfigInv' /\ AllRegistries' = AllRegistries /\ UniqueLoop' = UniqueLoop
  BY <1>1, <1>2, StaticKept
<1>4. /\ NoneTwice(lTimeEvents) /\ NoneTwice(lClockedEvents)
      /\ ToSet(lClockedEvents) \subseteq AllRegistries
      /\ ToSet(lTimeEvents) = AllRegistries \ ToSet(lClockedEvents)
      /\ Pending = lClockedEvents /\ CurrentEvent \in ToSet(lClockedEvents) /\ lClockedEvents # <<>>
  <2>1. Clocking /\ Running
    BY <1>1 DEF Clocking, Running
  <2>2. Pending = lClockedEvents /\ CurrentEvent \in ToSet(Pending)
    BY <1>1, <2>1, Shares
  <2> QED BY <1>1, <2>1, <2>2 DEF EventsInv, PlaceInv
<1>5. lClockedEvents \in Seq(Registry) /\ 1 \in DOMAIN lClockedEvents
  BY <1>4 DEF LoopTypes
<1>6. PICK r \in Registry : r = lClockedEvents[1]
  BY <1>5
<1>7. toCall' = lWriterRM[r] /\ toCall' \in Seq(Callback) /\ NoneTwice(toCall')
  BY <1>1, <1>6, CallsOfRegistry
<1>8. CurrentEvent' = r /\ CallsOf(CurrentEvent)' = lWriterRM[r] /\ r \in AllRegistries
  <2>1. CurrentEvent' = r
    BY <1>1, <1>3, <1>6 DEF CurrentEvent
  <2> QED BY <1>1, <1>2, <1>4, <1>5, <1>6, <2>1 DEF CallsOf, staticVars, ToSet
<1>9. Pending' = lClockedEvents
  BY <1>1, <1>3, <1>5 DEF Pending
<1>10. LoopTypes'
  <2>1. UNCHANGED <<timeVars, lTimeEvents, lClockedEvents, currentBaseCycle, internalBaseCycle, callVars>>
    BY DEF BeginWriters, cbVars
  <2> QED BY <1>1, <1>7, <2>1 DEF LoopTypes, timeVars, callVars
<1>11. PhaseInv'
  BY <1>1, <1>3 DEF PhaseInv
<1>12. EventsInv'
  BY <1>1, <1>3, <1>4, <1>9 DEF EventsInv
<1>13. PlaceInv'
  BY <1>1, <1>3, <1>4, <1>5, <1>7, <1>8 DEF PlaceInv
<1>14. CallInv'
  <2>1. Running /\ Running' /\ UNCHANGED <<calls, nCycle>>
    BY <1>1 DEF Running, BeginWriters, cbVars, callVars, timeVars
  <2>2. ASSUME NEW c \in Callback, cbReg[c] \in AllRegistries PROVE Called(c)' <=> Called(c)
    <3>1. Called(c) <=> c \notin WriterRM /\ cbReg[c] \in ToSet(lClockedEvents)
      <4>1. ToSet(toCall) = {}
        BY <1>1 DEF ToSet
      <4> QED BY <1>1, <1>4, <4>1 DEF Called, Clocking
    <3>2. cbReg[c] = r => (c \in WriterRM <=> c \in ToSet(toCall'))
      BY <1>1, <1>7, <2>2, WhoseCalls
    <3>3. r \in ToSet(lClockedEvents)
      BY <1>5, <1>6 DEF ToSet
    <3>4. Called(c)' <=> c \notin WriterRM /\ cbReg[c] \in ToSet(lClockedEvents)
      BY <1>1, <1>3, <1>8, <1>9, <3>2, <3>3 DEF Called, Clocking
    <3> QED BY <3>1, <3>4
  <2> QED BY <1>3, <2>1, <2>2, CallsKept
<1> QED BY <1>3, <1>10, <1>11, <1>12, <1>13, <1>14

\* What a registry that completes its cycle does to the times.
LEMMA Advances ==
    ASSUME LoopTypes, StaticTypes, NEW r \in Registry, Advance(r)
    PROVE  /\ nBaseCycle' \in [Registry -> Nat] /\ nCycle' \in [Registry -> Nat]
           /\ nBaseCycle'[r] = nBaseCycle[r] + nStep[r] /\ nCycle'[r] = nCycle[r] + 1
           /\ nBaseCycle[r] \in Nat /\ nStep[r] \in Nat /\ nCycle[r] \in Nat
           /\ \A s \in Registry \ {r} : nBaseCycle'[s] = nBaseCycle[s] /\ nCycle'[s] = nCycle[s]
<1>1. /\ nBaseCycle \in [Registry -> Nat] /\ nCycle \in [Registry -> Nat] /\ nStep \in [Registry -> Nat]
      /\ nCycle' = [nCycle EXCEPT ![r] = nCycle[r] + 1]
      /\ nBaseCycle' = [nBaseCycle EXCEPT ![r] = nBaseCycle[r] + nStep[r]]
  BY DEF LoopTypes, StaticTypes, Advance
<1>2. nBaseCycle[r] \in Nat /\ nStep[r] \in Nat /\ nCycle[r] \in Nat
  BY <1>1
<1>3. nBaseCycle[r] + nStep[r] \in Nat /\ nCycle[r] + 1 \in Nat
  BY <1>2
<1> QED BY <1>1, <1>2, <1>3

\* The calls stay right when a registry all of whose callbacks have been called completes
\* its cycle.
LEMMA CallsCompleted ==
    ASSUME StaticTypes, LoopTypes, CallInv, Running, Running', AllRegistries' = AllRegistries,
           UNCHANGED calls, NEW r \in Registry, Advance(r),
           \A c \in Callback : cbReg[c] \in AllRegistries =>
               IF cbReg[c] = r THEN Called(c) /\ ~Called(c)' ELSE Called(c)' <=> Called(c)
    PROVE  CallInv'
<1> SUFFICES ASSUME NEW c \in Callback, cbReg[c] \in AllRegistries
             PROVE  calls'[c] = nCycle'[cbReg[c]] + IF Called(c)' THEN 1 ELSE 0
  BY DEF CallInv
<1>1. calls[c] = nCycle[cbReg[c]] + IF Called(c) THEN 1 ELSE 0
  BY DEF CallInv
<1>2. IF cbReg[c] = r THEN Called(c) /\ ~Called(c)' ELSE Called(c)' <=> Called(c)
  OBVIOUS
<1>3. /\ nCycle'[r] = nCycle[r] + 1 /\ nCycle[r] \in Nat
      /\ \A s \in Registry \ {r} : nCycle'[s] = nCycle[s]
  BY Advances
<1>4. cbReg[c] \in Registry
  BY ClockServerConstants
<1> HIDE DEF Called
<1> QED BY <1>1, <1>2, <1>3, <1>4

\* A clocked registry completes its cycle and goes back into the list.
LEMMA ReaddEventCore ==
    ASSUME CoreInv, ReaddEvent
    PROVE  CoreInv'
<1> USE DEF CoreInv
<1>1. PICK r : r = lClockedEvents[it]
  OBVIOUS
<1>2. /\ pc = "writers" /\ ~UniqueLoop /\ toCall = <<>> /\ Advance(r)
      /\ lTimeEvents' = AddTimeEvent(lTimeEvents, nBaseCycle', r)
      /\ UNCHANGED <<currentBaseCycle, mayChange, calls, currentCycle>>
  BY <1>1 DEF ReaddEvent, cbVars, callVars
<1>3. UNCHANGED staticVars
  BY DEF ReaddEvent, staticVars, domainVars, listVars, stepVars, referenceVars, cbVars
<1>4. pc' # "config" /\ pc' \in {"idle", "writers"}
  BY <1>2 DEF ReaddEvent
<1>5. StaticInv' /\ ConfigInv' /\ AllRegistries' = AllRegistries /\ UniqueLoop' = UniqueLoop
  BY <1>2, <1>3, <1>4, StaticKept
<1>6. Clocking /\ Running /\ Running'
  BY <1>2, <1>4 DEF Clocking, Running
<1>7. PICK n \in Nat : n = Len(lClockedEvents) /\ DOMAIN lClockedEvents = 1..n
  BY DEF LoopTypes
<1>8. /\ NoneTwice(lTimeEvents) /\ NoneTwice(lClockedEvents)
      /\ ToSet(lClockedEvents) \subseteq AllRegistries
      /\ ToSet(lTimeEvents) = AllRegistries \ ToSet(Pending)
      /\ CurrentEvent = r /\ r \in AllRegistries /\ r \in ToSet(Pending) /\ r \in Registry
      /\ ToSet(Pending) = {lClockedEvents[i] : i \in it..n} /\ it \in 1..n
  BY <1>1, <1>2, <1>6, <1>7, Shares DEF EventsInv, PlaceInv, AllRegistries
<1>9. /\ lTimeEvents' \in Seq(Registry) /\ ToSet(lTimeEvents') = ToSet(lTimeEvents) \cup {r}
      /\ NoneTwice(lTimeEvents')
  <2>1. nBaseCycle' \in [Registry -> Nat] /\ lTimeEvents \in Seq(Registry)
    BY <1>2, <1>8, Advances DEF StaticInv, LoopTypes
  <2> QED BY <1>2, <1>8, <2>1, TimeEventAdded
<1>10. nBaseCycle' \in [Registry -> Nat] /\ nCycle' \in [Registry -> Nat]
  BY <1>2, <1>8, Advances DEF StaticInv
<1>11. \A c : Called(c) <=> cbReg[c] = r \/ (c \notin WriterRM /\ cbReg[c] \in ToSet(Pending))
  <2>1. ToSet(toCall) = {}
    BY <1>2 DEF ToSet
  <2> QED BY <1>2, <1>6, <1>8, <2>1 DEF Called
<1>12. CASE it < n
  <2>1. /\ it' = it + 1 /\ toCall' = lWriterRM[lClockedEvents[it + 1]] /\ pc' = "writers"
        /\ UNCHANGED <<lClockedEvents, internalBaseCycle>>
    BY <1>2, <1>7, <1>12 DEF ReaddEvent
  <2>2. PICK q \in Registry : q = lClockedEvents[it + 1] /\ q \in AllRegistries
    BY <1>7, <1>8, <1>12 DEF ToSet, AllRegistries
  <2>3. toCall' = lWriterRM[q] /\ toCall' \in Seq(Callback) /\ NoneTwice(toCall')
    BY <2>1, <2>2, CallsOfRegistry
  <2>4. CurrentEvent' = q /\ CallsOf(CurrentEvent)' = lWriterRM[q]
    <3>1. CurrentEvent' = q
      BY <1>2, <1>5, <2>1, <2>2 DEF CurrentEvent
    <3> QED BY <1>3, <2>1, <3>1 DEF CallsOf, staticVars
  <2>5. ToSet(Pending') = ToSet(Pending) \ {r} /\ q \in ToSet(Pending')
    <3>1. Pending' = SubSeq(lClockedEvents, it + 1, n)
      BY <1>2, <1>5, <1>7, <2>1 DEF Pending
    <3>2. it + 1 \in 1..Len(lClockedEvents) /\ lClockedEvents \in Seq(Registry)
      BY <1>7, <1>8, <1>12 DEF LoopTypes
    <3>3. ToSet(Pending') = {lClockedEvents[i] : i \in (it + 1)..n}
      BY <1>7, <3>1, <3>2, FromPlace
    <3>4. \A i : i \in it..n <=> i = it \/ i \in (it + 1)..n
      BY <1>8
    <3>5. \A i \in (it + 1)..n : lClockedEvents[i] # r
      BY <1>1, <1>7, <1>8 DEF NoneTwice
    <3>6. it + 1 \in (it + 1)..n
      BY <1>8, <1>12
    <3> QED BY <1>1, <1>8, <2>2, <3>3, <3>4, <3>5, <3>6
  <2>6. LoopTypes'
    <3>1. it + 1 \in Nat
      BY <1>8
    <3> QED BY <1>2, <1>9, <1>10, <2>1, <2>3, <3>1 DEF LoopTypes
  <2>7. PhaseInv'
    BY <1>2, <1>5, <2>1 DEF PhaseInv
  <2>8. EventsInv'
    BY <1>5, <1>8, <1>9, <2>1, <2>5 DEF EventsInv
  <2>9. PlaceInv'
    BY <1>2, <1>5, <1>6, <1>7, <1>8, <1>12, <2>1, <2>3, <2>4 DEF PlaceInv
  <2>10. CallInv'
    <3>1. ASSUME NEW c \in Callback, cbReg[c] \in AllRegistries
          PROVE  IF cbReg[c] = r THEN Called(c) /\ ~Called(c)' ELSE Called(c)' <=> Called(c)
      <4>1. cbReg[c] = q => (c \in WriterRM <=> c \in ToSet(toCall'))
        BY <1>2, <2>3, <3>1, WhoseCalls
      <4>2. Called(c)' <=> c \notin WriterRM /\ cbReg[c] \in ToSet(Pending')
        BY <1>2, <1>5, <2>1, <2>4, <2>5, <4>1 DEF Called, Clocking
      <4>3. q # r
        BY <2>5
      <4> QED BY <1>11, <2>5, <4>2, <4>3
    <3>2. StaticTypes /\ LoopTypes /\ CallInv /\ UNCHANGED calls /\ Advance(r) /\ r \in Registry
      BY <1>2, <1>8 DEF StaticInv
    <3> QED BY <1>5, <1>6, <3>1, <3>2, CallsCompleted
  <2> QED BY <1>5, <2>6, <2>7, <2>8, <2>9, <2>10
<1>13. CASE it = n
  <2>1. /\ pc' = "idle" /\ lClockedEvents' = <<>> /\ internalBaseCycle' = currentBaseCycle \div 100
        /\ UNCHANGED <<it, toCall>>
    BY <1>2, <1>7, <1>13 DEF ReaddEvent
  <2>2. ToSet(Pending) = {r}
    BY <1>1, <1>8, <1>13
  <2>3. Pending' = <<>> /\ ToSet(Pending') = {} /\ NoneTwice(<<>>) /\ <<>> \in Seq(Registry) /\ ToSet(<<>>) = {}
    BY <2>1 DEF Pending, ToSet, NoneTwice
  <2>4. LoopTypes'
    <3>1. internalBaseCycle' \in Nat
      <4>1. currentBaseCycle \in Nat
        BY DEF LoopTypes
      <4> QED BY <2>1, <4>1
    <3> QED BY <1>2, <1>9, <1>10, <2>1, <2>3, <3>1 DEF LoopTypes
  <2>5. PhaseInv'
    BY <1>2, <2>1 DEF PhaseInv
  <2>6. EventsInv'
    BY <1>5, <1>8, <1>9, <2>1, <2>2, <2>3 DEF EventsInv
  <2>7. PlaceInv'
    BY <2>1 DEF PlaceInv, Clocking
  <2>8. CallInv'
    <3>1. ASSUME NEW c \in Callback, cbReg[c] \in AllRegistries
          PROVE  IF cbReg[c] = r THEN Called(c) /\ ~Called(c)' ELSE Called(c)' <=> Called(c)
      <4>1. ~Called(c)'
        BY <2>1 DEF Called, Clocking
      <4> QED BY <1>11, <2>2, <4>1
    <3>2. StaticTypes /\ LoopTypes /\ CallInv /\ UNCHANGED calls /\ Advance(r) /\ r \in Registry
      BY <1>2, <1>8 DEF StaticInv
    <3> QED BY <1>5, <1>6, <3>1, <3>2, CallsCompleted
  <2> QED BY <1>5, <2>4, <2>5, <2>6, <2>7, <2>8
<1> QED BY <1>8, <1>12, <1>13

\* The callbacks of the registry the unique loop comes to.
LEMMA UniquePlace ==
    ASSUME StaticInv, lTimeEvents \in Seq(Registry), UNCHANGED <<lTimeEvents, lModules, lWriterRM>>,
           UniqueLoop' = UniqueLoop, UniqueLoop, it' \in DOMAIN lTimeEvents,
           toCall' = CallsOf(lTimeEvents[it])'
    PROVE  /\ PlaceInv' /\ toCall' \in Seq(Callback)
           /\ CurrentEvent' = lTimeEvents[it'] /\ CurrentEvent' \in Registry
           /\ toCall' = CallsOf(CurrentEvent)'
<1>1. PICK r : r = lTimeEvents[it'] /\ r \in Registry
  OBVIOUS
<1>2. CurrentEvent' = r
  BY <1>1 DEF CurrentEvent
<1>3. toCall' = CallsOf(CurrentEvent)' /\ toCall' \in Seq(Callback) /\ NoneTwice(toCall')
  BY <1>1, <1>2, CallsOfRegistry DEF CallsOf
<1> QED BY <1>1, <1>2, <1>3 DEF PlaceInv

\* A call of UniqueDomainClock() begins.
LEMMA UniqueBeginCore ==
    ASSUME CoreInv, UniqueBegin
    PROVE  CoreInv'
<1> USE DEF CoreInv
<1>1. /\ pc = "idle" /\ pc' = "modules" /\ UniqueLoop /\ lTimeEvents # <<>> /\ it' = 1
      /\ toCall' = lModules[lTimeEvents[1]]
      /\ UNCHANGED <<timeVars, lTimeEvents, lClockedEvents, currentBaseCycle, mayChange,
                     internalBaseCycle, callVars>>
  BY DEF UniqueBegin, cbVars
<1>2. UNCHANGED staticVars
  BY DEF UniqueBegin, staticVars, domainVars, listVars, stepVars, referenceVars, cbVars
<1>3. StaticInv' /\ ConfigInv' /\ AllRegistries' = AllRegistries /\ UniqueLoop' = UniqueLoop
  BY <1>1, <1>2, StaticKept
<1>4. ToSet(lTimeEvents) = AllRegistries /\ NoneTwice(lTimeEvents) /\ lClockedEvents = <<>>
  BY <1>1, InList DEF Running
<1>5. lTimeEvents \in Seq(Registry) /\ 1 \in DOMAIN lTimeEvents
  BY <1>1 DEF LoopTypes
<1>6. PlaceInv' /\ toCall' \in Seq(Callback) /\ toCall' = CallsOf(CurrentEvent)'
      /\ CurrentEvent' \in Registry
  <2>1. toCall' = CallsOf(lTimeEvents[it])' /\ UNCHANGED <<lTimeEvents, lModules, lWriterRM>>
    BY <1>1, <1>2 DEF CallsOf, staticVars, listVars
  <2>2. it' \in DOMAIN lTimeEvents
    BY <1>1, <1>5
  <2> QED BY <1>1, <1>3, <1>5, <2>1, <2>2, UniquePlace
<1>7. LoopTypes'
  BY <1>1, <1>6 DEF LoopTypes, timeVars, callVars
<1>8. PhaseInv'
  BY <1>1, <1>3, <1>4 DEF PhaseInv
<1>9. EventsInv'
  <2>1. Pending' = <<>> /\ ToSet(<<>>) = {} /\ NoneTwice(<<>>)
    BY <1>1, <1>4 DEF Pending, ToSet, NoneTwice
  <2> QED BY <1>1, <1>3, <1>4, <2>1 DEF EventsInv
<1>11. CallInv'
  <2>1. Running /\ Running' /\ UNCHANGED <<calls, nCycle>>
    BY <1>1 DEF Running, callVars, timeVars
  <2>2. ASSUME NEW c \in Callback, cbReg[c] \in AllRegistries PROVE Called(c)' <=> Called(c)
    <3>1. ~Called(c)
      BY <1>1 DEF Called, Clocking
    <3>2. cbReg[c] = CurrentEvent' => c \in WriterRM \/ c \in ToSet(toCall')
      <4>1. ASSUME cbReg[c] = CurrentEvent' PROVE toCall' = lModules[cbReg[c]]
        BY <1>1, <1>2, <1>6, <4>1 DEF CallsOf, staticVars, listVars
      <4> QED BY <1>1, <2>2, <4>1, WhoseCalls
    <3> QED BY <1>1, <1>3, <3>1, <3>2 DEF Called
  <2> QED BY <1>3, <2>1, <2>2, CallsKept
<1> QED BY <1>3, <1>6, <1>7, <1>8, <1>9, <1>11

\* The writer rate matchers of the registry are next.
LEMMA UniqueWritersCore ==
    ASSUME CoreInv, UniqueWriters
    PROVE  CoreInv'
<1> USE DEF CoreInv
<1>1. /\ pc = "modules" /\ pc' = "writers" /\ UniqueLoop /\ toCall = <<>> /\ mayChange' = FALSE
      /\ toCall' = lWriterRM[lTimeEvents[it]]
      /\ UNCHANGED <<timeVars, lTimeEvents, lClockedEvents, currentBaseCycle, it,
                     internalBaseCycle, callVars>>
  BY DEF UniqueWriters, cbVars
<1>2. UNCHANGED staticVars
  BY DEF UniqueWriters, staticVars, domainVars, listVars, stepVars, referenceVars, cbVars
<1>3. StaticInv' /\ ConfigInv' /\ AllRegistries' = AllRegistries /\ UniqueLoop' = UniqueLoop
  BY <1>1, <1>2, StaticKept
<1>4. /\ ToSet(lTimeEvents) = AllRegistries /\ NoneTwice(lTimeEvents) /\ lClockedEvents = <<>>
      /\ Clocking /\ Running
  BY <1>1, InList DEF Running, Clocking
<1>5. lTimeEvents \in Seq(Registry) /\ it \in DOMAIN lTimeEvents /\ CurrentEvent = lTimeEvents[it]
  BY <1>1, <1>4 DEF LoopTypes, PlaceInv, CurrentEvent
<1>6. PlaceInv' /\ toCall' \in Seq(Callback) /\ toCall' = CallsOf(CurrentEvent)'
      /\ CurrentEvent' = CurrentEvent /\ CurrentEvent \in Registry
  <2>1. toCall' = CallsOf(lTimeEvents[it])' /\ UNCHANGED <<lTimeEvents, lModules, lWriterRM>>
    BY <1>1, <1>2 DEF CallsOf, staticVars, listVars
  <2>2. it' \in DOMAIN lTimeEvents
    BY <1>1, <1>5
  <2> QED BY <1>1, <1>3, <1>5, <2>1, <2>2, UniquePlace
<1>7. LoopTypes'
  BY <1>1, <1>6 DEF LoopTypes, timeVars, callVars
<1>8. PhaseInv'
  BY <1>1, <1>3, <1>4 DEF PhaseInv
<1>9. EventsInv'
  <2>1. Pending' = <<>> /\ ToSet(<<>>) = {} /\ NoneTwice(<<>>)
    BY <1>1, <1>3, <1>4 DEF Pending, ToSet, NoneTwice
  <2> QED BY <1>1, <1>3, <1>4, <2>1 DEF EventsInv
<1>11. CallInv'
  <2>1. Running /\ Running' /\ UNCHANGED <<calls, nCycle>>
    BY <1>1 DEF Running, callVars, timeVars
  <2>2. ASSUME NEW c \in Callback, cbReg[c] \in AllRegistries PROVE Called(c)' <=> Called(c)
    <3>1. Called(c) <=> cbReg[c] = CurrentEvent /\ c \notin WriterRM
      <4>1. ToSet(toCall) = {}
        BY <1>1 DEF ToSet
      <4> QED BY <1>1, <1>4, <4>1 DEF Called
    <3>2. cbReg[c] = CurrentEvent => (c \in WriterRM <=> c \in ToSet(toCall'))
      <4>1. ASSUME cbReg[c] = CurrentEvent PROVE toCall' = lWriterRM[cbReg[c]]
        BY <1>1, <1>2, <1>6, <4>1 DEF CallsOf, staticVars
      <4> QED BY <1>1, <2>2, <4>1, WhoseCalls
    <3>3. Called(c)' <=> cbReg[c] = CurrentEvent /\ c \notin ToSet(toCall')
      BY <1>1, <1>3, <1>6 DEF Called, Clocking
    <3> QED BY <3>1, <3>2, <3>3
  <2> QED BY <1>3, <2>1, <2>2, CallsKept
<1> QED BY <1>3, <1>6, <1>7, <1>8, <1>9, <1>11

\* The registry completes its cycle and stays where it is in the list.
LEMMA UniqueAdvanceCore ==
    ASSUME CoreInv, UniqueAdvance
    PROVE  CoreInv'
<1> USE DEF CoreInv
<1>1. PICK r : r = lTimeEvents[it]
  OBVIOUS
<1>2. /\ pc = "writers" /\ UniqueLoop /\ toCall = <<>> /\ Advance(r)
      /\ UNCHANGED <<lTimeEvents, lClockedEvents, currentBaseCycle, mayChange, callVars>>
  BY <1>1 DEF UniqueAdvance, cbVars
<1>3. UNCHANGED staticVars
  BY DEF UniqueAdvance, staticVars, domainVars, listVars, stepVars, referenceVars, cbVars
<1>4. pc' # "config" /\ pc' \in {"idle", "modules"}
  BY <1>2 DEF UniqueAdvance
<1>5. StaticInv' /\ ConfigInv' /\ AllRegistries' = AllRegistries /\ UniqueLoop' = UniqueLoop
  BY <1>2, <1>3, <1>4, StaticKept
<1>6. Clocking /\ Running /\ Running'
  BY <1>2, <1>4 DEF Clocking, Running
<1>7. PICK n \in Nat : n = Len(lTimeEvents) /\ DOMAIN lTimeEvents = 1..n
  BY DEF LoopTypes
<1>8. /\ NoneTwice(lTimeEvents) /\ ToSet(lTimeEvents) = AllRegistries /\ lClockedEvents = <<>>
      /\ CurrentEvent = r /\ r \in AllRegistries /\ r \in Registry /\ it \in 1..n
      /\ lTimeEvents \in Seq(Registry)
  <2>1. /\ ToSet(lTimeEvents) = AllRegistries /\ NoneTwice(lTimeEvents) /\ lClockedEvents = <<>>
    BY <1>2, <1>6, InList
  <2>2. CurrentEvent = r /\ it \in 1..n /\ lTimeEvents \in Seq(Registry)
    BY <1>1, <1>2, <1>6, <1>7 DEF CurrentEvent, PlaceInv, LoopTypes
  <2> QED BY <1>1, <1>7, <2>1, <2>2 DEF ToSet, AllRegistries
<1>9. nBaseCycle' \in [Registry -> Nat] /\ nCycle' \in [Registry -> Nat]
      /\ nBaseCycle'[r] = nBaseCycle[r] + nStep[r] /\ nBaseCycle[r] \in Nat /\ nStep[r] \in Nat
  BY <1>2, <1>8, Advances DEF StaticInv
<1>10. Pending = <<>> /\ Pending' = <<>> /\ ToSet(<<>>) = {} /\ NoneTwice(<<>>)
  BY <1>2, <1>5, <1>8 DEF Pending, ToSet, NoneTwice
<1>11. \A c : Called(c) <=> cbReg[c] = r
  <2>1. ToSet(toCall) = {}
    BY <1>2 DEF ToSet
  <2> QED BY <1>2, <1>6, <1>8, <2>1 DEF Called
<1>12. PhaseInv'
  BY <1>2, <1>5, <1>8 DEF PhaseInv
<1>13. EventsInv'
  BY <1>2, <1>5, <1>8, <1>10 DEF EventsInv
<1>14. CASE it < n
  <2>1. /\ it' = it + 1 /\ toCall' = lModules[lTimeEvents[it + 1]] /\ pc' = "modules"
        /\ UNCHANGED internalBaseCycle
    BY <1>2, <1>7, <1>14 DEF UniqueAdvance
  <2>2. it' \in DOMAIN lTimeEvents /\ lTimeEvents[it'] # r
    BY <1>1, <1>7, <1>8, <1>14, <2>1 DEF NoneTwice
  <2>3. /\ PlaceInv' /\ toCall' \in Seq(Callback) /\ toCall' = CallsOf(CurrentEvent)'
        /\ CurrentEvent' = lTimeEvents[it']
    <3>1. toCall' = CallsOf(lTimeEvents[it])' /\ UNCHANGED <<lTimeEvents, lModules, lWriterRM>>
      BY <1>2, <1>3, <2>1 DEF CallsOf, staticVars, listVars
    <3> QED BY <1>2, <1>5, <1>8, <2>2, <3>1, UniquePlace
  <2>4. LoopTypes'
    <3>1. /\ pc' = "modules" /\ it' \in Nat /\ toCall' \in Seq(Callback)
          /\ UNCHANGED <<lTimeEvents, lClockedEvents, currentBaseCycle, internalBaseCycle, calls, currentCycle>>
      BY <1>2, <1>8, <2>1, <2>3 DEF callVars
    <3>2. mayChange' \in BOOLEAN
      BY <1>2, <2>1 DEF LoopTypes
    <3> QED BY <1>2, <1>9, <3>1, <3>2 DEF LoopTypes
  <2>5. CallInv'
    <3>1. ASSUME NEW c \in Callback, cbReg[c] \in AllRegistries
          PROVE  IF cbReg[c] = r THEN Called(c) /\ ~Called(c)' ELSE Called(c)' <=> Called(c)
      <4>1. cbReg[c] = CurrentEvent' => c \in WriterRM \/ c \in ToSet(toCall')
        <5>1. ASSUME cbReg[c] = CurrentEvent' PROVE toCall' = lModules[cbReg[c]]
          BY <1>3, <2>1, <2>3, <5>1 DEF CallsOf, staticVars, listVars
        <5> QED BY <1>2, <3>1, <5>1, WhoseCalls
      <4>2. ~Called(c)'
        BY <1>2, <1>5, <2>1, <4>1 DEF Called
      <4> QED BY <1>11, <2>2, <2>3, <4>2
    <3>2. StaticTypes /\ LoopTypes /\ CallInv /\ UNCHANGED calls /\ Advance(r) /\ r \in Registry
      BY <1>2, <1>8 DEF StaticInv, callVars
    <3> QED BY <1>5, <1>6, <3>1, <3>2, CallsCompleted
  <2> QED BY <1>5, <1>12, <1>13, <2>3, <2>4, <2>5
<1>15. CASE it = n
  <2>1. /\ pc' = "idle" /\ internalBaseCycle' = (nBaseCycle'[r] - nStep[r]) \div 100
        /\ UNCHANGED <<it, toCall>>
    BY <1>1, <1>2, <1>7, <1>15 DEF UniqueAdvance
  <2>2. PlaceInv'
    BY <2>1 DEF PlaceInv, Clocking
  <2>3. LoopTypes'
    <3>1. internalBaseCycle' \in Nat
      <4>1. nBaseCycle'[r] - nStep[r] = nBaseCycle[r]
        BY <1>9
      <4> QED BY <1>9, <2>1, <4>1
    <3> QED BY <1>2, <1>8, <1>9, <2>1, <3>1 DEF LoopTypes, callVars
  <2>4. CallInv'
    <3>1. ASSUME NEW c \in Callback, cbReg[c] \in AllRegistries
          PROVE  IF cbReg[c] = r THEN Called(c) /\ ~Called(c)' ELSE Called(c)' <=> Called(c)
      <4>1. ~Called(c)'
        BY <2>1 DEF Called, Clocking
      <4> QED BY <1>11, <4>1
    <3>2. StaticTypes /\ LoopTypes /\ CallInv /\ UNCHANGED calls /\ Advance(r) /\ r \in Registry
      BY <1>2, <1>8 DEF StaticInv, callVars
    <3> QED BY <1>5, <1>6, <3>1, <3>2, CallsCompleted
  <2> QED BY <1>5, <1>12, <1>13, <2>2, <2>3, <2>4
<1> QED BY <1>8, <1>14, <1>15

\* A callback is called.
LEMMA RunCallbackCore ==
    ASSUME CoreInv, NEW i \in DOMAIN toCall, RunCallback(i)
    PROVE  CoreInv'
<1> USE DEF CoreInv
<1>1. PICK c : c = toCall[i]
  OBVIOUS
<1>2. /\ Clocking /\ Running /\ Running' /\ Clocking' /\ pc # "config" /\ pc' = pc
      /\ i \in 1..Len(toCall)
      /\ currentCycle' = [currentCycle EXCEPT ![c] = nCycle[CurrentEvent]]
      /\ calls' = [calls EXCEPT ![c] = calls[c] + 1]
      /\ toCall' = RemoveAt(toCall, i) /\ mayChange' = (pc = "modules")
      /\ UNCHANGED <<timeVars, lTimeEvents, lClockedEvents, currentBaseCycle, it, internalBaseCycle>>
  BY <1>1 DEF RunCallback, Clocking, Running
<1>3. UNCHANGED staticVars
  BY DEF RunCallback, staticVars, domainVars, listVars, stepVars, referenceVars, cbVars
<1>4. StaticInv' /\ ConfigInv' /\ AllRegistries' = AllRegistries /\ UniqueLoop' = UniqueLoop
  BY <1>2, <1>3, StaticKept
<1>5. toCall \in Seq(Callback) /\ NoneTwice(toCall) /\ ToSet(toCall) \subseteq ToSet(CallsOf(CurrentEvent))
  BY <1>2 DEF LoopTypes, PlaceInv
<1>6. /\ toCall' \in Seq(Callback) /\ NoneTwice(toCall') /\ ToSet(toCall') = ToSet(toCall) \ {c}
      /\ c \in ToSet(toCall) /\ c \in Callback
  <2>1. c \in ToSet(toCall) /\ c \in Callback
    BY <1>1, <1>5 DEF ToSet
  <2> QED BY <1>1, <1>2, <1>5, <2>1, TakenOut
<1>7. CurrentEvent' = CurrentEvent /\ Pending' = Pending
  BY <1>2, <1>4 DEF CurrentEvent, Pending
<1>8. CurrentEvent \in AllRegistries /\ CurrentEvent \in Registry
  BY <1>2, Current
<1>9. CallsOf(CurrentEvent)' = CallsOf(CurrentEvent)
  BY <1>2, <1>3, <1>7 DEF CallsOf, staticVars, listVars
<1>10. cbReg[c] = CurrentEvent /\ (pc = "modules" => c \notin WriterRM)
  <2>1. c \in ToSet(CallsOf(CurrentEvent))
    BY <1>5, <1>6
  <2> QED BY <1>8, <2>1, CallsOfRegistry DEF CallsOf
<1>11. LoopTypes'
  <2>1. nCycle[CurrentEvent] \in Nat /\ calls[c] + 1 \in Nat
    BY <1>6, <1>8 DEF LoopTypes
  <2> QED BY <1>2, <1>6, <2>1 DEF LoopTypes, timeVars
<1>12. PhaseInv'
  BY <1>2, <1>4 DEF PhaseInv
<1>13. EventsInv'
  BY <1>2, <1>4, <1>7 DEF EventsInv
<1>14. PlaceInv'
  BY <1>2, <1>4, <1>5, <1>6, <1>7, <1>9 DEF PlaceInv
<1>15. CallInv'
  <2> SUFFICES ASSUME NEW b \in Callback, cbReg[b] \in AllRegistries
               PROVE  calls'[b] = nCycle'[cbReg[b]] + IF Called(b)' THEN 1 ELSE 0
    BY <1>4 DEF CallInv
  <2>1. calls[b] = nCycle[cbReg[b]] + IF Called(b) THEN 1 ELSE 0
    BY <1>2 DEF CallInv
  <2>2. nCycle' = nCycle /\ nCycle[cbReg[b]] \in Nat /\ calls \in [Callback -> Nat]
    BY <1>2, ClockServerConstants DEF timeVars, LoopTypes
  <2>3. CASE b = c
    <3>1. ~Called(b)
      BY <1>6, <1>10, <2>3 DEF Called
    <3>2. Called(b)'
      BY <1>2, <1>6, <1>7, <1>10, <2>3 DEF Called
    <3>3. calls'[b] = calls[b] + 1
      BY <1>2, <2>2, <2>3
    <3> HIDE DEF Called
    <3> QED BY <2>1, <2>2, <3>1, <3>2, <3>3
  <2>4. CASE b # c
    <3>1. Called(b)' <=> Called(b)
      BY <1>2, <1>4, <1>6, <1>7, <2>4 DEF Called
    <3>2. calls'[b] = calls[b]
      BY <1>2, <2>2, <2>4
    <3> HIDE DEF Called
    <3> QED BY <2>1, <2>2, <3>1, <3>2
  <2> QED BY <2>3, <2>4
<1> QED BY <1>4, <1>11, <1>12, <1>13, <1>14, <1>15

-----------------------------------------------------------------------------
(* The configuration and the frequencies: what is where, and what has been called *)

\* The configuration leaves the loops alone.
LEMMA StillConfig ==
    ASSUME CoreInv, pc = "config", pc' = "config", UNCHANGED <<loopVars, mayChange, internalBaseCycle, callVars>>,
           nBaseCycle' \in [Registry -> Nat], nCycle' \in [Registry -> Nat],
           StaticTypes', CreatedInv', ConfigInv'
    PROVE  CoreInv'
<1> USE DEF CoreInv, loopVars, callVars
<1>1. LoopTypes'
  BY DEF LoopTypes
<1>2. PhaseInv'
  BY DEF PhaseInv
<1>3. EventsInv' /\ CallInv'
  BY DEF EventsInv, CallInv, Running
<1>4. PlaceInv'
  BY DEF PlaceInv, Clocking
<1>5. StaticInv'
  BY DEF StaticInv, StartedInv
<1> QED BY <1>1, <1>2, <1>3, <1>4, <1>5

\* The initial frequency of a domain.
LEMMA InitialFrequency ==
    ASSUME NEW d \in Domain
    PROVE  /\ Normalized(Freqs[d][1]) \in normalizedFrequencies(d) /\ Normalized(Freqs[d][1]) \in Nat
           /\ \A f \in normalizedFrequencies(d) : f \in Nat
<1>1. Freqs[d] \in Seq(Nat \ (0..99)) /\ Freqs[d] # <<>>
  BY ClockServerConstants
<1>2. 1 \in DOMAIN Freqs[d]
  BY <1>1
<1>3. ASSUME NEW i \in DOMAIN Freqs[d] PROVE Normalized(Freqs[d][i]) \in Nat
  <2>1. PICK n \in 1..WordMax : \A e \in Domain : \A j \in DOMAIN Freqs[e] :
           Normalized(Freqs[e][j]) \in 1..WordMax /\ Divides(Normalized(Freqs[e][j]), n)
    BY FrequenciesFit
  <2>2. Normalized(Freqs[d][i]) \in 1..WordMax /\ WordMax \in Nat
    BY <2>1, FrequencyConstants
  <2> QED BY <2>2
<1> QED BY <1>2, <1>3 DEF normalizedFrequencies

\* A domain is created.
LEMMA NewClockDomainCore ==
    ASSUME CoreInv, NEW d \in Domain, NewClockDomain(d)
    PROVE  CoreInv'
<1> USE DEF CoreInv
<1>1. /\ pc = "config" /\ pc' = "config" /\ d \notin ToSet(lDomain) /\ lDomain' = Append(lDomain, d)
      /\ currentFrequency' = [currentFrequency EXCEPT ![d] = Normalized(Freqs[d][1])]
      /\ UNCHANGED <<restarts, RandomClocking, listVars, lWriterRM, stepVars, timeVars,
                     referenceVars, uniqueClockDomain, loopVars, mayChange, internalBaseCycle, callVars, changed>>
  BY DEF NewClockDomain, cbVars
<1>2. lDomain \in Seq(Domain) /\ NoneTwice(lDomain) /\ currentFrequency \in [Domain -> Nat]
  BY DEF StaticInv, StaticTypes, CreatedInv, ListsOfDomains
<1>3. lDomain' \in Seq(Domain) /\ ToSet(lDomain') = ToSet(lDomain) \cup {d} /\ NoneTwice(lDomain')
  BY <1>1, <1>2, Appended
<1>4. AllRegistries' = AllRegistries
  BY <1>1 DEF AllRegistries, listVars
<1>5. StaticTypes'
  BY <1>1, <1>2, <1>3, InitialFrequency DEF StaticInv, StaticTypes, listVars, stepVars, referenceVars
<1>6. CreatedInv'
  <2>1. ListsOfDomains'
    BY <1>1, <1>3 DEF StaticInv, CreatedInv, ListsOfDomains, listVars, NoneTwice
  <2>2. \A e \in ToSet(lDomain') : currentFrequency'[e] \in normalizedFrequencies(e)
    <3>1. ASSUME NEW e \in ToSet(lDomain) PROVE currentFrequency'[e] = currentFrequency[e] /\ e \in Domain
      BY <1>1, <1>2, <3>1 DEF ToSet
    <3>2. currentFrequency'[d] = Normalized(Freqs[d][1])
      BY <1>1, <1>2
    <3> QED BY <1>3, <3>1, <3>2, InitialFrequency DEF StaticInv, CreatedInv
  <2>3. \A r \in AllRegistries : nFrequency'[r] = currentFrequency'[regDomain[r]]
    <3>1. ASSUME NEW r \in AllRegistries PROVE regDomain[r] # d /\ regDomain[r] \in Domain
      <4>1. regDomain[r] \in Domain /\ r \in ToSet(lClock[regDomain[r]])
        BY ClockServerConstants DEF AllRegistries
      <4> QED BY <1>1, <4>1 DEF StaticInv, CreatedInv, ListsOfDomains
    <3> QED BY <1>1, <1>2, <3>1 DEF StaticInv, CreatedInv, stepVars
  <2> QED BY <1>1, <1>4, <2>1, <2>2, <2>3 DEF StaticInv, CreatedInv, listVars
<1>7. ConfigInv'
  BY <1>1, <1>4 DEF ConfigInv, timeVars, callVars
<1>8. nBaseCycle' \in [Registry -> Nat] /\ nCycle' \in [Registry -> Nat]
  BY <1>1 DEF LoopTypes, timeVars
<1> QED BY <1>1, <1>5, <1>6, <1>7, <1>8, StillConfig

\* A random seed is set.
LEMMA SetRandomClockingSeedCore ==
    ASSUME CoreInv, NEW on \in BOOLEAN, SetRandomClockingSeed(on)
    PROVE  CoreInv'
<1> USE DEF CoreInv
<1>1. /\ pc \in {"config", "idle"} /\ pc' = pc /\ RandomClocking' = on
      /\ UNCHANGED <<restarts, lDomain, currentFrequency, listVars, lWriterRM, stepVars, timeVars,
                     referenceVars, uniqueClockDomain, loopVars, mayChange, internalBaseCycle, callVars, changed>>
  BY DEF SetRandomClockingSeed, cbVars
<1> USE DEF listVars, stepVars, timeVars, referenceVars, loopVars, callVars
<1>2. AllRegistries' = AllRegistries /\ Bf' = Bf
  BY <1>1 DEF AllRegistries, Bf
<1>3. StaticTypes'
  BY <1>1 DEF StaticInv, StaticTypes
<1>4. CreatedInv'
  BY <1>1, <1>2 DEF StaticInv, CreatedInv, ListsOfDomains, NoneTwice
<1>5. StartedInv'
  BY <1>1, <1>2 DEF StaticInv, StartedInv, StepOf
<1>6. LoopTypes' /\ ConfigInv'
  BY <1>1, <1>2 DEF LoopTypes, ConfigInv
<1>7. PhaseInv'
  BY <1>1 DEF PhaseInv
<1>8. Pending' = Pending
  BY <1>1 DEF Pending
<1>9. EventsInv'
  BY <1>1, <1>2, <1>8 DEF EventsInv, Running, NoneTwice
<1>10. PlaceInv'
  BY <1>1 DEF PlaceInv, Clocking
<1>11. CallInv'
  <2>1. \A c : ~Called(c) /\ ~Called(c)'
    BY <1>1 DEF Called, Clocking
  <2> QED BY <1>1, <1>2, <2>1 DEF CallInv, Running
<1> QED BY <1>3, <1>4, <1>5, <1>6, <1>7, <1>9, <1>10, <1>11 DEF StaticInv

\* A module is registered.
LEMMA RegisterClockCore ==
    ASSUME CoreInv, NEW c \in Callback, RegisterClock(c)
    PROVE  CoreInv'
<1> USE DEF CoreInv
<1>1. PICK r, d : r = cbReg[c] /\ d = regDomain[r] /\ r \in Registry /\ d \in Domain
  BY ClockServerConstants
<1>2. /\ pc = "config" /\ pc' = "config" /\ d \in ToSet(lDomain)
      /\ c \notin WriterRM /\ c \notin ToSet(lModules[r])
      /\ lModules' = [lModules EXCEPT ![r] = Append(lModules[r], c)]
      /\ UNCHANGED <<restarts, domainVars, lWriterRM, lrateWriter, referenceClockDomain,
                     referenceClockRegitry, uniqueClockDomain, loopVars, mayChange,
                     internalBaseCycle, callVars, changed>>
  BY <1>1 DEF RegisterClock, cbVars
<1>3. /\ lModules \in [Registry -> Seq(Callback)] /\ lClock \in [Domain -> Seq(Registry)]
      /\ nFrequency \in [Registry -> Nat] /\ nStep \in [Registry -> Nat]
      /\ nBaseCycle \in [Registry -> Nat] /\ nCycle \in [Registry -> Nat]
      /\ currentFrequency \in [Domain -> Nat]
  BY DEF StaticInv, StaticTypes, LoopTypes
<1>4. PICK l : l = Append(lModules[r], c)
  OBVIOUS
<1>5. l \in Seq(Callback) /\ ToSet(l) = ToSet(lModules[r]) \cup {c} /\ NoneTwice(l)
  <2>1. lModules[r] \in Seq(Callback) /\ NoneTwice(lModules[r])
    BY <1>1, <1>3 DEF StaticInv, CreatedInv
  <2> QED BY <1>2, <1>4, <2>1, Appended
<1>6. /\ lModules' \in [Registry -> Seq(Callback)] /\ lModules'[r] = l
      /\ \A s \in Registry \ {r} : lModules'[s] = lModules[s]
  BY <1>1, <1>2, <1>3, <1>4, <1>5
<1>7. /\ \A s \in Registry : NoneTwice(lModules'[s]) /\ NoneTwice(lWriterRM'[s])
      /\ \A s \in Registry : \A b \in ToSet(lModules'[s]) : cbReg[b] = s /\ b \notin WriterRM
      /\ \A s \in Registry : \A b \in ToSet(lWriterRM'[s]) : cbReg[b] = s
  <2>1. ASSUME NEW s \in Registry
        PROVE  /\ NoneTwice(lModules'[s])
               /\ \A b \in ToSet(lModules'[s]) : cbReg[b] = s /\ b \notin WriterRM
    <3>1. CASE s = r
      <4>1. \A b \in ToSet(lModules[r]) : cbReg[b] = r /\ b \notin WriterRM
        BY <1>1 DEF StaticInv, CreatedInv
      <4>2. cbReg[c] = r /\ c \notin WriterRM
        BY <1>1, <1>2
      <4> QED BY <1>5, <1>6, <3>1, <4>1, <4>2
    <3>2. CASE s # r
      BY <1>6, <3>2 DEF StaticInv, CreatedInv
    <3> QED BY <3>1, <3>2
  <2>2. lWriterRM' = lWriterRM
    BY <1>2
  <2> QED BY <2>1, <2>2 DEF StaticInv, CreatedInv
<1>8. CASE r \notin ToSet(lClock[d])
  <2>1. /\ lClock' = [lClock EXCEPT ![d] = Append(lClock[d], r)]
        /\ nFrequency' = [nFrequency EXCEPT ![r] = currentFrequency[d]]
        /\ nStep' = [nStep EXCEPT ![r] = 0] /\ nBaseCycle' = [nBaseCycle EXCEPT ![r] = 0]
        /\ nCycle' = [nCycle EXCEPT ![r] = 0]
        /\ firstClockRegitry' = IF firstClockRegitry = NoRegistry THEN r ELSE firstClockRegitry
    BY <1>1, <1>8 DEF RegisterClock
  <2>2. PICK k : k = Append(lClock[d], r)
    OBVIOUS
  <2>3. k \in Seq(Registry) /\ ToSet(k) = ToSet(lClock[d]) \cup {r} /\ NoneTwice(k)
    <3>1. lClock[d] \in Seq(Registry) /\ NoneTwice(lClock[d])
      BY <1>1, <1>3 DEF StaticInv, CreatedInv, ListsOfDomains
    <3> QED BY <1>1, <1>8, <2>2, <3>1, Appended
  <2>4. /\ lClock' \in [Domain -> Seq(Registry)] /\ lClock'[d] = k
        /\ \A e \in Domain \ {d} : lClock'[e] = lClock[e]
    BY <1>1, <1>3, <2>1, <2>2, <2>3
  <2>5. /\ nFrequency' \in [Registry -> Nat] /\ nStep' \in [Registry -> Nat]
        /\ nBaseCycle' \in [Registry -> Nat] /\ nCycle' \in [Registry -> Nat]
        /\ nFrequency'[r] = currentFrequency[d] /\ nCycle'[r] = 0
        /\ \A s \in Registry \ {r} : nFrequency'[s] = nFrequency[s] /\ nCycle'[s] = nCycle[s]
    <3>1. currentFrequency[d] \in Nat /\ 0 \in Nat
      BY <1>1, <1>3
    <3> QED BY <1>1, <1>3, <2>1, <3>1
  <2>6. AllRegistries' = AllRegistries \cup {r}
    <3>1. ASSUME NEW s \in Registry
          PROVE  s \in ToSet(lClock'[regDomain[s]]) <=> s = r \/ s \in ToSet(lClock[regDomain[s]])
      <4>1. regDomain[s] \in Domain
        BY ClockServerConstants
      <4> QED BY <1>1, <2>3, <2>4, <4>1
    <3> QED BY <1>1, <3>1 DEF AllRegistries
  <2>7. StaticTypes'
    <3>1. firstClockRegitry' \in Registry \cup {NoRegistry}
      BY <1>1, <2>1 DEF StaticInv, StaticTypes
    <3> QED BY <1>2, <1>6, <2>4, <2>5, <3>1 DEF StaticInv, StaticTypes, domainVars
  <2>8. CreatedInv'
    <3>1. lDomain' = lDomain /\ currentFrequency' = currentFrequency /\ lrateWriter' = lrateWriter
      BY <1>2 DEF domainVars
    <3>2. ListsOfDomains'
      <4>1. ASSUME NEW e \in Domain
            PROVE  /\ NoneTwice(lClock'[e])
                   /\ \A s \in ToSet(lClock'[e]) : regDomain[s] = e /\ e \in ToSet(lDomain)
        <5>1. CASE e = d
          <6>1. \A s \in ToSet(lClock[d]) : regDomain[s] = d
            BY <1>1 DEF StaticInv, CreatedInv, ListsOfDomains
          <6> QED BY <1>1, <1>2, <2>3, <2>4, <5>1, <6>1
        <5>2. CASE e # d
          BY <2>4, <5>2 DEF StaticInv, CreatedInv, ListsOfDomains
        <5> QED BY <5>1, <5>2
      <4> QED BY <3>1, <4>1 DEF StaticInv, CreatedInv, ListsOfDomains
    <3>3. \A s \in AllRegistries' : nFrequency'[s] = currentFrequency'[regDomain[s]]
      BY <1>1, <2>5, <2>6, <3>1 DEF StaticInv, CreatedInv, AllRegistries
    <3> QED BY <1>7, <3>1, <3>2, <3>3 DEF StaticInv, CreatedInv
  <2>9. ConfigInv'
    BY <1>2, <2>5, <2>6 DEF ConfigInv, callVars, AllRegistries
  <2> QED BY <1>2, <2>5, <2>7, <2>8, <2>9, StillConfig
<1>9. CASE r \in ToSet(lClock[d])
  <2>1. UNCHANGED <<lClock, stepVars, timeVars, firstClockRegitry>>
    BY <1>1, <1>9 DEF RegisterClock
  <2>2. AllRegistries' = AllRegistries
    BY <2>1 DEF AllRegistries
  <2>3. StaticTypes'
    BY <1>2, <1>6, <2>1 DEF StaticInv, StaticTypes, domainVars, stepVars
  <2>4. CreatedInv'
    <3>1. lDomain' = lDomain /\ currentFrequency' = currentFrequency /\ lrateWriter' = lrateWriter
          /\ lClock' = lClock /\ nFrequency' = nFrequency
      BY <1>2, <2>1 DEF domainVars, stepVars
    <3> QED BY <1>7, <2>2, <3>1 DEF StaticInv, CreatedInv, ListsOfDomains, NoneTwice
  <2>5. ConfigInv'
    BY <1>2, <2>1, <2>2 DEF ConfigInv, callVars, timeVars
  <2>6. nBaseCycle' \in [Registry -> Nat] /\ nCycle' \in [Registry -> Nat]
    BY <1>3, <2>1 DEF timeVars
  <2> QED BY <1>2, <2>3, <2>4, <2>5, <2>6, StillConfig
<1> QED BY <1>8, <1>9

\* A writer rate matcher is registered.
LEMMA RegisterRateMatcherWriterCore ==
    ASSUME CoreInv, NEW w \in Callback, RegisterRateMatcherWriter(w)
    PROVE  CoreInv'
<1> USE DEF CoreInv
<1>1. /\ pc = "config" /\ pc' = "config" /\ w \in WriterRM /\ w \notin ToSet(lrateWriter)
      /\ lrateWriter' = Append(lrateWriter, w)
      /\ UNCHANGED <<restarts, domainVars, lClock, lModules, lWriterRM, stepVars, timeVars,
                     referenceVars, uniqueClockDomain, loopVars, mayChange, internalBaseCycle, callVars, changed>>
  BY DEF RegisterRateMatcherWriter, cbVars
<1>2. lrateWriter' \in Seq(WriterRM) /\ NoneTwice(lrateWriter')
  <2>1. lrateWriter \in Seq(WriterRM) /\ NoneTwice(lrateWriter)
    BY DEF StaticInv, StaticTypes, CreatedInv
  <2> QED BY <1>1, <2>1, Appended
<1>3. AllRegistries' = AllRegistries
  BY <1>1 DEF AllRegistries
<1>4. StaticTypes'
  BY <1>1, <1>2 DEF StaticInv, StaticTypes, domainVars, stepVars, referenceVars
<1>5. CreatedInv'
  BY <1>1, <1>2, <1>3 DEF StaticInv, CreatedInv, ListsOfDomains, domainVars, stepVars, NoneTwice
<1>6. ConfigInv'
  BY <1>1, <1>3 DEF ConfigInv, callVars, timeVars
<1>7. nBaseCycle' \in [Registry -> Nat] /\ nCycle' \in [Registry -> Nat]
  BY <1>1 DEF LoopTypes, timeVars
<1> QED BY <1>1, <1>4, <1>5, <1>6, <1>7, StillConfig

\* The reference clock domain is set.
LEMMA SetReferenceClockDomainCore ==
    ASSUME CoreInv, NEW d \in Domain, SetReferenceClockDomain(d)
    PROVE  CoreInv'
<1> USE DEF CoreInv
<1>1. /\ pc = "config" /\ pc' = "config" /\ lClock[d] # <<>>
      /\ referenceClockDomain' = d /\ referenceClockRegitry' = Head(lClock[d])
      /\ UNCHANGED <<restarts, domainVars, listVars, lWriterRM, stepVars, timeVars, firstClockRegitry,
                     uniqueClockDomain, loopVars, mayChange, internalBaseCycle, callVars, changed>>
  BY DEF SetReferenceClockDomain, cbVars
<1>2. referenceClockRegitry' \in Registry
  <2>1. lClock[d] \in Seq(Registry)
    BY DEF StaticInv, StaticTypes
  <2> QED BY <1>1, <2>1, Popped
<1>3. AllRegistries' = AllRegistries
  BY <1>1 DEF AllRegistries, listVars
<1>4. StaticTypes'
  BY <1>1, <1>2 DEF StaticInv, StaticTypes, domainVars, stepVars, listVars
<1>5. CreatedInv'
  BY <1>1, <1>3 DEF StaticInv, CreatedInv, ListsOfDomains, domainVars, stepVars, listVars, NoneTwice
<1>6. ConfigInv'
  BY <1>1, <1>3 DEF ConfigInv, callVars, timeVars
<1>7. nBaseCycle' \in [Registry -> Nat] /\ nCycle' \in [Registry -> Nat]
  BY <1>1 DEF LoopTypes, timeVars
<1> QED BY <1>1, <1>4, <1>5, <1>6, <1>7, StillConfig

\* The registries are deleted.
LEMMA UnregisterAllCore ==
    ASSUME CoreInv, UnregisterAll
    PROVE  CoreInv'
<1> USE DEF CoreInv
<1>1. /\ pc = "idle" /\ pc' = "config" /\ restarts < MaxRestarts /\ restarts' = restarts + 1
      /\ referenceClockRegitry' = NoRegistry /\ firstClockRegitry' = NoRegistry
      /\ lClock' = [d \in Domain |-> <<>>]
      /\ lModules' = [r \in Registry |-> <<>>] /\ lWriterRM' = [r \in Registry |-> <<>>]
      /\ lrateWriter' = <<>> /\ currentCycle' = [c \in Callback |-> 0]
      /\ calls' = [c \in Callback |-> 0] /\ changed' = FALSE
      /\ UNCHANGED <<domainVars, stepVars, timeVars, referenceClockDomain, uniqueClockDomain,
                     loopVars, mayChange, internalBaseCycle>>
  BY DEF UnregisterAll
<1>2. ToSet(<<>>) = {} /\ NoneTwice(<<>>)
  BY DEF ToSet, NoneTwice
<1>3. AllRegistries' = {}
  BY <1>1, <1>2, ClockServerConstants DEF AllRegistries
<1>4. StaticTypes'
  <2>1. restarts' \in 0..MaxRestarts
    BY <1>1, ClockServerConstants DEF StaticInv, StaticTypes
  <2>2. <<>> \in Seq(Registry) /\ <<>> \in Seq(Callback) /\ <<>> \in Seq(WriterRM)
    OBVIOUS
  <2> QED BY <1>1, <2>1, <2>2 DEF StaticInv, StaticTypes, domainVars, stepVars
<1>5. CreatedInv'
  <2>1. ListsOfDomains'
    BY <1>1, <1>2 DEF StaticInv, CreatedInv, ListsOfDomains, domainVars
  <2>2. \A d \in ToSet(lDomain') : currentFrequency'[d] \in normalizedFrequencies(d)
    BY <1>1 DEF StaticInv, CreatedInv, domainVars
  <2> QED BY <1>1, <1>2, <1>3, <2>1, <2>2 DEF CreatedInv
<1>6. ConfigInv'
  BY <1>1, <1>3 DEF ConfigInv
<1>7. LoopTypes'
  <2>1. currentCycle' \in [Callback -> Nat] /\ calls' \in [Callback -> Nat]
    BY <1>1
  <2> QED BY <1>1, <2>1 DEF LoopTypes, timeVars, loopVars
<1>8. PhaseInv'
  BY <1>1 DEF PhaseInv, loopVars
<1>9. EventsInv' /\ CallInv' /\ PlaceInv' /\ StartedInv'
  BY <1>1 DEF EventsInv, CallInv, Running, PlaceInv, Clocking, StartedInv
<1> QED BY <1>4, <1>5, <1>6, <1>7, <1>8, <1>9 DEF StaticInv

\* Nothing has been configured yet.
LEMMA InitCore ==
    ASSUME Init
    PROVE  CoreInv
<1>1. ToSet(<<>>) = {} /\ NoneTwice(<<>>)
  BY DEF ToSet, NoneTwice
<1>2. AllRegistries = {}
  BY <1>1, ClockServerConstants DEF Init, AllRegistries
<1>3. StaticTypes
  <2>1. <<>> \in Seq(Registry) /\ <<>> \in Seq(Callback) /\ <<>> \in Seq(WriterRM) /\ <<>> \in Seq(Domain)
    OBVIOUS
  <2>2. restarts \in 0..MaxRestarts
    BY ClockServerConstants DEF Init
  <2> QED BY <2>1, <2>2 DEF Init, StaticTypes
<1>4. CreatedInv
  BY <1>1, <1>2 DEF Init, CreatedInv, ListsOfDomains
<1>5. LoopTypes
  <2>1. <<>> \in Seq(Registry) /\ <<>> \in Seq(Callback)
    OBVIOUS
  <2>2. /\ nBaseCycle \in [Registry -> Nat] /\ nCycle \in [Registry -> Nat]
        /\ currentCycle \in [Callback -> Nat] /\ calls \in [Callback -> Nat]
    BY DEF Init
  <2> QED BY <2>1, <2>2 DEF Init, LoopTypes
<1>6. ConfigInv /\ PhaseInv /\ StartedInv
  BY <1>2 DEF Init, ConfigInv, PhaseInv, StartedInv
<1>7. EventsInv /\ CallInv /\ PlaceInv
  BY DEF Init, EventsInv, CallInv, Running, PlaceInv, Clocking
<1> QED BY <1>3, <1>4, <1>5, <1>6, <1>7 DEF CoreInv, StaticInv

\* The frequency of a registry, its step and its skew.
LEMMA RegistriesFit ==
    ASSUME StaticTypes, CreatedInv, NEW r \in AllRegistries
    PROVE  /\ r \in Registry /\ nFrequency[r] \in Nat /\ nFrequency[r] >= 1 /\ Bf \in Nat /\ Bf >= 1
           /\ StepOf(nFrequency[r]) \in Nat /\ SkewTime(r, nFrequency[r]) \in Nat
           /\ SkewTime(r, nFrequency[r]) * nFrequency[r] = nSkew[r] * Bf
           /\ SkewTime(r, nFrequency[r]) < StepOf(nFrequency[r]) /\ StepOf(nFrequency[r]) <= 100 * Bf
<1>1. lDomain \in Seq(Domain) /\ WordMax \in Nat
  BY FrequencyConstants DEF StaticTypes
<1>2. /\ Bf \in 1..WordMax
      /\ \A d \in ToSet(lDomain) : \A f \in normalizedFrequencies(d) : f \in 1..WordMax /\ Divides(f, Bf)
  BY <1>1, BfWorks
<1>3. PICK b \in Nat \ {0} : b = Bf
  BY <1>1, <1>2
<1>4. r \in Registry /\ regDomain[r] \in Domain /\ r \in ToSet(lClock[regDomain[r]])
  BY ClockServerConstants DEF AllRegistries
<1>5. regDomain[r] \in ToSet(lDomain) /\ nFrequency[r] = currentFrequency[regDomain[r]]
  BY <1>4 DEF CreatedInv, ListsOfDomains
<1>6. nFrequency[r] \in normalizedFrequencies(regDomain[r])
  BY <1>5 DEF CreatedInv
<1>7. PICK f \in Nat \ {0} : f = nFrequency[r] /\ Divides(f, b)
  BY <1>1, <1>2, <1>3, <1>5, <1>6
<1>8. PICK skew \in 0..99 : skew = nSkew[r]
  BY <1>4, ClockServerConstants
<1>9. StepOf(nFrequency[r]) = (b \div f) * 100 /\ SkewTime(r, nFrequency[r]) = (skew * b) \div f
  BY <1>3, <1>7, <1>8 DEF StepOf, SkewTime
<1>10. /\ (b \div f) * 100 \in Nat /\ (b \div f) * 100 <= 100 * b
       /\ (skew * b) \div f \in Nat /\ ((skew * b) \div f) * f = skew * b
       /\ (skew * b) \div f < (b \div f) * 100
  <2>1. PeriodFits(b, f, skew)
    BY <1>7, StepWorks
  <2> QED BY ONLY <2>1 DEF PeriodFits
<1> QED BY <1>3, <1>4, <1>7, <1>8, <1>9, <1>10

\* The server is initialised.
LEMMA InitClockServerCore ==
    ASSUME CoreInv, InitClockServer
    PROVE  CoreInv'
<1> USE DEF CoreInv
<1>1. /\ pc = "config" /\ pc' = "idle" /\ Configured /\ DefaultReference
      /\ lWriterRM' = [r \in Registry |-> Connected(r)]
      /\ nStep' = [r \in Registry |-> IF r \in AllRegistries THEN StepOf(nFrequency[r]) ELSE nStep[r]]
      /\ nBaseCycle' = [r \in Registry |->
                          IF r \in AllRegistries THEN SkewTime(r, nFrequency[r]) ELSE nBaseCycle[r]]
      /\ lTimeEvents' = InitialEvents(nBaseCycle')
      /\ uniqueClockDomain' = (Len(lDomain) <= 1 /\ uniqueDomainOptimization)
      /\ internalBaseCycle' = 0
      /\ UNCHANGED <<restarts, domainVars, listVars, nFrequency, nCycle, firstClockRegitry, lClockedEvents,
                     currentBaseCycle, it, toCall, mayChange, callVars, changed>>
  BY DEF InitClockServer, cbVars
<1>2. StaticTypes /\ CreatedInv /\ LoopTypes
  BY DEF StaticInv
<1>3. AllRegistries' = AllRegistries /\ Bf' = Bf
  BY <1>1 DEF AllRegistries, Bf, listVars, domainVars
<1>4. \A r \in Registry : /\ lWriterRM'[r] \in Seq(WriterRM) /\ NoneTwice(lWriterRM'[r])
                          /\ ToSet(lWriterRM'[r]) = {c \in ToSet(lrateWriter) : cbReg[c] = r}
  <2>1. ASSUME NEW r \in Registry
        PROVE  /\ Connected(r) \in Seq(WriterRM) /\ NoneTwice(Connected(r))
               /\ ToSet(Connected(r)) = {c \in ToSet(lrateWriter) : cbReg[c] = r}
    <3>1. lWriterRM[r] = <<>> /\ lrateWriter \in Seq(WriterRM) /\ NoneTwice(lrateWriter)
      BY <1>1, <1>2 DEF ConfigInv, StaticTypes, CreatedInv
    <3> QED BY <3>1, ConnectedWorks
  <2> QED BY <1>1, <2>1
<1>5. nStep' \in [Registry -> Nat] /\ nBaseCycle' \in [Registry -> Nat]
  <2>1. nStep \in [Registry -> Nat] /\ nBaseCycle \in [Registry -> Nat]
    BY <1>2 DEF StaticTypes, LoopTypes
  <2>2. ASSUME NEW r \in AllRegistries
        PROVE  StepOf(nFrequency[r]) \in Nat /\ SkewTime(r, nFrequency[r]) \in Nat
    BY <1>2, RegistriesFit
  <2> QED BY <1>1, <2>1, <2>2
<1>6. referenceClockDomain' \in Domain \cup {NoDomain} /\ referenceClockRegitry' \in Registry \cup {NoRegistry}
  <2>1. CASE referenceClockDomain = NoDomain
    <3>1. lDomain \in Seq(Domain) /\ lDomain # <<>> /\ lClock \in [Domain -> Seq(Registry)]
      BY <1>1, <1>2 DEF Configured, StaticTypes
    <3>2. PICK d \in Domain : d = Head(lDomain)
      BY <3>1, Popped
    <3>3. lClock[d] # <<>> /\ referenceClockDomain' = d /\ referenceClockRegitry' = Head(lClock[d])
      BY <1>1, <2>1, <3>2 DEF DefaultReference
    <3>4. Head(lClock[d]) \in Registry
      <4>1. lClock[d] \in Seq(Registry)
        BY <3>1
      <4> QED BY <3>3, <4>1, Popped
    <3> QED BY <3>3, <3>4
  <2>2. CASE referenceClockDomain # NoDomain
    BY <1>1, <1>2, <2>2 DEF DefaultReference, StaticTypes
  <2> QED BY <2>1, <2>2
<1>7. StaticTypes'
  <2>1. lWriterRM' \in [Registry -> Seq(WriterRM)]
    BY <1>1, <1>4
  <2>2. uniqueClockDomain' \in BOOLEAN
    BY <1>1
  <2> QED BY <1>1, <1>2, <1>5, <1>6, <2>1, <2>2 DEF StaticTypes, domainVars, listVars
<1>8. CreatedInv'
  BY <1>1, <1>2, <1>3, <1>4 DEF CreatedInv, ListsOfDomains, domainVars, listVars, NoneTwice
<1>9. StartedInv'
  <2>1. ASSUME NEW r \in AllRegistries PROVE nStep'[r] = StepOf(nFrequency[r])'
    BY <1>1, <1>3 DEF AllRegistries, StepOf
  <2>2. ASSUME NEW c \in Callback, cbReg[c] \in AllRegistries
        PROVE  c \in ToSet(lModules'[cbReg[c]]) \cup ToSet(lWriterRM'[cbReg[c]])
    <3>1. cbReg[c] \in Registry /\ regDomain[cbReg[c]] \in Domain /\ cbReg[c] \in ToSet(lClock[regDomain[cbReg[c]]])
      BY <2>2, ClockServerConstants DEF AllRegistries
    <3>2. regDomain[cbReg[c]] \in ToSet(lDomain)
      BY <1>2, <3>1 DEF CreatedInv, ListsOfDomains
    <3>3. c \in ToSet(lrateWriter) \/ c \in ToSet(lModules[cbReg[c]])
      BY <1>1, <3>2 DEF Configured
    <3>4. lModules' = lModules
      BY <1>1 DEF listVars
    <3> QED BY <1>4, <3>1, <3>3, <3>4
  <2>3. uniqueClockDomain' = (Len(lDomain') <= 1 /\ uniqueDomainOptimization)
    BY <1>1 DEF domainVars
  <2> QED BY <1>3, <2>1, <2>2, <2>3 DEF StartedInv
<1>10. lTimeEvents' \in Seq(Registry) /\ ToSet(lTimeEvents') = AllRegistries /\ NoneTwice(lTimeEvents')
       /\ Sorted(lTimeEvents', nBaseCycle')
  <2>1. Registered \in Seq(Registry) /\ ToSet(Registered) = AllRegistries /\ NoneTwice(Registered)
    BY <1>2, RegisteredOnce DEF StaticTypes, CreatedInv
  <2>2. PICK base : base = nBaseCycle'
    OBVIOUS
  <2>3. base \in [Registry -> Nat]
    BY <1>5, <2>2
  <2>4. PICK events : events = InitialEvents(base)
    OBVIOUS
  <2>5. /\ events \in Seq(Registry) /\ ToSet(events) = AllRegistries /\ NoneTwice(events)
        /\ Sorted(events, base)
    BY <2>1, <2>3, <2>4, EventsBuilt
  <2>6. lTimeEvents' = events
    BY <1>1, <2>2, <2>4
  <2> QED BY <2>2, <2>5, <2>6
<1>11. LoopTypes'
  BY <1>1, <1>2, <1>5, <1>10 DEF LoopTypes, callVars
<1>12. PhaseInv' /\ ConfigInv'
  BY <1>1 DEF PhaseInv, ConfigInv
<1>13. EventsInv'
  <2>1. Pending' = <<>> /\ lClockedEvents' = <<>> /\ ToSet(<<>>) = {} /\ NoneTwice(<<>>)
    BY <1>1 DEF Pending, PhaseInv, ToSet, NoneTwice
  <2> QED BY <1>3, <1>10, <2>1 DEF EventsInv
<1>14. PlaceInv'
  BY <1>1 DEF PlaceInv, Clocking
<1>15. CallInv'
  <2>1. \A c : ~Called(c)'
    BY <1>1 DEF Called, Clocking
  <2>2. \A c \in Callback : cbReg[c] \in AllRegistries => calls'[c] = 0 /\ nCycle'[cbReg[c]] = 0
    BY <1>1 DEF ConfigInv, callVars
  <2> QED BY <1>3, <2>1, <2>2 DEF CallInv
<1> QED BY <1>7, <1>8, <1>9, <1>11, <1>12, <1>13, <1>14, <1>15 DEF StaticInv

\* A module changes the frequency of a domain.
LEMMA SetDomainFrequencyCore ==
    ASSUME CoreInv, NEW d \in Domain, NEW f \in ToSet(Freqs[d]), SetDomainFrequency(d, f)
    PROVE  CoreInv'
<1> USE DEF CoreInv
<1>1. /\ mayChange /\ pc = "modules" /\ mayChange' = FALSE /\ changed' = TRUE
      /\ UNCHANGED <<restarts, RandomClocking, lDomain, listVars, lWriterRM, timeVars,
                     referenceVars, uniqueClockDomain, loopVars, internalBaseCycle, callVars>>
  BY DEF SetDomainFrequency, PhaseInv
<1> USE DEF listVars, stepVars, timeVars, referenceVars, loopVars, callVars
<1>2. /\ AllRegistries' = AllRegistries /\ UniqueLoop' = UniqueLoop /\ Bf' = Bf
  BY <1>1 DEF AllRegistries, UniqueLoop, Bf
<1>3. CASE UNCHANGED <<currentFrequency, stepVars>> /\ pc' = "failed"
  <2>1. StaticInv'
    <3>1. StaticTypes'
      BY <1>1, <1>3 DEF StaticInv, StaticTypes
    <3>2. CreatedInv'
      <4>1. ListsOfDomains'
        BY <1>1, <1>3 DEF StaticInv, CreatedInv, ListsOfDomains
      <4> QED BY <1>1, <1>2, <1>3, <4>1 DEF StaticInv, CreatedInv
    <3>3. StartedInv'
      BY <1>1, <1>2, <1>3 DEF StaticInv, StartedInv, StepOf
    <3> QED BY <3>1, <3>2, <3>3 DEF StaticInv
  <2>2. LoopTypes' /\ ConfigInv' /\ PhaseInv' /\ EventsInv' /\ PlaceInv' /\ CallInv'
    BY <1>1, <1>2, <1>3 DEF LoopTypes, ConfigInv, PhaseInv, EventsInv, PlaceInv, CallInv, Running, Clocking
  <2> QED BY <2>1, <2>2
<1>4. CASE ~(UNCHANGED <<currentFrequency, stepVars>> /\ pc' = "failed")
  <2>1. PICK norm : norm = Truncated(f)
    OBVIOUS
  <2>2. /\ d \in ToSet(lDomain) /\ norm \in normalizedFrequencies(d)
        /\ currentFrequency' = [currentFrequency EXCEPT ![d] = norm]
        /\ nFrequency' = [r \in Registry |-> IF r \in ToSet(lClock[d]) THEN norm ELSE nFrequency[r]]
        /\ nStep' = [r \in Registry |-> IF r \in ToSet(lClock[d]) THEN StepOf(norm) ELSE nStep[r]]
        /\ pc' = pc
    BY <1>4, <2>1 DEF SetDomainFrequency, IsAllowed
  <2>3. norm \in Nat /\ StepOf(norm) \in Nat
    <3>1. lDomain \in Seq(Domain) /\ WordMax \in Nat
      BY FrequencyConstants DEF StaticInv, StaticTypes
    <3>2. /\ Bf \in 1..WordMax
          /\ \A e \in ToSet(lDomain) : \A g \in normalizedFrequencies(e) : g \in 1..WordMax /\ Divides(g, Bf)
      BY <3>1, BfWorks
    <3>3. PICK b \in Nat \ {0} : b = Bf
      BY <3>1, <3>2
    <3>4. norm \in Nat \ {0} /\ Divides(norm, b)
      BY <2>2, <3>1, <3>2, <3>3
    <3>5. 0 \in 0..99
      OBVIOUS
    <3>6. (b \div norm) * 100 \in Nat
      BY <3>4, <3>5, StepWorks DEF PeriodFits
    <3> QED BY <3>3, <3>4, <3>6 DEF StepOf
  <2>4. StaticTypes'
    <3>1. currentFrequency' \in [Domain -> Nat] /\ nFrequency' \in [Registry -> Nat] /\ nStep' \in [Registry -> Nat]
      BY <2>2, <2>3 DEF StaticInv, StaticTypes
    <3>2. changed' \in BOOLEAN
      BY <1>1
    <3> QED BY <1>1, <3>1, <3>2 DEF StaticInv, StaticTypes
  <2>5. currentFrequency'[d] = norm /\ \A e \in Domain \ {d} : currentFrequency'[e] = currentFrequency[e]
    BY <2>2 DEF StaticInv, StaticTypes
  <2>6. ASSUME NEW r \in AllRegistries
        PROVE  /\ nFrequency'[r] = currentFrequency'[regDomain[r]]
               /\ nStep'[r] = StepOf(nFrequency'[r])
    <3>1. r \in Registry /\ regDomain[r] \in Domain /\ r \in ToSet(lClock[regDomain[r]])
      BY ClockServerConstants DEF AllRegistries
    <3>2. r \in ToSet(lClock[d]) => regDomain[r] = d
      BY DEF StaticInv, CreatedInv, ListsOfDomains
    <3>3. nFrequency[r] = currentFrequency[regDomain[r]] /\ nStep[r] = StepOf(nFrequency[r])
      BY <1>1 DEF StaticInv, CreatedInv, StartedInv
    <3> HIDE DEF StepOf
    <3>4. CASE r \in ToSet(lClock[d])
      BY <2>2, <2>5, <3>1, <3>2, <3>4
    <3>5. CASE r \notin ToSet(lClock[d])
      BY <2>2, <2>5, <3>1, <3>3, <3>5
    <3> QED BY <3>4, <3>5
  <2>7. CreatedInv'
    <3>1. \A e \in ToSet(lDomain') : currentFrequency'[e] \in normalizedFrequencies(e)
      <4>1. ASSUME NEW e \in ToSet(lDomain) PROVE e \in Domain
        BY <4>1 DEF StaticInv, StaticTypes, ToSet
      <4> QED BY <1>1, <2>2, <2>5, <4>1 DEF StaticInv, CreatedInv
    <3> QED BY <1>1, <1>2, <2>6, <3>1 DEF StaticInv, CreatedInv, ListsOfDomains, NoneTwice
  <2>8. StartedInv'
    <3>1. \A r \in AllRegistries' : nStep'[r] = StepOf(nFrequency[r])'
      BY <1>2, <2>6 DEF StepOf
    <3> QED BY <1>1, <1>2, <3>1 DEF StaticInv, StartedInv
  <2>9. LoopTypes' /\ ConfigInv' /\ PhaseInv'
    BY <1>1, <1>2, <2>2 DEF LoopTypes, ConfigInv, PhaseInv
  <2>10. Pending' = Pending /\ CurrentEvent' = CurrentEvent
    BY <1>1, <1>2, <2>2 DEF Pending, CurrentEvent
  <2>11. EventsInv'
    BY <1>1, <1>2, <2>2, <2>10 DEF EventsInv, Running, NoneTwice
  <2>12. PlaceInv'
    BY <1>1, <1>2, <2>2, <2>10 DEF PlaceInv, Clocking, CallsOf, NoneTwice
  <2>13. CallInv'
    <3>1. \A c : Called(c)' <=> Called(c)
      BY <1>1, <1>2, <2>2, <2>10 DEF Called, Clocking
    <3>2. Running /\ Running' /\ UNCHANGED <<calls, nCycle>>
      BY <1>1, <2>2 DEF Running
    <3> QED BY <1>2, <3>1, <3>2, CallsKept
  <2> QED BY <2>4, <2>7, <2>8, <2>9, <2>11, <2>12, <2>13 DEF StaticInv
<1> QED BY <1>3, <1>4

\* A step that changes nothing.
LEMMA StutterCore ==
    ASSUME CoreInv, UNCHANGED vars
    PROVE  CoreInv'
<1> USE DEF CoreInv
<1>1. /\ UNCHANGED <<pc, timeVars, loopVars, mayChange, internalBaseCycle, callVars>>
      /\ UNCHANGED staticVars
  BY DEF vars, staticVars, domainVars, listVars, stepVars, referenceVars, cbVars
<1>2. UNCHANGED <<restarts, RandomClocking, lDomain, currentFrequency, lClock, lModules, lrateWriter, lWriterRM,
                  nFrequency, nStep, referenceClockDomain, referenceClockRegitry, firstClockRegitry,
                  uniqueClockDomain, changed>>
  BY <1>1 DEF staticVars, domainVars, listVars, stepVars, referenceVars
<1>3. AllRegistries' = AllRegistries /\ UniqueLoop' = UniqueLoop /\ Bf' = Bf
  BY <1>2 DEF AllRegistries, UniqueLoop, Bf
<1> USE DEF timeVars, loopVars, callVars
<1>4. Pending' = Pending /\ CurrentEvent' = CurrentEvent
  BY <1>1, <1>3 DEF Pending, CurrentEvent
<1>5. StaticInv'
  BY <1>1, <1>2, <1>3 DEF StaticInv, StaticTypes, CreatedInv, ListsOfDomains, NoneTwice, StartedInv, StepOf
<1>6. LoopTypes' /\ ConfigInv' /\ PhaseInv'
  BY <1>1, <1>2, <1>3 DEF LoopTypes, ConfigInv, PhaseInv
<1>7. EventsInv' /\ PlaceInv'
  BY <1>1, <1>2, <1>3, <1>4 DEF EventsInv, PlaceInv, Running, Clocking, CallsOf, NoneTwice
<1>8. CallInv'
  <2>1. \A c : Called(c)' <=> Called(c)
    BY <1>1, <1>2, <1>3, <1>4 DEF Called, Clocking
  <2> QED BY <1>1, <1>3, <2>1, CallsKept DEF CallInv, Running
<1> QED BY <1>5, <1>6, <1>7, <1>8

\* No step of the server breaks it.
LEMMA CoreInductive ==
    ASSUME CoreInv, [Next]_vars
    PROVE  CoreInv'
<1>1. CASE UNCHANGED vars
  BY <1>1, StutterCore
<1>2. ASSUME NEW on \in BOOLEAN, SetRandomClockingSeed(on) PROVE CoreInv'
  BY <1>2, SetRandomClockingSeedCore
<1>3. ASSUME NEW d \in Domain, NewClockDomain(d) \/ SetReferenceClockDomain(d) PROVE CoreInv'
  BY <1>3, NewClockDomainCore, SetReferenceClockDomainCore
<1>4. ASSUME NEW c \in Callback, RegisterClock(c) \/ RegisterRateMatcherWriter(c) PROVE CoreInv'
  BY <1>4, RegisterClockCore, RegisterRateMatcherWriterCore
<1>5. CASE InitClockServer \/ UnregisterAll
  BY <1>5, InitClockServerCore, UnregisterAllCore
<1>6. CASE ClockLoop
  BY <1>6, ClockBeginCore, NextEventCore, BeginWritersCore, ReaddEventCore DEF ClockLoop
<1>7. CASE UniqueDomainClock
  BY <1>7, UniqueBeginCore, UniqueWritersCore, UniqueAdvanceCore DEF UniqueDomainClock
<1>8. ASSUME NEW i \in DOMAIN toCall, RunCallback(i) PROVE CoreInv'
  BY <1>8, RunCallbackCore
<1>9. ASSUME NEW d \in Domain, NEW f \in ToSet(Freqs[d]), SetDomainFrequency(d, f) PROVE CoreInv'
  BY <1>9, SetDomainFrequencyCore
<1>10. CASE Finished
  BY <1>1, <1>10 DEF Finished
<1> QED BY <1>1, <1>2, <1>3, <1>4, <1>5, <1>6, <1>7, <1>8, <1>9, <1>10 DEF Next, Configure

-----------------------------------------------------------------------------
(* The loops keep the invariant: the order of the events *)

Ordered == SingleInv /\ BoundInv /\ SpreadInv /\ ExactInv /\ SortedInv /\ TurnInv

\* Bounds of the times.
LEMMA TimeBounds ==
    ASSUME CoreInv, pc # "config"
    PROVE  \E k \in Nat \ {0} :
              /\ k = 100 * Bf /\ 100 * Bf * MaxCycle = k * MaxCycle /\ Never = k * (MaxCycle + 2)
              /\ k * MaxCycle \in Nat /\ k * (MaxCycle + 2) = k * MaxCycle + 2 * k
              /\ \A r \in AllRegistries : r \in Registry /\ nStep[r] \in 100..k
              /\ BoundInv => \A r \in AllRegistries :
                                nCycle[r] < MaxCycle => nBaseCycle[r] < k * MaxCycle
<1>1. /\ Bf \in Nat /\ Bf >= 1
      /\ \A r \in AllRegistries :
            r \in Registry /\ nStep[r] \in Nat /\ nStep[r] >= 100 /\ nStep[r] <= 100 * Bf
  BY StepsFit DEF CoreInv
<1>2. PICK k \in Nat \ {0} : k = 100 * Bf
  BY <1>1
<1>3. MaxCycle \in Nat
  BY ClockServerConstants
<1>4. k * MaxCycle \in Nat /\ k * (MaxCycle + 2) = k * MaxCycle + 2 * k
  BY <1>3
<1>5. ASSUME BoundInv, NEW r \in AllRegistries, nCycle[r] < MaxCycle
      PROVE  nBaseCycle[r] < k * MaxCycle
  <2>1. nBaseCycle[r] < k * (nCycle[r] + 1)
    BY <1>2, <1>5 DEF BoundInv
  <2>2. nCycle[r] \in Nat /\ nBaseCycle[r] \in Nat
    BY <1>1, <1>5 DEF CoreInv, LoopTypes
  <2>3. PICK m \in Nat : MaxCycle = (nCycle[r] + 1) + m
    <3>1. MaxCycle - (nCycle[r] + 1) \in Nat
      BY <1>3, <1>5, <2>2
    <3>2. MaxCycle = (nCycle[r] + 1) + (MaxCycle - (nCycle[r] + 1))
      BY <1>3, <2>2
    <3> QED BY <3>1, <3>2
  <2>4. k * MaxCycle = k * (nCycle[r] + 1) + k * m /\ k * m \in Nat /\ k * (nCycle[r] + 1) \in Nat
    BY <2>2, <2>3
  <2> QED BY <2>1, <2>2, <2>4
<1> QED BY <1>1, <1>2, <1>3, <1>4, <1>5 DEF Never

\* The order stays while no time changes.
LEMMA OrderKept ==
    ASSUME CoreInv, OrderInv, Running, Running', UNCHANGED staticVars, UNCHANGED <<nBaseCycle, nCycle>>,
           Done' = Done, Ordered => SortedInv' /\ TurnInv'
    PROVE  OrderInv'
<1> SUFFICES ASSUME Trusted' PROVE Ordered'
  BY DEF OrderInv, Ordered
<1>1. Trusted
  BY DEF Trusted, staticVars
<1>2. Ordered
  BY <1>1 DEF OrderInv, Ordered
<1>3. pc # "config" /\ pc' # "config" /\ StaticInv
  BY DEF Running, CoreInv
<1>4. AllRegistries' = AllRegistries /\ Bf' = Bf /\ Never' = Never
  BY <1>3, StaticKept
<1>5. nStep' = nStep /\ nFrequency' = nFrequency /\ changed' = changed /\ uniqueClockDomain' = uniqueClockDomain
  BY DEF staticVars, stepVars
<1>6. SingleInv' /\ BoundInv' /\ ExactInv'
  BY <1>2, <1>4, <1>5 DEF Ordered, SingleInv, BoundInv, ExactInv
<1>7. \A r : Since(r)' = Since(r)
  BY <1>5 DEF Since
<1>8. SpreadInv'
  BY <1>2, <1>4, <1>5, <1>7 DEF Ordered, SpreadInv
<1> QED BY <1>2, <1>6, <1>8 DEF Ordered

\* Nothing is due before the first event of the list.
LEMMA FirstIsEarliest ==
    ASSUME NEW base \in [Registry -> Nat], NEW s \in Seq(Registry), s # <<>>, Sorted(s, base)
    PROVE  /\ Sorted(Tail(s), base) /\ Head(s) \in ToSet(s) /\ Head(s) \in Registry
           /\ \A r \in ToSet(s) : base[Head(s)] <= base[r]
<1>1. PICK n \in Nat : n = Len(s) /\ DOMAIN s = 1..n /\ n >= 1
  OBVIOUS
<1>2. Head(s) = s[1] /\ s[1] \in Registry /\ 1 \in DOMAIN s
  BY <1>1
<1>3. \A r \in ToSet(s) : base[s[1]] <= base[r]
  <2>1. ASSUME NEW i \in 1..n PROVE base[s[1]] <= base[s[i]]
    <3>1. CASE i = 1
      BY <1>2, <3>1
    <3>2. CASE i # 1
      BY <1>1, <1>2, <3>2 DEF Sorted
    <3> QED BY <3>1, <3>2
  <2> QED BY <1>1, <2>1 DEF ToSet
<1>4. Sorted(Tail(s), base)
  <2>1. PICK t : t = Tail(s)
    OBVIOUS
  <2>2. DOMAIN t = 1..n - 1 /\ \A i \in 1..n - 1 : t[i] = s[i + 1]
    BY <1>1, <2>1
  <2>3. ASSUME NEW i \in DOMAIN t, NEW j \in DOMAIN t, i < j PROVE base[t[i]] <= base[t[j]]
    <3>1. i + 1 \in DOMAIN s /\ j + 1 \in DOMAIN s /\ i + 1 < j + 1 /\ t[i] = s[i + 1] /\ t[j] = s[j + 1]
      BY <1>1, <2>2, <2>3
    <3> QED BY <3>1 DEF Sorted
  <2> QED BY <2>1, <2>3 DEF Sorted
<1> QED BY <1>1, <1>2, <1>3, <1>4 DEF ToSet

\* A call of Clock() begins with the earliest event.
LEMMA ClockBeginOrder ==
    ASSUME CoreInv, OrderInv, ClockBegin
    PROVE  OrderInv'
<1>1. /\ pc = "idle" /\ pc' = "modules" /\ ~UniqueLoop /\ lTimeEvents # <<>> /\ PopEvent(<<>>)
      /\ currentBaseCycle' = nBaseCycle[Head(lTimeEvents)] /\ nCycle[Head(lTimeEvents)] < MaxCycle
      /\ UNCHANGED <<nBaseCycle, nCycle>>
  BY DEF ClockBegin, timeVars
<1>2. UNCHANGED staticVars
  BY DEF ClockBegin, staticVars, domainVars, listVars, stepVars, referenceVars, cbVars
<1>3. AllRegistries' = AllRegistries /\ UniqueLoop' = UniqueLoop /\ Bf' = Bf
  BY <1>1, <1>2, StaticKept DEF CoreInv
<1>4. Done = {} /\ Done' = {}
  BY <1>1, <1>3 DEF Done, Advanced
<1>5. Running /\ Running'
  BY <1>1 DEF Running
<1>6. lTimeEvents \in Seq(Registry) /\ nBaseCycle \in [Registry -> Nat] /\ ToSet(lTimeEvents) = AllRegistries
  BY <1>1, <1>5, InList DEF CoreInv, LoopTypes
<1>7. ASSUME Ordered PROVE SortedInv' /\ TurnInv'
  <2>1. PICK h, t : h = Head(lTimeEvents) /\ t = Tail(lTimeEvents)
    OBVIOUS
  <2>2. Sorted(lTimeEvents, nBaseCycle)
    BY <1>1, <1>7 DEF Ordered, SortedInv
  <2>3. Sorted(t, nBaseCycle) /\ h \in AllRegistries /\ h \in Registry /\ \A r \in AllRegistries : nBaseCycle[h] <= nBaseCycle[r]
    BY <1>1, <1>6, <2>1, <2>2, FirstIsEarliest
  <2>4. lTimeEvents' = t /\ lClockedEvents' = Append(<<>>, h)
    BY <1>1, <2>1 DEF PopEvent
  <2>5. ToSet(lClockedEvents') = {h}
    <3>1. <<>> \in Seq(Registry) /\ ToSet(<<>>) = {}
      BY DEF ToSet
    <3>2. PICK e : e = <<>>
      OBVIOUS
    <3>3. ToSet(Append(e, h)) = ToSet(e) \cup {h}
      <4>1. e \in Seq(Registry) /\ h \in Registry
        BY <2>3, <3>1, <3>2
      <4> QED BY <4>1, Appended
    <3> QED BY <2>4, <3>1, <3>2, <3>3
  <2>6. ToSet(t) \subseteq AllRegistries
    BY <1>1, <1>6, <2>1, Popped
  <2>7. SortedInv'
    BY <1>1, <1>3, <2>3, <2>4 DEF SortedInv, Sorted
  <2>8. \A r : Since(r)' = nBaseCycle[r]
    BY <1>1, <1>4 DEF Since
  <2>9. currentBaseCycle' < 100 * Bf * MaxCycle
    BY <1>1, <1>7, <2>1, <2>3, TimeBounds DEF Ordered
  <2>10. TurnInv'
    <3>1. \A r \in ToSet(lTimeEvents') : nBaseCycle[r] >= currentBaseCycle'
      <4>1. \A r \in AllRegistries : nBaseCycle[r] \in Nat
        BY <1>6 DEF AllRegistries
      <4> QED BY <1>1, <2>1, <2>3, <2>4, <2>6, <4>1
    <3>2. \A r \in ToSet(lClockedEvents') : Since(r)' = currentBaseCycle'
      BY <1>1, <2>1, <2>5, <2>8
    <3> QED BY <1>1, <1>3, <2>9, <3>1, <3>2 DEF TurnInv
  <2> QED BY <2>7, <2>10
<1> QED BY <1>1, <1>2, <1>4, <1>5, <1>7, OrderKept

\* Clock() goes on to the next event.
LEMMA NextEventOrder ==
    ASSUME CoreInv, OrderInv, NextEvent
    PROVE  OrderInv'
<1>1. /\ pc = "modules" /\ pc' = "modules" /\ ~UniqueLoop /\ lTimeEvents # <<>> /\ PopEvent(lClockedEvents)
      /\ nBaseCycle[Head(lTimeEvents)] = currentBaseCycle
      /\ UNCHANGED <<nBaseCycle, nCycle, currentBaseCycle>>
  BY DEF NextEvent, timeVars, MoreDue
<1>2. UNCHANGED staticVars
  BY DEF NextEvent, staticVars, domainVars, listVars, stepVars, referenceVars, cbVars
<1>3. AllRegistries' = AllRegistries /\ UniqueLoop' = UniqueLoop /\ Bf' = Bf
  BY <1>1, <1>2, StaticKept DEF CoreInv
<1>4. Done = {} /\ Done' = {}
  BY <1>1, <1>3 DEF Done, Advanced
<1>5. Running /\ Running' /\ Clocking
  BY <1>1 DEF Running, Clocking
<1>6. lTimeEvents \in Seq(Registry) /\ nBaseCycle \in [Registry -> Nat] /\ lClockedEvents \in Seq(Registry)
  BY DEF CoreInv, LoopTypes
<1>7. ASSUME Ordered PROVE SortedInv' /\ TurnInv'
  <2>1. PICK h, t : h = Head(lTimeEvents) /\ t = Tail(lTimeEvents)
    OBVIOUS
  <2>2. Sorted(lTimeEvents, nBaseCycle)
    BY <1>1, <1>7 DEF Ordered, SortedInv
  <2>3. Sorted(t, nBaseCycle) /\ h \in Registry
    BY <1>1, <1>6, <2>1, <2>2, FirstIsEarliest
  <2>4. lTimeEvents' = t /\ lClockedEvents' = Append(lClockedEvents, h)
    BY <1>1, <2>1 DEF PopEvent
  <2>5. ToSet(lClockedEvents') = ToSet(lClockedEvents) \cup {h}
    BY <1>6, <2>3, <2>4, Appended
  <2>6. ToSet(t) \subseteq ToSet(lTimeEvents)
    BY <1>1, <1>6, <2>1, Popped
  <2>7. SortedInv'
    BY <1>1, <1>3, <2>3, <2>4 DEF SortedInv, Sorted
  <2>8. \A r : Since(r)' = nBaseCycle[r] /\ Since(r) = nBaseCycle[r]
    BY <1>1, <1>4 DEF Since
  <2>9. /\ \A r \in ToSet(lClockedEvents) : Since(r) = currentBaseCycle
        /\ \A r \in ToSet(lTimeEvents) : nBaseCycle[r] >= currentBaseCycle
        /\ currentBaseCycle < 100 * Bf * MaxCycle
    BY <1>1, <1>5, <1>7 DEF Ordered, TurnInv
  <2>10. TurnInv'
    <3>1. \A r \in ToSet(lTimeEvents') : nBaseCycle'[r] >= currentBaseCycle'
      BY <1>1, <2>4, <2>6, <2>9
    <3>2. \A r \in ToSet(lClockedEvents') : Since(r)' = currentBaseCycle'
      BY <1>1, <2>1, <2>5, <2>8, <2>9
    <3> QED BY <1>1, <1>3, <2>9, <3>1, <3>2 DEF TurnInv
  <2> QED BY <2>7, <2>10
<1> QED BY <1>1, <1>2, <1>4, <1>5, <1>7, OrderKept

\* The registries that are still in the list are due later.
LEMMA BeginWritersOrder ==
    ASSUME CoreInv, OrderInv, BeginWriters
    PROVE  OrderInv'
<1>1. /\ pc = "modules" /\ pc' = "writers" /\ ~UniqueLoop /\ it' = 1 /\ ~MoreDue
      /\ UNCHANGED <<nBaseCycle, nCycle, currentBaseCycle, lTimeEvents, lClockedEvents>>
  BY DEF BeginWriters, timeVars
<1>2. UNCHANGED staticVars
  BY DEF BeginWriters, staticVars, domainVars, listVars, stepVars, referenceVars, cbVars
<1>3. AllRegistries' = AllRegistries /\ UniqueLoop' = UniqueLoop /\ Bf' = Bf
  BY <1>1, <1>2, StaticKept DEF CoreInv
<1>4. Done = {} /\ Done' = {}
  BY <1>1, <1>3 DEF Done, Advanced
<1>5. Running /\ Running' /\ Clocking
  BY <1>1 DEF Running, Clocking
<1>6. lTimeEvents \in Seq(Registry) /\ nBaseCycle \in [Registry -> Nat] /\ currentBaseCycle \in Nat
  BY DEF CoreInv, LoopTypes
<1>7. ASSUME Ordered PROVE SortedInv' /\ TurnInv'
  <2>1. Sorted(lTimeEvents, nBaseCycle)
    BY <1>1, <1>7 DEF Ordered, SortedInv
  <2>2. SortedInv'
    BY <1>1, <1>3, <2>1 DEF SortedInv, Sorted
  <2>3. \A r : Since(r)' = nBaseCycle[r] /\ Since(r) = nBaseCycle[r]
    BY <1>1, <1>4 DEF Since
  <2>4. /\ \A r \in ToSet(lClockedEvents) : Since(r) = currentBaseCycle
        /\ \A r \in ToSet(lTimeEvents) : nBaseCycle[r] >= currentBaseCycle
        /\ currentBaseCycle < 100 * Bf * MaxCycle
    BY <1>1, <1>5, <1>7 DEF Ordered, TurnInv
  <2>5. ASSUME NEW r \in ToSet(lTimeEvents) PROVE nBaseCycle[r] > currentBaseCycle
    <3>1. lTimeEvents # <<>>
      BY <2>5 DEF ToSet
    <3>2. PICK h : h = Head(lTimeEvents)
      OBVIOUS
    <3>3. h \in ToSet(lTimeEvents) /\ h \in Registry /\ nBaseCycle[h] <= nBaseCycle[r]
      BY <1>6, <2>1, <2>5, <3>1, <3>2, FirstIsEarliest
    <3>4. nBaseCycle[h] # currentBaseCycle
      BY <1>1, <3>1, <3>2 DEF MoreDue
    <3>5. r \in Registry
      BY <1>6, <2>5 DEF ToSet
    <3> QED BY <1>6, <2>4, <3>3, <3>4, <3>5
  <2>6. TurnInv'
    <3>1. \A r \in ToSet(lTimeEvents') : nBaseCycle'[r] >= currentBaseCycle' /\ nBaseCycle'[r] > currentBaseCycle'
      BY <1>1, <2>4, <2>5
    <3>2. \A r \in ToSet(lClockedEvents') : Since(r)' = currentBaseCycle'
      BY <1>1, <2>3, <2>4
    <3> QED BY <1>1, <1>3, <2>4, <3>1, <3>2 DEF TurnInv
  <2> QED BY <2>2, <2>6
<1> QED BY <1>1, <1>2, <1>4, <1>5, <1>7, OrderKept

\* What a registry that completes its cycle keeps.
LEMMA AdvanceOrder ==
    ASSUME CoreInv, Ordered, pc # "config", pc' # "config", UNCHANGED staticVars, NEW r \in AllRegistries,
           Advance(r), nBaseCycle[r] + nStep[r] < Never
    PROVE  SingleInv' /\ BoundInv' /\ ExactInv'
<1>1. AllRegistries' = AllRegistries /\ Bf' = Bf /\ Never' = Never
  BY StaticKept DEF CoreInv
<1>2. nStep' = nStep /\ nFrequency' = nFrequency /\ changed' = changed /\ uniqueClockDomain' = uniqueClockDomain
  BY DEF staticVars, stepVars
<1>3. r \in Registry /\ \A q \in AllRegistries : q \in Registry
  BY DEF AllRegistries
<1>4. /\ nBaseCycle'[r] = nBaseCycle[r] + nStep[r] /\ nCycle'[r] = nCycle[r] + 1
      /\ nBaseCycle[r] \in Nat /\ nStep[r] \in Nat /\ nCycle[r] \in Nat
      /\ \A s \in Registry \ {r} : nBaseCycle'[s] = nBaseCycle[s] /\ nCycle'[s] = nCycle[s]
  BY <1>3, Advances DEF CoreInv, StaticInv
<1>5. PICK b \in Nat \ {0} : /\ b = Bf /\ nStep[r] <= 100 * b
                             /\ nFrequency[r] \in Nat /\ nStep[r] * nFrequency[r] = 100 * b
  BY StepsFit DEF CoreInv
<1>6. BoundInv'
  <2>1. nBaseCycle[r] < 100 * b * (nCycle[r] + 1)
    BY <1>5 DEF Ordered, BoundInv
  <2>2. 100 * b * (nCycle[r] + 1 + 1) = 100 * b * (nCycle[r] + 1) + 100 * b
    BY <1>4
  <2>3. nBaseCycle[r] + nStep[r] < 100 * b * (nCycle[r] + 1 + 1)
    <3>1. PICK m \in Nat : m = 100 * b * (nCycle[r] + 1)
      BY <1>4
    <3> QED BY <1>4, <1>5, <2>1, <2>2, <3>1
  <2>4. ASSUME NEW q \in AllRegistries
        PROVE  nBaseCycle'[q] < 100 * b * (nCycle'[q] + 1) /\ nBaseCycle'[q] < Never
    <3>1. CASE q = r
      BY <1>4, <2>3, <3>1
    <3>2. CASE q # r
      BY <1>3, <1>4, <1>5, <3>2 DEF Ordered, BoundInv
    <3> QED BY <3>1, <3>2
  <2> QED BY <1>1, <1>5, <2>4 DEF BoundInv
<1>7. ExactInv'
  <2> SUFFICES ASSUME ~changed, NEW q \in AllRegistries
               PROVE  nBaseCycle'[q] * nFrequency[q] = (100 * nCycle'[q] + nSkew[q]) * b
    BY <1>1, <1>2, <1>5 DEF ExactInv
  <2>1. nBaseCycle[q] * nFrequency[q] = (100 * nCycle[q] + nSkew[q]) * b
    BY <1>5 DEF Ordered, ExactInv
  <2>2. CASE q # r
    BY <1>3, <1>4, <2>1, <2>2
  <2>3. CASE q = r
    <3>1. nSkew[r] \in Nat
      <4>1. nSkew[r] \in 0..99
        BY <1>3, ClockServerConstants
      <4> QED BY <4>1
    <3>2. (nBaseCycle[r] + nStep[r]) * nFrequency[r] = nBaseCycle[r] * nFrequency[r] + nStep[r] * nFrequency[r]
      BY <1>4, <1>5
    <3>3. (100 * (nCycle[r] + 1) + nSkew[r]) * b = (100 * nCycle[r] + nSkew[r]) * b + 100 * b
      BY <1>4, <3>1
    <3>4. nBaseCycle'[q] = nBaseCycle[r] + nStep[r] /\ nCycle'[q] = nCycle[r] + 1
      BY <1>4, <2>3
    <3> QED BY <1>5, <2>1, <2>3, <3>2, <3>3, <3>4
  <2> QED BY <2>2, <2>3
<1>8. SingleInv'
  BY <1>1, <1>2 DEF Ordered, SingleInv
<1> QED BY <1>6, <1>7, <1>8

\* A clocked registry completes its cycle: it will be due later than those that are clocked now.
LEMMA ReaddEventOrder ==
    ASSUME CoreInv, OrderInv, ReaddEvent
    PROVE  OrderInv'
<1>1. PICK r : r = lClockedEvents[it]
  OBVIOUS
<1>2. /\ pc = "writers" /\ ~UniqueLoop /\ Advance(r)
      /\ lTimeEvents' = AddTimeEvent(lTimeEvents, nBaseCycle', r)
      /\ UNCHANGED currentBaseCycle
  BY <1>1 DEF ReaddEvent
<1>3. UNCHANGED staticVars
  BY DEF ReaddEvent, staticVars, domainVars, listVars, stepVars, referenceVars, cbVars
<1>4. pc # "config" /\ pc' # "config" /\ pc' \in {"idle", "writers"}
  BY <1>2 DEF ReaddEvent
<1>5. /\ AllRegistries' = AllRegistries /\ UniqueLoop' = UniqueLoop /\ Bf' = Bf
      /\ nStep' = nStep /\ changed' = changed
  BY <1>3, <1>4, StaticKept DEF CoreInv, staticVars, stepVars
<1>6. Clocking /\ Running
  BY <1>2 DEF Clocking, Running
<1>7. PICK n \in Nat : n = Len(lClockedEvents) /\ DOMAIN lClockedEvents = 1..n
  BY DEF CoreInv, LoopTypes
<1>8. /\ ToSet(lTimeEvents) = AllRegistries \ ToSet(Pending) /\ it \in 1..n
      /\ r \in AllRegistries /\ r \in ToSet(Pending)
      /\ Advanced \cap ToSet(Pending) = {} /\ Advanced \cup ToSet(Pending) = ToSet(lClockedEvents)
      /\ Advanced = {lClockedEvents[i] : i \in 1..it - 1}
      /\ ToSet(Pending) = {lClockedEvents[i] : i \in it..n}
  BY <1>1, <1>2, <1>6, <1>7, Shares DEF CoreInv, EventsInv, PlaceInv
<1>9. r \in Registry /\ \A q \in AllRegistries : q \in Registry
  BY <1>8 DEF AllRegistries
<1>10. /\ nBaseCycle' \in [Registry -> Nat] /\ nBaseCycle \in [Registry -> Nat] /\ nStep \in [Registry -> Nat]
       /\ nBaseCycle'[r] = nBaseCycle[r] + nStep[r]
       /\ \A s \in Registry \ {r} : nBaseCycle'[s] = nBaseCycle[s]
       /\ lTimeEvents \in Seq(Registry) /\ currentBaseCycle \in Nat
  BY <1>2, <1>9, Advances DEF CoreInv, StaticInv, StaticTypes, LoopTypes
<1>11. PICK k \in Nat \ {0} :
         /\ 100 * Bf * MaxCycle = k * MaxCycle /\ Never = k * (MaxCycle + 2)
         /\ k * MaxCycle \in Nat /\ k * (MaxCycle + 2) = k * MaxCycle + 2 * k
         /\ \A q \in AllRegistries : nStep[q] \in 100..k
  BY <1>4, TimeBounds
<1> SUFFICES ASSUME Trusted' PROVE Ordered'
  BY DEF OrderInv, Ordered
<1>12. Ordered
  <2>1. Trusted
    BY <1>5, <1>6 DEF Trusted
  <2> QED BY <2>1 DEF OrderInv, Ordered
<1>13. /\ \A q \in ToSet(lClockedEvents) : Since(q) = currentBaseCycle
       /\ \A q \in ToSet(lTimeEvents) : nBaseCycle[q] > currentBaseCycle
       /\ currentBaseCycle < k * MaxCycle
       /\ Sorted(lTimeEvents, nBaseCycle)
  BY <1>2, <1>6, <1>11, <1>12 DEF Ordered, TurnInv, SortedInv
<1>14. /\ \A q \in AllRegistries \ Advanced : Since(q) = nBaseCycle[q]
       /\ \A q \in Advanced : Since(q) = nBaseCycle[q] - nStep[q]
  BY <1>2 DEF Since, Done
<1>15. nBaseCycle[r] = currentBaseCycle
  BY <1>8, <1>13, <1>14
<1>16. SingleInv' /\ BoundInv' /\ ExactInv'
  <2>1. nBaseCycle[r] + nStep[r] < Never
    BY <1>8, <1>10, <1>11, <1>13, <1>15
  <2> QED BY <1>2, <1>3, <1>4, <1>8, <1>12, <2>1, AdvanceOrder
<1>17. SortedInv' /\ ToSet(lTimeEvents') = ToSet(lTimeEvents) \cup {r}
  <2>1. Sorted(lTimeEvents, nBaseCycle')
    <3>1. \A i \in DOMAIN lTimeEvents : lTimeEvents[i] \in Registry \ {r}
      BY <1>8, <1>9 DEF ToSet
    <3> QED BY <1>10, <1>13, <3>1 DEF Sorted
  <2>2. PICK base, events : base = nBaseCycle' /\ events = lTimeEvents'
    OBVIOUS
  <2>3. Sorted(events, base) /\ ToSet(events) = ToSet(lTimeEvents) \cup {r}
    BY <1>2, <1>9, <1>10, <2>1, <2>2, TimeEventAdded
  <2> QED BY <1>2, <1>5, <2>2, <2>3 DEF SortedInv, Sorted
<1>18. CASE it < n
  <2>1. pc' = "writers" /\ it' = it + 1 /\ UNCHANGED lClockedEvents
    BY <1>2, <1>7, <1>18 DEF ReaddEvent
  <2>2. Done' = Advanced \cup {r}
    <3>1. Done' = {lClockedEvents[i] : i \in 1..it}
      BY <1>2, <1>5, <1>8, <2>1 DEF Done, Advanced
    <3>2. \A i : i \in 1..it <=> i \in 1..it - 1 \/ i = it
      BY <1>8
    <3> QED BY <1>1, <1>8, <3>1, <3>2
  <2>3. ASSUME NEW q \in AllRegistries PROVE Since(q)' = Since(q)
    <3>1. CASE q = r
      <4>1. (nBaseCycle[r] + nStep[r]) - nStep[r] = nBaseCycle[r]
        BY <1>9, <1>10
      <4> QED BY <1>5, <1>8, <1>10, <1>14, <2>2, <3>1, <4>1 DEF Since
    <3>2. CASE q # r
      BY <1>2, <1>5, <1>9, <1>10, <2>2, <3>2 DEF Since, Done
    <3> QED BY <3>1, <3>2
  <2>4. SpreadInv'
    BY <1>5, <1>12, <2>3 DEF Ordered, SpreadInv
  <2>5. TurnInv'
    <3>1. \A q \in ToSet(lClockedEvents') : Since(q)' = currentBaseCycle'
      <4>1. ToSet(lClockedEvents) \subseteq AllRegistries
        BY <1>6 DEF CoreInv, EventsInv
      <4> QED BY <1>2, <1>13, <2>1, <2>3, <4>1
    <3>2. ASSUME NEW q \in ToSet(lTimeEvents') PROVE nBaseCycle'[q] > currentBaseCycle' /\ nBaseCycle'[q] >= currentBaseCycle'
      <4>1. q \in Registry
        BY <1>8, <1>9, <1>17
      <4>2. CASE q = r
        <5>1. nStep[r] >= 100
          BY <1>8, <1>11
        <5> QED BY <1>2, <1>9, <1>10, <1>15, <4>2, <5>1
      <4>3. CASE q # r
        <5>1. nBaseCycle'[q] = nBaseCycle[q] /\ nBaseCycle[q] > currentBaseCycle
          BY <1>10, <1>13, <1>17, <4>1, <4>3
        <5> QED BY <1>2, <1>10, <4>1, <5>1
      <4> QED BY <4>2, <4>3
    <3>3. currentBaseCycle' < 100 * Bf' * MaxCycle
      BY <1>2, <1>5, <1>11, <1>13
    <3> QED BY <1>2, <1>5, <3>1, <3>2, <3>3 DEF TurnInv
  <2> QED BY <1>16, <1>17, <2>4, <2>5 DEF Ordered
<1>19. CASE it = n
  <2>1. pc' = "idle"
    BY <1>2, <1>7, <1>19 DEF ReaddEvent
  <2>2. Done' = {} /\ \A q : Since(q)' = nBaseCycle'[q]
    BY <1>2, <1>5, <2>1 DEF Done, Advanced, Since
  <2>3. ToSet(Pending) = {r}
    BY <1>1, <1>8, <1>19
  <2>4. ASSUME NEW q \in AllRegistries
        PROVE  IF q \in ToSet(lClockedEvents) THEN nBaseCycle'[q] = currentBaseCycle + nStep[q]
               ELSE nBaseCycle'[q] = Since(q) /\ nBaseCycle'[q] > currentBaseCycle
    <3>1. q \in Registry /\ nBaseCycle[q] \in Nat /\ nStep[q] \in Nat
      BY <1>9, <1>10
    <3>2. CASE q = r
      BY <1>8, <1>10, <1>15, <3>2
    <3>3. CASE q \in Advanced
      <4>1. q # r /\ q \in ToSet(lClockedEvents)
        BY <1>8, <3>3
      <4>2. nBaseCycle[q] - nStep[q] = currentBaseCycle
        BY <1>13, <1>14, <3>3, <4>1
      <4> QED BY <1>10, <3>1, <4>1, <4>2
    <3>4. CASE q # r /\ q \notin Advanced
      BY <1>8, <1>10, <1>13, <1>14, <2>3, <3>1, <3>4
    <3> QED BY <3>2, <3>3, <3>4
  <2>5. SpreadInv'
    <3> SUFFICES ASSUME ~changed, NEW p \in AllRegistries, NEW q \in AllRegistries
                 PROVE  nBaseCycle'[p] - nStep[p] < nBaseCycle'[q]
      BY <1>5, <2>2 DEF SpreadInv
    <3>1. /\ nStep[p] \in Nat /\ nStep[q] \in Nat /\ nStep[p] >= 100 /\ nStep[q] >= 100
          /\ nBaseCycle'[p] \in Nat /\ nBaseCycle'[q] \in Nat /\ currentBaseCycle \in Nat
      BY <1>9, <1>10, <1>11
    <3>2. CASE p \in ToSet(lClockedEvents)
      <4>1. nBaseCycle'[p] = currentBaseCycle + nStep[p]
        BY <2>4, <3>2
      <4>2. nBaseCycle'[q] > currentBaseCycle
        <5>1. CASE q \in ToSet(lClockedEvents)
          <6>1. nBaseCycle'[q] = currentBaseCycle + nStep[q]
            BY <2>4, <5>1
          <6> QED BY <3>1, <6>1
        <5>2. CASE q \notin ToSet(lClockedEvents)
          BY <2>4, <5>2
        <5> QED BY <5>1, <5>2
      <4> QED BY <3>1, <4>1, <4>2
    <3>3. CASE p \notin ToSet(lClockedEvents)
      <4>1. nBaseCycle'[p] = Since(p)
        BY <2>4, <3>3
      <4>2. Since(p) - nStep[p] < Since(q)
        BY <1>12 DEF Ordered, SpreadInv
      <4>3. CASE q \in ToSet(lClockedEvents)
        <5>1. nBaseCycle'[q] = currentBaseCycle + nStep[q] /\ Since(q) = currentBaseCycle
          BY <1>13, <2>4, <4>3
        <5> QED BY <3>1, <4>1, <4>2, <5>1
      <4>4. CASE q \notin ToSet(lClockedEvents)
        <5>1. nBaseCycle'[q] = Since(q)
          BY <2>4, <4>4
        <5> QED BY <4>1, <4>2, <5>1
      <4> QED BY <4>3, <4>4
    <3> QED BY <3>2, <3>3
  <2>6. TurnInv'
    BY <2>1 DEF TurnInv, Clocking
  <2> QED BY <1>16, <1>17, <2>5, <2>6 DEF Ordered
<1> QED BY <1>8, <1>18, <1>19

\* A call of UniqueDomainClock() begins with the first registry.
LEMMA UniqueBeginOrder ==
    ASSUME CoreInv, OrderInv, UniqueBegin
    PROVE  OrderInv'
<1>1. /\ pc = "idle" /\ pc' = "modules" /\ UniqueLoop /\ lTimeEvents # <<>> /\ it' = 1
      /\ nCycle[Head(lTimeEvents)] < MaxCycle
      /\ UNCHANGED <<nBaseCycle, nCycle, lTimeEvents>>
  BY DEF UniqueBegin, timeVars
<1>2. UNCHANGED staticVars
  BY DEF UniqueBegin, staticVars, domainVars, listVars, stepVars, referenceVars, cbVars
<1>3. AllRegistries' = AllRegistries /\ UniqueLoop' = UniqueLoop /\ Bf' = Bf
  BY <1>1, <1>2, StaticKept DEF CoreInv
<1>4. Done = {} /\ Done' = {}
  BY <1>1, <1>3 DEF Done, Clocking
<1>5. Running /\ Running'
  BY <1>1 DEF Running
<1>6. lTimeEvents \in Seq(Registry) /\ ToSet(lTimeEvents) = AllRegistries
  BY <1>1, <1>5, InList DEF CoreInv, LoopTypes
<1>7. ASSUME Ordered PROVE SortedInv' /\ TurnInv'
  <2>1. \A r : Since(r)' = nBaseCycle[r] /\ Since(r) = nBaseCycle[r]
    BY <1>1, <1>4 DEF Since
  <2>2. PICK h : h = Head(lTimeEvents)
    OBVIOUS
  <2>3. h = lTimeEvents[1] /\ h \in AllRegistries
    <3>1. h = lTimeEvents[1] /\ 1 \in DOMAIN lTimeEvents
      BY <1>1, <1>6, <2>2, Popped
    <3> QED BY <1>6, <3>1 DEF ToSet
  <2>4. nBaseCycle[h] < 100 * Bf * MaxCycle
    BY <1>1, <1>7, <2>2, <2>3, TimeBounds DEF Ordered
  <2>5. SortedInv'
    BY <1>1, <1>3, <1>7, <2>1 DEF Ordered, SortedInv
  <2>6. TurnInv'
    BY <1>1, <1>3, <2>1, <2>3, <2>4 DEF TurnInv
  <2> QED BY <2>5, <2>6
<1> QED BY <1>1, <1>2, <1>4, <1>5, <1>7, OrderKept

\* The writers of a registry do not change its place.
LEMMA UniqueWritersOrder ==
    ASSUME CoreInv, OrderInv, UniqueWriters
    PROVE  OrderInv'
<1>1. /\ pc = "modules" /\ pc' = "writers" /\ UniqueLoop
      /\ UNCHANGED <<nBaseCycle, nCycle, lTimeEvents, it>>
  BY DEF UniqueWriters, timeVars
<1>2. UNCHANGED staticVars
  BY DEF UniqueWriters, staticVars, domainVars, listVars, stepVars, referenceVars, cbVars
<1>3. AllRegistries' = AllRegistries /\ UniqueLoop' = UniqueLoop /\ Bf' = Bf /\ nStep' = nStep
  BY <1>1, <1>2, StaticKept DEF CoreInv, staticVars, stepVars
<1>4. Done' = Done /\ Running /\ Running' /\ Clocking
  BY <1>1, <1>3 DEF Done, Clocking, Running
<1>5. ASSUME Ordered PROVE SortedInv' /\ TurnInv'
  <2>1. \A r : Since(r)' = Since(r)
    BY <1>1, <1>3, <1>4 DEF Since
  <2> QED BY <1>1, <1>3, <1>4, <1>5, <2>1 DEF Ordered, SortedInv, TurnInv
<1> QED BY <1>1, <1>2, <1>4, <1>5, OrderKept

\* A call does not change the order.
LEMMA RunCallbackOrder ==
    ASSUME CoreInv, OrderInv, NEW i \in DOMAIN toCall, RunCallback(i)
    PROVE  OrderInv'
<1>1. /\ Clocking /\ pc' = pc
      /\ UNCHANGED <<nBaseCycle, nCycle, lTimeEvents, lClockedEvents, it, currentBaseCycle>>
  BY DEF RunCallback, timeVars, Clocking
<1>2. UNCHANGED staticVars
  BY DEF RunCallback, staticVars, domainVars, listVars, stepVars, referenceVars, cbVars
<1>3. AllRegistries' = AllRegistries /\ UniqueLoop' = UniqueLoop /\ Bf' = Bf /\ nStep' = nStep
  <2>1. pc # "config" /\ pc' # "config"
    BY <1>1 DEF Clocking
  <2> QED BY <1>2, <2>1, StaticKept DEF CoreInv, staticVars, stepVars
<1>4. Done' = Done /\ Running /\ Running' /\ Clocking'
  BY <1>1, <1>3 DEF Done, Advanced, Clocking, Running
<1>5. ASSUME Ordered PROVE SortedInv' /\ TurnInv'
  <2>1. \A r : Since(r)' = Since(r)
    BY <1>1, <1>3, <1>4 DEF Since
  <2>2. SortedInv'
    BY <1>1, <1>3, <1>5, <2>1 DEF Ordered, SortedInv, Sorted
  <2> QED BY <1>1, <1>3, <1>4, <1>5, <2>1, <2>2 DEF Ordered, TurnInv
<1> QED BY <1>1, <1>2, <1>4, <1>5, OrderKept

\* The registry completes its cycle.  Once all have completed theirs they are in the same
\* order, because all of them have the same step.
LEMMA UniqueAdvanceOrder ==
    ASSUME CoreInv, OrderInv, UniqueAdvance
    PROVE  OrderInv'
<1>1. PICK r : r = lTimeEvents[it]
  OBVIOUS
<1>2. pc = "writers" /\ UniqueLoop /\ Advance(r) /\ UNCHANGED lTimeEvents
  BY <1>1 DEF UniqueAdvance
<1>3. UNCHANGED staticVars
  BY DEF UniqueAdvance, staticVars, domainVars, listVars, stepVars, referenceVars, cbVars
<1>4. pc # "config" /\ pc' # "config" /\ pc' \in {"idle", "modules"}
  BY <1>2 DEF UniqueAdvance
<1>5. /\ AllRegistries' = AllRegistries /\ UniqueLoop' = UniqueLoop /\ Bf' = Bf
      /\ nStep' = nStep /\ changed' = changed
  BY <1>3, <1>4, StaticKept DEF CoreInv, staticVars, stepVars
<1>6. Clocking /\ Running /\ uniqueClockDomain
  BY <1>2 DEF Clocking, Running, UniqueLoop
<1>7. PICK n \in Nat : n = Len(lTimeEvents) /\ DOMAIN lTimeEvents = 1..n
  BY DEF CoreInv, LoopTypes
<1>8. /\ ToSet(lTimeEvents) = AllRegistries /\ NoneTwice(lTimeEvents) /\ it \in 1..n
      /\ \A i \in 1..n : lTimeEvents[i] \in AllRegistries
      /\ \A q \in AllRegistries : \E i \in 1..n : q = lTimeEvents[i]
  <2>1. ToSet(lTimeEvents) = AllRegistries /\ NoneTwice(lTimeEvents)
    BY <1>2, <1>6, InList DEF CoreInv
  <2>2. it \in 1..n
    BY <1>2, <1>6, <1>7 DEF CoreInv, PlaceInv
  <2> QED BY <1>7, <2>1, <2>2 DEF ToSet
<1>9. r \in AllRegistries /\ r \in Registry /\ \A q \in AllRegistries : q \in Registry
  BY <1>1, <1>8 DEF AllRegistries
<1>10. /\ nBaseCycle' \in [Registry -> Nat] /\ nBaseCycle \in [Registry -> Nat] /\ nStep \in [Registry -> Nat]
       /\ nBaseCycle'[r] = nBaseCycle[r] + nStep[r]
       /\ \A s \in Registry \ {r} : nBaseCycle'[s] = nBaseCycle[s]
  BY <1>2, <1>9, Advances DEF CoreInv, StaticInv, StaticTypes, LoopTypes
<1>11. PICK k \in Nat \ {0} :
         /\ 100 * Bf * MaxCycle = k * MaxCycle /\ Never = k * (MaxCycle + 2)
         /\ k * MaxCycle \in Nat /\ k * (MaxCycle + 2) = k * MaxCycle + 2 * k
         /\ \A q \in AllRegistries : nStep[q] \in 100..k
  BY <1>4, TimeBounds
<1>12. \A p, q \in AllRegistries : nStep[p] = nStep[q]
  BY <1>4, <1>6, OneDomain DEF CoreInv
<1>13. Done = {lTimeEvents[i] : i \in 1..it - 1} /\ r \notin Done
  <2>1. Done = {lTimeEvents[i] : i \in 1..it - 1}
    BY <1>2, <1>6 DEF Done
  <2>2. \A i \in 1..it - 1 : i \in 1..n /\ i # it
    BY <1>8
  <2> QED BY <1>1, <1>7, <1>8, <2>1, <2>2 DEF NoneTwice
<1> SUFFICES ASSUME Trusted' PROVE Ordered'
  BY DEF OrderInv, Ordered
<1>14. Ordered
  <2>1. Trusted
    BY <1>5, <1>6 DEF Trusted
  <2> QED BY <2>1 DEF OrderInv, Ordered
<1>15. PICK f : f = lTimeEvents[1] /\ f \in AllRegistries /\ Since(f) < k * MaxCycle
  <2>1. 1 \in 1..n
    BY <1>8
  <2> QED BY <1>2, <1>6, <1>8, <1>11, <1>14, <2>1 DEF Ordered, TurnInv
<1>16. Since(r) = nBaseCycle[r]
  BY <1>13 DEF Since
<1>17. SingleInv' /\ BoundInv' /\ ExactInv'
  <2>1. nBaseCycle[r] \in Nat /\ nStep[r] \in Nat /\ nStep[r] <= k
    BY <1>9, <1>10, <1>11
  <2>2. nBaseCycle[r] < k * MaxCycle + nStep[r]
    <3>1. CASE changed
      <4>1. r = f
        BY <1>6, <1>9, <1>14, <1>15, <3>1 DEF Ordered, SingleInv
      <4> QED BY <1>11, <1>15, <1>16, <2>1, <4>1
    <3>2. CASE ~changed
      <4>1. Since(r) - nStep[r] < Since(f)
        BY <1>9, <1>14, <1>15, <3>2 DEF Ordered, SpreadInv
      <4>2. Since(f) \in Int
        <5>1. nBaseCycle[f] \in Nat /\ nStep[f] \in Nat
          BY <1>9, <1>10, <1>15
        <5> QED BY <5>1 DEF Since
      <4> QED BY <1>11, <1>15, <1>16, <2>1, <4>1, <4>2
    <3> QED BY <3>1, <3>2
  <2>3. nBaseCycle[r] + nStep[r] < Never
    BY <1>11, <2>1, <2>2
  <2> QED BY <1>2, <1>3, <1>4, <1>9, <1>14, <2>3, AdvanceOrder
<1>18. CASE it < n
  <2>1. pc' = "modules" /\ it' = it + 1
    BY <1>2, <1>7, <1>18 DEF UniqueAdvance
  <2>2. Done' = Done \cup {r}
    <3>1. Done' = {lTimeEvents[i] : i \in 1..it}
      BY <1>2, <1>5, <1>8, <2>1 DEF Done, Clocking
    <3>2. \A i : i \in 1..it <=> i \in 1..it - 1 \/ i = it
      BY <1>8
    <3> QED BY <1>1, <1>13, <3>1, <3>2
  <2>3. ASSUME NEW q \in AllRegistries PROVE Since(q)' = Since(q)
    <3>1. CASE q = r
      <4>1. (nBaseCycle[r] + nStep[r]) - nStep[r] = nBaseCycle[r]
        BY <1>9, <1>10
      <4> QED BY <1>5, <1>10, <1>16, <2>2, <3>1, <4>1 DEF Since
    <3>2. CASE q # r
      <4>1. q \in Done' <=> q \in Done
        BY <2>2, <3>2
      <4>2. nBaseCycle'[q] = nBaseCycle[q] /\ nStep'[q] = nStep[q]
        BY <1>5, <1>9, <1>10, <3>2
      <4> HIDE DEF Done
      <4> QED BY <4>1, <4>2 DEF Since
    <3> QED BY <3>1, <3>2
  <2>4. SpreadInv'
    BY <1>5, <1>14, <2>3 DEF Ordered, SpreadInv
  <2>5. SortedInv'
    <3>1. \A i, j \in 1..n : i < j => Since(lTimeEvents[i]) <= Since(lTimeEvents[j])
      BY <1>2, <1>7, <1>14 DEF Ordered, SortedInv
    <3>2. \A i \in 1..n : Since(lTimeEvents[i])' = Since(lTimeEvents[i])
      BY <1>2, <1>8, <2>3
    <3>3. DOMAIN lTimeEvents' = 1..n
      BY <1>2, <1>7
    <3> QED BY <1>2, <1>5, <3>1, <3>2, <3>3 DEF SortedInv
  <2>6. TurnInv'
    <3>1. Since(lTimeEvents[1])' < 100 * Bf' * MaxCycle
      BY <1>2, <1>5, <1>11, <1>15, <2>3
    <3> QED BY <1>2, <1>5, <3>1 DEF TurnInv
  <2> QED BY <1>17, <2>4, <2>5, <2>6 DEF Ordered
<1>19. CASE it = n
  <2>1. pc' = "idle"
    BY <1>2, <1>7, <1>19 DEF UniqueAdvance
  <2>2. Done' = {} /\ \A q : Since(q)' = nBaseCycle'[q]
    BY <1>2, <1>5, <2>1 DEF Done, Clocking, Since
  <2>3. ASSUME NEW q \in AllRegistries
        PROVE  nBaseCycle'[q] = Since(q) + nStep[q] /\ Since(q) \in Int /\ nStep[q] \in Nat
    <3>1. q \in Registry /\ nBaseCycle[q] \in Nat /\ nStep[q] \in Nat
      BY <1>9, <1>10
    <3>2. PICK i \in 1..n : q = lTimeEvents[i]
      BY <1>8
    <3>3. CASE i = it
      BY <1>1, <1>10, <1>16, <3>1, <3>2, <3>3
    <3>4. CASE i # it
      <4>1. q # r /\ q \in Done
        <5>1. i \in 1..it - 1
          BY <1>8, <1>19, <3>2, <3>4
        <5> QED BY <1>13, <3>2, <5>1
      <4>2. Since(q) = nBaseCycle[q] - nStep[q] /\ nBaseCycle'[q] = nBaseCycle[q]
        BY <1>10, <3>1, <4>1 DEF Since
      <4> QED BY <3>1, <4>2
    <3> QED BY <3>3, <3>4
  <2>4. SpreadInv'
    <3> SUFFICES ASSUME ~changed, NEW p \in AllRegistries, NEW q \in AllRegistries
                 PROVE  nBaseCycle'[p] - nStep[p] < nBaseCycle'[q]
      BY <1>5, <2>2 DEF SpreadInv
    <3>1. Since(p) - nStep[p] < Since(q)
      BY <1>14 DEF Ordered, SpreadInv
    <3>2. nStep[p] = nStep[q]
      BY <1>12
    <3> QED BY <2>3, <3>1, <3>2
  <2>5. SortedInv'
    <3> SUFFICES ASSUME NEW i \in 1..n, NEW j \in 1..n, i < j
                 PROVE  nBaseCycle'[lTimeEvents[i]] <= nBaseCycle'[lTimeEvents[j]]
      BY <1>2, <1>5, <1>7, <2>2 DEF SortedInv
    <3>1. Since(lTimeEvents[i]) <= Since(lTimeEvents[j])
      BY <1>2, <1>7, <1>14 DEF Ordered, SortedInv
    <3>2. PICK p, q : p = lTimeEvents[i] /\ q = lTimeEvents[j] /\ p \in AllRegistries /\ q \in AllRegistries
      BY <1>8
    <3>3. nStep[p] = nStep[q]
      BY <1>12, <3>2
    <3> QED BY <2>3, <3>1, <3>2, <3>3
  <2>6. TurnInv'
    BY <2>1 DEF TurnInv, Clocking
  <2> QED BY <1>17, <2>4, <2>5, <2>6 DEF Ordered
<1> QED BY <1>8, <1>18, <1>19

\* A random seed is set between two calls, when both loops have the same order.
LEMMA SetRandomClockingSeedOrder ==
    ASSUME CoreInv, OrderInv, NEW on \in BOOLEAN, SetRandomClockingSeed(on)
    PROVE  OrderInv'
<1>1. /\ pc \in {"config", "idle"} /\ pc' = pc
      /\ UNCHANGED <<lDomain, lClock, nFrequency, nStep, nBaseCycle, nCycle, lTimeEvents, lClockedEvents,
                     uniqueClockDomain, changed>>
  BY DEF SetRandomClockingSeed, listVars, stepVars, timeVars, loopVars, cbVars
<1>2. AllRegistries' = AllRegistries /\ Bf' = Bf /\ Never' = Never
  BY <1>1 DEF AllRegistries, Bf, Never
<1> SUFFICES ASSUME Trusted' PROVE Ordered'
  BY DEF OrderInv, Ordered
<1>3. Ordered /\ pc = "idle"
  BY <1>1 DEF OrderInv, Ordered, Trusted, Running
<1>4. Done = {} /\ Done' = {}
  BY <1>1, <1>3 DEF Done, Advanced, Clocking
<1>5. \A r : Since(r) = nBaseCycle[r] /\ Since(r)' = nBaseCycle[r]
  BY <1>1, <1>4 DEF Since
<1>6. SingleInv' /\ BoundInv' /\ ExactInv'
  BY <1>1, <1>2, <1>3 DEF Ordered, SingleInv, BoundInv, ExactInv
<1>7. SpreadInv'
  BY <1>1, <1>2, <1>3, <1>5 DEF Ordered, SpreadInv
<1>8. SortedInv'
  <2>1. Sorted(lTimeEvents, nBaseCycle)
    BY <1>3, <1>5 DEF Ordered, SortedInv, Sorted
  <2> QED BY <1>1, <1>5, <2>1 DEF SortedInv, Sorted
<1>9. TurnInv'
  BY <1>1, <1>3 DEF TurnInv, Clocking
<1> QED BY <1>6, <1>7, <1>8, <1>9 DEF Ordered

\* A module changes the frequency of a domain.  Where the order of the list is never looked
\* at again, the domain has a single registry.
LEMMA SetDomainFrequencyOrder ==
    ASSUME CoreInv, OrderInv, NEW d \in Domain, NEW f \in ToSet(Freqs[d]), SetDomainFrequency(d, f)
    PROVE  OrderInv'
<1> SUFFICES ASSUME Trusted' PROVE Ordered'
  BY DEF OrderInv, Ordered
<1>1. PICK norm : norm = Truncated(f)
  OBVIOUS
<1>2. /\ pc = "modules" /\ changed' = TRUE /\ norm # currentFrequency[d]
      /\ UNCHANGED <<lDomain, RandomClocking, lClock, nBaseCycle, nCycle, lTimeEvents, lClockedEvents,
                     uniqueClockDomain, it, currentBaseCycle>>
  BY <1>1 DEF SetDomainFrequency, CoreInv, PhaseInv, listVars, timeVars, loopVars
<1>3. d \in ToSet(lDomain) /\ norm \in normalizedFrequencies(d) /\ pc' = pc
  <2>1. pc' # "failed"
    BY DEF Trusted, Running
  <2> QED BY <1>1, <2>1 DEF SetDomainFrequency, IsAllowed
<1>4. SkewsKeepFrequency
  <2>1. SkewsKeepFrequency'
    BY <1>2 DEF Trusted
  <2> QED BY <2>1 DEF SkewsKeepFrequency
<1>5. Ordered /\ Clocking /\ pc # "config"
  BY <1>2, <1>4 DEF OrderInv, Ordered, Trusted, Running, Clocking
<1>6. AllRegistries' = AllRegistries /\ Bf' = Bf /\ Never' = Never /\ UniqueLoop' = UniqueLoop
  BY <1>2 DEF AllRegistries, Bf, Never, UniqueLoop
<1>7. ASSUME uniqueClockDomain, NEW r \in AllRegistries, NEW s \in AllRegistries PROVE r = s
  <2>1. uniqueDomainOptimization /\ Len(lDomain) <= 1 /\ lDomain \in Seq(Domain)
    BY <1>5, <1>7 DEF CoreInv, StaticInv, StartedInv, StaticTypes
  <2>2. r \in Registry /\ s \in Registry /\ regDomain[r] \in ToSet(lDomain)
    <3>1. r \in Registry /\ s \in Registry /\ regDomain[r] \in Domain /\ r \in ToSet(lClock[regDomain[r]])
      BY ClockServerConstants DEF AllRegistries
    <3> QED BY <3>1 DEF CoreInv, StaticInv, CreatedInv, ListsOfDomains
  <2>3. regDomain[r] = d
    <3>1. PICK m \in Nat : m = Len(lDomain) /\ DOMAIN lDomain = 1..m
      BY <2>1
    <3>2. PICK i, j : i \in 1..m /\ j \in 1..m /\ regDomain[r] = lDomain[i] /\ d = lDomain[j]
      BY <1>3, <2>2, <3>1 DEF ToSet
    <3>3. i = j
      BY <2>1, <3>1, <3>2
    <3> QED BY <3>2, <3>3
  <2>4. regDomain[s] = d
    BY <1>5, <1>7, <2>3, OneDomain DEF CoreInv
  <2>5. currentFrequency[d] \in normalizedFrequencies(d)
    BY <1>3 DEF CoreInv, StaticInv, CreatedInv
  <2> QED BY <1>2, <1>3, <1>4, <2>1, <2>2, <2>3, <2>4, <2>5 DEF SkewsKeepFrequency
<1>8. SingleInv' /\ SpreadInv' /\ ExactInv' /\ BoundInv'
  BY <1>2, <1>5, <1>6, <1>7 DEF Ordered, SingleInv, SpreadInv, ExactInv, BoundInv
<1>9. CASE ~UniqueLoop
  <2>1. Done = {} /\ Done' = {}
    BY <1>2, <1>3, <1>6, <1>9 DEF Done, Advanced
  <2>2. \A r : Since(r) = nBaseCycle[r] /\ Since(r)' = nBaseCycle[r]
    BY <1>2, <2>1 DEF Since
  <2>3. SortedInv'
    BY <1>2, <1>5, <1>6, <1>9 DEF Ordered, SortedInv, Sorted
  <2>4. TurnInv'
    BY <1>2, <1>3, <1>5, <1>6, <1>9, <2>2 DEF Ordered, TurnInv
  <2> QED BY <1>8, <2>3, <2>4 DEF Ordered
<1>10. CASE UniqueLoop
  <2>1. PICK n \in Nat : n = Len(lTimeEvents) /\ DOMAIN lTimeEvents = 1..n
    BY DEF CoreInv, LoopTypes
  <2>2. /\ ToSet(lTimeEvents) = AllRegistries /\ NoneTwice(lTimeEvents) /\ it \in 1..n
    BY <1>5, <1>10, <2>1, InList DEF CoreInv, Running, Clocking, PlaceInv
  <2>3. \A i, j \in 1..n : i = j
    <3>1. \A i \in 1..n : lTimeEvents[i] \in AllRegistries
      BY <2>1, <2>2 DEF ToSet
    <3> QED BY <1>7, <1>10, <2>1, <2>2, <3>1 DEF UniqueLoop, NoneTwice
  <2>4. it = 1
    BY <2>2, <2>3
  <2>5. Done = {} /\ Done' = {}
    BY <1>2, <1>3, <1>6, <1>10, <2>4 DEF Done, Clocking
  <2>6. \A r : Since(r) = nBaseCycle[r] /\ Since(r)' = nBaseCycle[r]
    BY <1>2, <2>5 DEF Since
  <2>7. SortedInv'
    <3>1. \A i, j \in 1..n : ~(i < j)
      BY <2>3
    <3> QED BY <1>2, <1>6, <1>10, <2>1, <3>1 DEF SortedInv
  <2>8. TurnInv'
    BY <1>2, <1>3, <1>5, <1>6, <1>10, <2>6 DEF Ordered, TurnInv, Clocking
  <2> QED BY <1>8, <2>7, <2>8 DEF Ordered
<1> QED BY <1>9, <1>10

\* The server is initialised: every registry is due after its skew.
LEMMA InitClockServerOrder ==
    ASSUME CoreInv, InitClockServer
    PROVE  OrderInv'
<1>1. /\ pc = "config" /\ pc' = "idle"
      /\ nStep' = [r \in Registry |-> IF r \in AllRegistries THEN StepOf(nFrequency[r]) ELSE nStep[r]]
      /\ nBaseCycle' = [r \in Registry |->
                          IF r \in AllRegistries THEN SkewTime(r, nFrequency[r]) ELSE nBaseCycle[r]]
      /\ lTimeEvents' = InitialEvents(nBaseCycle')
      /\ UNCHANGED <<lDomain, lClock, nFrequency, nCycle, changed>>
  BY DEF InitClockServer, domainVars, listVars, cbVars
<1>2. StaticTypes /\ CreatedInv /\ LoopTypes
  BY DEF CoreInv, StaticInv
<1>3. LoopTypes'
  BY InitClockServerCore DEF CoreInv
<1>4. AllRegistries' = AllRegistries /\ Bf' = Bf /\ Never' = Never
  BY <1>1 DEF AllRegistries, Bf, Never
<1>5. Done' = {} /\ \A r : Since(r)' = nBaseCycle'[r]
  BY <1>1 DEF Done, Advanced, Clocking, Since
<1>6. ASSUME NEW r \in AllRegistries
      PROVE  /\ r \in Registry /\ nCycle[r] = 0 /\ nBaseCycle'[r] \in Nat /\ nStep'[r] \in Nat
             /\ nBaseCycle'[r] * nFrequency[r] = nSkew[r] * Bf /\ nSkew[r] \in Nat
             /\ nBaseCycle'[r] < nStep'[r] /\ nStep'[r] <= 100 * Bf
  <2>1. /\ r \in Registry /\ StepOf(nFrequency[r]) \in Nat /\ SkewTime(r, nFrequency[r]) \in Nat
        /\ SkewTime(r, nFrequency[r]) * nFrequency[r] = nSkew[r] * Bf
        /\ SkewTime(r, nFrequency[r]) < StepOf(nFrequency[r]) /\ StepOf(nFrequency[r]) <= 100 * Bf
    BY <1>2, RegistriesFit
  <2>2. nBaseCycle'[r] = SkewTime(r, nFrequency[r]) /\ nStep'[r] = StepOf(nFrequency[r])
    BY <1>1, <2>1
  <2>3. nSkew[r] \in 0..99
    BY <2>1, ClockServerConstants
  <2>4. nCycle[r] = 0
    BY <1>1 DEF CoreInv, ConfigInv
  <2> QED BY <2>1, <2>2, <2>3, <2>4
<1>7. Bf \in Nat /\ MaxCycle \in Nat
  <2>1. lDomain \in Seq(Domain) /\ WordMax \in Nat
    BY <1>2, FrequencyConstants DEF StaticTypes
  <2>2. Bf \in 1..WordMax
    BY <2>1, BfWorks
  <2> QED BY <2>1, <2>2, ClockServerConstants
<1>8. SingleInv'
  BY <1>1 DEF CoreInv, ConfigInv, SingleInv
<1>9. BoundInv'
  <2> SUFFICES ASSUME NEW r \in AllRegistries
               PROVE  nBaseCycle'[r] < 100 * Bf * (nCycle'[r] + 1) /\ nBaseCycle'[r] < Never
    BY <1>4 DEF BoundInv
  <2>1. 100 * Bf * (nCycle'[r] + 1) = 100 * Bf
    <3>1. PICK k \in Nat : k = 100 * Bf
      BY <1>7
    <3>2. nCycle'[r] + 1 = 1
      <4>1. nCycle[r] = 0
        BY <1>6
      <4>2. nCycle' = nCycle
        BY <1>1
      <4> QED BY <4>1, <4>2
    <3>3. k * 1 = k
      OBVIOUS
    <3> QED BY <3>1, <3>2, <3>3
  <2>2. 100 * Bf <= Never
    <3>1. PICK k \in Nat : k = 100 * Bf
      BY <1>7
    <3>2. k * (MaxCycle + 2) = k + k * (MaxCycle + 1) /\ k * (MaxCycle + 1) \in Nat
      BY <1>7
    <3>3. k <= k * (MaxCycle + 2)
      <4>1. PICK m \in Nat : m = k * (MaxCycle + 1)
        BY <3>2
      <4> QED BY <3>2, <4>1
    <3> QED BY <3>1, <3>3 DEF Never
  <2>3. Never \in Nat
    BY <1>7 DEF Never
  <2> QED BY <1>6, <1>7, <2>1, <2>2, <2>3
<1>10. SpreadInv'
  <2>1. \A r, s \in AllRegistries : nBaseCycle'[r] - nStep'[r] < nBaseCycle'[s]
    BY <1>6
  <2> QED BY <1>4, <1>5, <2>1 DEF SpreadInv
<1>11. ExactInv'
  <2>1. ASSUME NEW r \in AllRegistries
        PROVE  nBaseCycle'[r] * nFrequency'[r] = (100 * nCycle'[r] + nSkew[r]) * Bf'
    <3>1. 100 * nCycle'[r] + nSkew[r] = nSkew[r]
      BY <1>1, <1>6
    <3> QED BY <1>1, <1>4, <1>6, <3>1
  <2> QED BY <1>4, <2>1 DEF ExactInv
<1>12. SortedInv'
  <2>1. PICK base, events : base = nBaseCycle' /\ events = InitialEvents(base)
    OBVIOUS
  <2>2. base \in [Registry -> Nat]
    BY <1>3, <2>1 DEF LoopTypes
  <2>3. Registered \in Seq(Registry) /\ NoneTwice(Registered)
    BY <1>2, RegisteredOnce DEF StaticTypes, CreatedInv
  <2>4. Sorted(events, base)
    BY <2>1, <2>2, <2>3, EventsBuilt
  <2>5. lTimeEvents' = events
    BY <1>1, <2>1
  <2> QED BY <1>5, <2>1, <2>4, <2>5 DEF SortedInv, Sorted
<1>13. TurnInv'
  BY <1>1 DEF TurnInv, Clocking
<1> QED BY <1>8, <1>9, <1>10, <1>11, <1>12, <1>13 DEF OrderInv

-----------------------------------------------------------------------------
(* The invariant, and the properties that follow from it *)

\* Nothing is due before the server has been initialised.
LEMMA NotRunning ==
    ASSUME ~Running
    PROVE  OrderInv
BY DEF OrderInv, Trusted

\* No step of the server breaks the order.
LEMMA OrderInductive ==
    ASSUME CoreInv, OrderInv, [Next]_vars
    PROVE  OrderInv'
<1>1. CASE UNCHANGED vars
  <2>1. /\ UNCHANGED <<nBaseCycle, nCycle, pc, lTimeEvents, lClockedEvents, it, currentBaseCycle, restarts,
                       RandomClocking, lDomain, currentFrequency, lClock, lModules, lrateWriter, lWriterRM,
                       nFrequency, nStep, referenceClockDomain, referenceClockRegitry, firstClockRegitry,
                       uniqueClockDomain, changed>>
    BY <1>1 DEF vars, timeVars, loopVars, domainVars, listVars, stepVars, referenceVars, cbVars
  <2>2. UNCHANGED staticVars
    BY <2>1 DEF staticVars, domainVars, listVars, stepVars, referenceVars
  <2>3. UniqueLoop' = UniqueLoop /\ Bf' = Bf /\ Clocking' = Clocking
    BY <2>1 DEF UniqueLoop, Bf, Clocking
  <2>4. Done' = Done
    BY <2>1, <2>3 DEF Done, Advanced
  <2>5. ASSUME Ordered PROVE SortedInv' /\ TurnInv'
    <3>1. \A r : Since(r)' = Since(r)
      BY <2>1, <2>4 DEF Since
    <3> QED BY <2>1, <2>3, <2>5, <3>1 DEF Ordered, SortedInv, TurnInv, Sorted
  <2>6. Running' = Running
    BY <2>1 DEF Running
  <2>7. CASE Running
    BY <2>1, <2>2, <2>4, <2>5, <2>6, <2>7, OrderKept
  <2>8. CASE ~Running
    BY <2>6, <2>8 DEF OrderInv, Trusted
  <2> QED BY <2>7, <2>8
<1>2. ASSUME NEW on \in BOOLEAN, SetRandomClockingSeed(on) PROVE OrderInv'
  BY <1>2, SetRandomClockingSeedOrder
<1>3. ASSUME pc' = "config" PROVE OrderInv'
  BY <1>3 DEF OrderInv, Trusted, Running
<1>4. ASSUME NEW d \in Domain, NewClockDomain(d) \/ SetReferenceClockDomain(d) PROVE OrderInv'
  BY <1>3, <1>4 DEF NewClockDomain, SetReferenceClockDomain
<1>5. ASSUME NEW c \in Callback, RegisterClock(c) \/ RegisterRateMatcherWriter(c) PROVE OrderInv'
  BY <1>3, <1>5 DEF RegisterClock, RegisterRateMatcherWriter
<1>6. CASE InitClockServer
  BY <1>6, InitClockServerOrder
<1>7. CASE UnregisterAll
  BY <1>3, <1>7 DEF UnregisterAll
<1>8. CASE ClockLoop
  BY <1>8, ClockBeginOrder, NextEventOrder, BeginWritersOrder, ReaddEventOrder DEF ClockLoop
<1>9. CASE UniqueDomainClock
  BY <1>9, UniqueBeginOrder, UniqueWritersOrder, UniqueAdvanceOrder DEF UniqueDomainClock
<1>10. ASSUME NEW i \in DOMAIN toCall, RunCallback(i) PROVE OrderInv'
  BY <1>10, RunCallbackOrder
<1>11. ASSUME NEW d \in Domain, NEW f \in ToSet(Freqs[d]), SetDomainFrequency(d, f) PROVE OrderInv'
  BY <1>11, SetDomainFrequencyOrder
<1>12. CASE Finished
  BY <1>1, <1>12 DEF Finished
<1> QED BY <1>1, <1>2, <1>4, <1>5, <1>6, <1>7, <1>8, <1>9, <1>10, <1>11, <1>12 DEF Next, Configure

\* Init establishes the inductive invariant, and every step of the server keeps it.
THEOREM Inductive == Spec => []IInv
<1>1. IInv <=> CoreInv /\ OrderInv
  BY DEF IInv, CoreInv
<1>2. Init => IInv
  <2> SUFFICES ASSUME Init PROVE IInv
    OBVIOUS
  <2>1. ~Running
    BY DEF Init, Running
  <2> QED BY <1>1, <2>1, InitCore, NotRunning
<1>3. IInv /\ [Next]_vars => IInv'
  <2> SUFFICES ASSUME CoreInv, OrderInv, [Next]_vars PROVE IInv'
    BY <1>1
  <2>1. CoreInv' /\ OrderInv'
    BY CoreInductive, OrderInductive
  <2> QED BY <2>1 DEF IInv, CoreInv
<1> QED BY <1>2, <1>3, PTL DEF Spec

\* The variables have their types, and a domain always has one of its frequencies.
THEOREM TypeCorrect == Spec => []TypeOK
<1>1. IInv => TypeOK
  <2> SUFFICES ASSUME IInv PROVE TypeOK
    OBVIOUS
  <2>1. StaticTypes /\ LoopTypes /\ CreatedInv
    BY DEF IInv, StaticInv
  <2>2. \A d \in ToSet(lDomain) : currentFrequency[d] \in normalizedFrequencies(d)
    BY <2>1 DEF CreatedInv
  <2> QED BY <2>1, <2>2 DEF StaticTypes, LoopTypes, TypeOK
<1> QED BY <1>1, Inductive, PTL

\* The base frequency is the least common multiple of the frequencies, and a multiple of
\* every frequency a domain may be set to.
THEOREM BaseFrequencyCorrect == Spec => []BaseFrequencyExact
<1>1. IInv => BaseFrequencyExact
  <2> SUFFICES ASSUME IInv PROVE BaseFrequencyExact
    OBVIOUS
  <2>1. lDomain \in Seq(Domain) /\ WordMax \in Nat
    BY FrequencyConstants DEF IInv, StaticInv, StaticTypes
  <2>2. PICK b \in Nat \ {0} :
          /\ b = Bf
          /\ \A d \in ToSet(lDomain) : \A f \in normalizedFrequencies(d) : f \in Nat \ {0} /\ Divides(f, b)
    <3>1. /\ Bf \in 1..WordMax
          /\ \A d \in ToSet(lDomain) : \A f \in normalizedFrequencies(d) : f \in 1..WordMax /\ Divides(f, Bf)
      BY <2>1, BfWorks
    <3>2. Bf \in Nat \ {0} /\ \A f \in 1..WordMax : f \in Nat \ {0}
      BY <2>1, <3>1
    <3> QED BY <3>1, <3>2
  <2>3. ASSUME NEW d \in ToSet(lDomain), NEW f \in normalizedFrequencies(d) PROVE b # Overflow /\ b % f = 0
    <3>1. f \in Nat \ {0} /\ Divides(f, b)
      BY <2>2
    <3> QED BY <3>1, DividesMod DEF Overflow
  <2> QED BY <2>2, <2>3, BaseFrequencyIsLcm DEF BaseFrequencyExact
<1> QED BY <1>1, Inductive, PTL

\* No registry is a whole period ahead of another, measured by cycles and skew over frequency.
THEOREM RatesMatch == Spec => []RatesMatchFrequencies
<1>1. IInv => RatesMatchFrequencies
  <2> SUFFICES ASSUME IInv, pc = "idle", ~changed, NEW r \in AllRegistries, NEW s \in AllRegistries
               PROVE  (100 * (nCycle[r] - 1) + nSkew[r]) * nFrequency[s]
                          <= (100 * nCycle[s] + nSkew[s]) * nFrequency[r]
    BY DEF RatesMatchFrequencies
  <2>1. Ordered
    BY DEF IInv, OrderInv, Ordered, Trusted, Running
  <2>2. \A q : Since(q) = nBaseCycle[q]
    BY DEF Since, Done, Advanced, Clocking
  <2>3. ASSUME NEW q \in AllRegistries
        PROVE  /\ nStep[q] \in Nat /\ nFrequency[q] \in Nat /\ nFrequency[q] >= 1
               /\ nStep[q] * nFrequency[q] = 100 * Bf
               /\ nBaseCycle[q] \in Nat /\ nCycle[q] \in Nat /\ nSkew[q] \in Nat
               /\ nBaseCycle[q] * nFrequency[q] = (100 * nCycle[q] + nSkew[q]) * Bf
    <3>1. q \in Registry
      BY DEF AllRegistries
    <3>2. /\ nStep[q] \in Nat /\ nFrequency[q] \in Nat /\ nFrequency[q] >= 1
          /\ nStep[q] * nFrequency[q] = 100 * Bf
      BY StepsFit DEF IInv
    <3>3. nBaseCycle[q] \in Nat /\ nCycle[q] \in Nat
      BY <3>1 DEF IInv, LoopTypes
    <3>4. nSkew[q] \in 0..99
      BY <3>1, ClockServerConstants
    <3>5. nBaseCycle[q] * nFrequency[q] = (100 * nCycle[q] + nSkew[q]) * Bf
      BY <2>1 DEF Ordered, ExactInv
    <3> QED BY <3>2, <3>3, <3>4, <3>5
  <2>4. nBaseCycle[r] - nStep[r] <= nBaseCycle[s]
    <3>1. Since(r) - nStep[r] < Since(s)
      BY <2>1 DEF Ordered, SpreadInv
    <3> QED BY <2>2, <2>3, <3>1
  <2>5. PICK b \in Nat \ {0} : b = Bf
    BY StepsFit DEF IInv
  <2>6. PICK f, g \in Nat : f = nFrequency[r] /\ g = nFrequency[s]
    BY <2>3
  <2>7. PICK x, y, t \in Int : x = nBaseCycle[r] /\ y = nBaseCycle[s] /\ t = nStep[r]
    BY <2>3
  <2>8. PICK u, v \in Int : u = 100 * nCycle[r] + nSkew[r] /\ v = 100 * nCycle[s] + nSkew[s]
    BY <2>3
  <2>9. x * f = u * b /\ y * g = v * b /\ t * f = 100 * b /\ x - t <= y
    BY <2>3, <2>4, <2>5, <2>6, <2>7, <2>8
  \* both sides, multiplied by the base frequency
  <2>10. ((u - 100) * g) * b <= (v * f) * b
    <3>1. ((u - 100) * g) * b = g * (u * b - 100 * b)
      BY <2>5, <2>6, <2>8
    <3>2. g * (x * f - t * f) = (f * g) * (x - t) /\ (v * f) * b = f * (v * b) /\ f * (y * g) = (f * g) * y
      BY <2>5, <2>6, <2>7, <2>8
    <3>3. \A m \in Nat : \A i, j \in Int : i <= j => m * i <= m * j
      OBVIOUS
    <3>4. f * g \in Nat /\ x - t \in Int /\ (f * g) * (x - t) <= (f * g) * y
      BY <2>6, <2>7, <2>9, <3>3
    <3> QED BY <2>9, <3>1, <3>2, <3>4
  <2>11. (u - 100) * g <= v * f
    <3>1. PICK i, j \in Int : i = (u - 100) * g /\ j = v * f
      BY <2>6, <2>8
    <3>2. i * b <= j * b
      BY <2>10, <3>1
    <3>3. i > j => i * b > j * b
      <4>1. \A m \in Nat \ {0} : \A p, q \in Int : p > q => p * m > q * m
        OBVIOUS
      <4> QED BY <2>5, <4>1
    <3>4. i * b \in Int /\ j * b \in Int
      BY <2>5
    <3> QED BY <3>1, <3>2, <3>3, <3>4
  <2>12. 100 * (nCycle[r] - 1) + nSkew[r] = u - 100
    BY <2>3, <2>8
  <2> QED BY <2>6, <2>8, <2>11, <2>12
<1> QED BY <1>1, Inductive, PTL

\* The list of events is complete, and in order between two calls.
LEMMA NothingLost ==
    ASSUME CoreInv, pc = "idle" \/ Clocking
    PROVE  /\ ToSet(lTimeEvents \o Pending) = AllRegistries
           /\ Len(lTimeEvents \o Pending) = Cardinality(AllRegistries)
<1>1. Running /\ lTimeEvents \in Seq(Registry) /\ lClockedEvents \in Seq(Registry)
  BY DEF Running, Clocking, CoreInv, LoopTypes
<1>2. /\ NoneTwice(lTimeEvents) /\ NoneTwice(lClockedEvents)
      /\ ToSet(lClockedEvents) \subseteq AllRegistries
      /\ ToSet(lTimeEvents) = AllRegistries \ ToSet(Pending)
  BY <1>1 DEF CoreInv, EventsInv
<1>3. Pending \in Seq(Registry) /\ NoneTwice(Pending) /\ ToSet(Pending) \subseteq AllRegistries
  <2>1. CASE pc = "writers" /\ ~UniqueLoop
    <3>1. PICK n \in Nat : n = Len(lClockedEvents) /\ DOMAIN lClockedEvents = 1..n
      BY <1>1
    <3>2. Clocking /\ it \in 1..n /\ ToSet(Pending) \subseteq ToSet(lClockedEvents)
      BY <2>1, <3>1, Shares DEF CoreInv, Clocking, PlaceInv
    <3>3. PICK s : s = SubSeq(lClockedEvents, it, n)
      OBVIOUS
    <3>4. s \in Seq(Registry) /\ DOMAIN s = 1..n - it + 1 /\ \A i \in 1..n - it + 1 : s[i] = lClockedEvents[it + i - 1]
      BY <1>1, <3>1, <3>2, <3>3
    <3>5. NoneTwice(s)
      <4> SUFFICES ASSUME NEW i \in 1..n - it + 1, NEW j \in 1..n - it + 1, s[i] = s[j] PROVE i = j
        BY <3>4 DEF NoneTwice
      <4>1. it + i - 1 \in 1..n /\ it + j - 1 \in 1..n
        BY <3>2
      <4>2. it + i - 1 = it + j - 1
        BY <1>2, <3>1, <3>4, <4>1 DEF NoneTwice
      <4> QED BY <3>2, <4>2
    <3>6. Pending = s
      BY <2>1, <3>1, <3>3 DEF Pending
    <3> QED BY <1>2, <3>2, <3>4, <3>5, <3>6
  <2>2. CASE ~(pc = "writers" /\ ~UniqueLoop)
    BY <1>1, <1>2, <2>2 DEF Pending
  <2> QED BY <2>1, <2>2
<1>4. PICK p, e : p = Pending /\ e = lTimeEvents \o p
  OBVIOUS
<1>5. e \in Seq(Registry) /\ ToSet(e) = AllRegistries /\ NoneTwice(e)
  <2>1. /\ lTimeEvents \o p \in Seq(Registry) /\ ToSet(lTimeEvents \o p) = ToSet(lTimeEvents) \cup ToSet(p)
        /\ NoneTwice(lTimeEvents) /\ NoneTwice(p) /\ ToSet(lTimeEvents) \cap ToSet(p) = {} => NoneTwice(lTimeEvents \o p)
    BY <1>1, <1>3, <1>4, Joined
  <2> QED BY <1>2, <1>3, <1>4, <2>1
<1>6. Len(e) = Cardinality(ToSet(e))
  BY <1>5, LengthIsCardinality
<1> QED BY <1>4, <1>5, <1>6

\* No event is lost or doubled, and the list is in order whenever Clock() looks at its front.
THEOREM EventsStayComplete ==
    ASSUME SkewsKeepFrequency
    PROVE  Spec => []EventsComplete
<1>1. IInv /\ TypeOK => EventsComplete
  <2> SUFFICES ASSUME IInv, TypeOK PROVE EventsComplete
    OBVIOUS
  <2>1. CoreInv
    BY DEF IInv, CoreInv
  <2>2. ASSUME pc = "idle", NEW i \in DOMAIN lTimeEvents, NEW j \in DOMAIN lTimeEvents, i < j
        PROVE  nBaseCycle[lTimeEvents[i]] <= nBaseCycle[lTimeEvents[j]]
    <3>1. SortedInv
      BY <2>2 DEF IInv, OrderInv, Trusted, Running
    <3>2. \A r : Since(r) = nBaseCycle[r]
      BY <2>2 DEF Since, Done, Advanced, Clocking
    <3> QED BY <2>2, <3>1, <3>2 DEF SortedInv, Sorted
  <2>3. pc = "idle" \/ Clocking =>
          /\ ToSet(lTimeEvents \o Pending) = AllRegistries
          /\ Len(lTimeEvents \o Pending) = Cardinality(AllRegistries)
    BY <2>1, NothingLost
  <2> HIDE DEF IInv, TypeOK
  <2> QED BY <2>2, <2>3 DEF EventsComplete
<1> QED BY <1>1, Inductive, TypeCorrect, PTL

\* Registries of a single domain are never due at the same time.
LEMMA SkewsApart ==
    ASSUME CoreInv, Ordered, pc # "config", uniqueClockDomain,
           NEW r \in AllRegistries, NEW s \in AllRegistries, nBaseCycle[r] = nBaseCycle[s]
    PROVE  r = s
<1>1. CASE changed
  BY <1>1 DEF Ordered, SingleInv
<1>2. CASE ~changed
  <2>1. r \in Registry /\ s \in Registry
    BY DEF AllRegistries
  <2>2. PICK b \in Nat \ {0} : b = Bf
    BY StepsFit DEF CoreInv
  <2>3. nFrequency[r] = nFrequency[s] /\ regDomain[r] = regDomain[s]
    BY OneDomain DEF CoreInv
  <2>4. nSkew[r] \in 0..99 /\ nSkew[s] \in 0..99 /\ nCycle[r] \in Nat /\ nCycle[s] \in Nat
    BY <2>1, ClockServerConstants DEF CoreInv, LoopTypes
  <2>5. PICK x \in 0..99, y \in 0..99, i \in Nat, j \in Nat :
           x = nSkew[r] /\ y = nSkew[s] /\ i = nCycle[r] /\ j = nCycle[s]
    BY <2>4
  <2> DEFINE u == 100 * i + x
             v == 100 * j + y
  <2> u \in Int /\ v \in Int
    OBVIOUS
  <2>6. u * b = v * b
    BY <1>2, <2>2, <2>3, <2>5 DEF Ordered, ExactInv
  <2>7. u = v
    <3> HIDE DEF u, v
    <3>1. \A m \in Nat \ {0} : \A p, q \in Int : p > q => p * m > q * m
      OBVIOUS
    <3>2. u * b \in Int /\ v * b \in Int
      BY <2>2
    <3> QED BY <2>2, <2>6, <3>1, <3>2
  <2>8. nSkew[r] = nSkew[s]
    <3>1. i = j
      BY <2>7
    <3> QED BY <2>5, <2>7, <3>1
  <2> QED BY <2>1, <2>3, <2>8, ClockServerConstants
<1> QED BY <1>1, <1>2

\* The callback that is called next belongs to the current registry and has not been called.
LEMMA NextCall ==
    ASSUME CoreInv, NEW i \in DOMAIN toCall, RunCallback(i)
    PROVE  \E c \in Callback :
              /\ c = toCall[i] /\ cbReg[c] = CurrentEvent /\ CurrentEvent \in AllRegistries
              /\ ~Called(c) /\ (c \in WriterRM => pc = "writers")
              /\ calls' = [calls EXCEPT ![c] = calls[c] + 1] /\ calls \in [Callback -> Nat]
<1> USE DEF CoreInv
<1>1. PICK c : c = toCall[i]
  OBVIOUS
<1>2. Clocking /\ calls' = [calls EXCEPT ![c] = calls[c] + 1]
  BY <1>1 DEF RunCallback, Clocking
<1>3. toCall \in Seq(Callback) /\ ToSet(toCall) \subseteq ToSet(CallsOf(CurrentEvent)) /\ calls \in [Callback -> Nat]
  BY <1>2 DEF LoopTypes, PlaceInv
<1>4. c \in ToSet(toCall) /\ c \in Callback
  BY <1>1, <1>3 DEF ToSet
<1>5. CurrentEvent \in AllRegistries /\ CurrentEvent \in Registry
  BY <1>2, Current
<1>6. cbReg[c] = CurrentEvent /\ (pc = "modules" => c \notin WriterRM)
  <2>1. c \in ToSet(CallsOf(CurrentEvent))
    BY <1>3, <1>4
  <2> QED BY <1>5, <2>1, CallsOfRegistry DEF CallsOf
<1>7. ~Called(c)
  BY <1>4, <1>6 DEF Called
<1> QED BY <1>1, <1>2, <1>3, <1>4, <1>5, <1>6, <1>7 DEF Clocking

\* While the writers are called, the registries that are due have had all their modules called.
THEOREM WritersComeLater ==
    ASSUME SkewsKeepFrequency
    PROVE  Spec => WritersAfterModules
<1>1. ASSUME IInv, [Next]_vars, NEW w \in WriterRM, calls'[w] > calls[w],
             NEW c \in Callback \ WriterRM, cbReg[c] \in AllRegistries,
             nBaseCycle[cbReg[c]] = nBaseCycle[cbReg[w]]
      PROVE  calls[c] = nCycle[cbReg[c]] + 1
  <2>1. CoreInv /\ w \in Callback
    BY <1>1, ClockServerConstants DEF IInv, CoreInv
  <2>2. calls \in [Callback -> Nat] /\ calls[w] \in Nat
    BY <2>1 DEF CoreInv, LoopTypes
  <2>3. PICK i \in DOMAIN toCall : RunCallback(i)
    <3>1. ~UnregisterAll
      <4>1. ASSUME UnregisterAll PROVE calls'[w] = 0
        BY <2>1, <4>1 DEF UnregisterAll
      <4> QED BY <1>1, <2>2, <4>1
    <3>2. calls' # calls
      BY <1>1, <2>2
    <3>3. ~(UNCHANGED vars)
      BY <3>2 DEF vars, cbVars, callVars
    <3>4. ~Configure
      BY <3>2 DEF Configure, SetRandomClockingSeed, NewClockDomain, SetReferenceClockDomain, RegisterClock,
                  RegisterRateMatcherWriter, cbVars, callVars
    <3>5. ~InitClockServer /\ ~Finished
      BY <3>2, <3>3 DEF InitClockServer, Finished, cbVars, callVars
    <3>6. ~ClockLoop /\ ~UniqueDomainClock
      BY <3>2 DEF ClockLoop, ClockBegin, NextEvent, BeginWriters, ReaddEvent, UniqueDomainClock,
                  UniqueBegin, UniqueWriters, UniqueAdvance, cbVars, callVars
    <3>7. ASSUME NEW d \in Domain, NEW f \in ToSet(Freqs[d]) PROVE ~SetDomainFrequency(d, f)
      BY <3>2 DEF SetDomainFrequency, callVars
    <3> QED BY <1>1, <3>1, <3>3, <3>4, <3>5, <3>6, <3>7 DEF Next
  <2>4. /\ w = toCall[i] /\ cbReg[w] = CurrentEvent /\ CurrentEvent \in AllRegistries /\ pc = "writers"
    <3>1. PICK b \in Callback :
              /\ b = toCall[i] /\ cbReg[b] = CurrentEvent /\ CurrentEvent \in AllRegistries
              /\ b \in WriterRM => pc = "writers"
              /\ calls' = [calls EXCEPT ![b] = calls[b] + 1]
      BY <2>1, <2>3, NextCall
    <3>2. b = w
      BY <1>1, <2>1, <2>2, <3>1
    <3> QED BY <3>1, <3>2
  <2>5. Clocking /\ Running /\ Ordered
    BY <1>1, <2>4 DEF Clocking, Running, IInv, OrderInv, Ordered, Trusted
  <2>6. c \notin ToSet(toCall)
    <3>1. CurrentEvent \in Registry /\ CallsOf(CurrentEvent) = lWriterRM[CurrentEvent]
      BY <2>4 DEF AllRegistries, CallsOf
    <3>2. ToSet(toCall) \subseteq ToSet(lWriterRM[CurrentEvent])
      BY <2>1, <2>5, <3>1 DEF CoreInv, PlaceInv
    <3>3. \A b \in ToSet(lWriterRM[CurrentEvent]) : b \in WriterRM
      BY <2>1, <3>1, CallsOfRegistry DEF CoreInv
    <3> QED BY <1>1, <3>2, <3>3
  <2>7. Called(c)
    <3>1. CASE cbReg[c] = CurrentEvent
      BY <2>4, <2>5, <2>6, <3>1 DEF Called
    <3>2. CASE cbReg[c] # CurrentEvent /\ ~UniqueLoop
      <4>1. /\ CurrentEvent \in ToSet(Pending) /\ Advanced \cap ToSet(Pending) = {}
            /\ ToSet(Pending) \subseteq ToSet(lClockedEvents)
        BY <2>1, <2>5, <3>2, Shares DEF CoreInv
      <4>2. nBaseCycle[CurrentEvent] = currentBaseCycle
        <5>1. Since(CurrentEvent) = currentBaseCycle
          BY <2>5, <3>2, <4>1 DEF Ordered, TurnInv
        <5>2. CurrentEvent \notin Done
          BY <3>2, <4>1 DEF Done
        <5> QED BY <5>1, <5>2 DEF Since
      <4>3. cbReg[c] \notin ToSet(lTimeEvents)
        <5>1. cbReg[c] \in ToSet(lTimeEvents) => nBaseCycle[cbReg[c]] > currentBaseCycle
          BY <2>4, <2>5, <3>2 DEF Ordered, TurnInv
        <5>2. currentBaseCycle \in Nat
          BY <2>1 DEF CoreInv, LoopTypes
        <5> QED BY <1>1, <2>4, <4>2, <5>1, <5>2
      <4>4. cbReg[c] \in ToSet(Pending)
        BY <1>1, <2>1, <2>5, <4>3 DEF CoreInv, EventsInv
      <4> QED BY <1>1, <2>5, <3>2, <4>4 DEF Called
    <3>3. CASE cbReg[c] # CurrentEvent /\ UniqueLoop
      <4>1. uniqueClockDomain /\ pc # "config"
        BY <2>4, <3>3 DEF UniqueLoop
      <4>2. cbReg[c] = CurrentEvent
        BY <1>1, <2>1, <2>4, <2>5, <4>1, SkewsApart
      <4> QED BY <3>3, <4>2
    <3> QED BY <3>1, <3>2, <3>3
  <2> HIDE DEF Called
  <2> QED BY <1>1, <2>1, <2>5, <2>7 DEF CoreInv, CallInv
<1>2. IInv /\ [Next]_vars =>
        \A w \in WriterRM : calls'[w] > calls[w] =>
          \A c \in Callback \ WriterRM :
             cbReg[c] \in AllRegistries /\ nBaseCycle[cbReg[c]] = nBaseCycle[cbReg[w]] =>
                calls[c] = nCycle[cbReg[c]] + 1
  BY <1>1
<1> QED BY <1>2, Inductive, PTL DEF Spec, WritersAfterModules

-----------------------------------------------------------------------------
(* The loops implement the contract *)

seen == <<BaseCycleSeen, CycleSeen, calls>>

\* What the contract sees of a running server.
LEMMA Seen ==
    ASSUME CoreInv, pc # "config"
    PROVE  /\ Never \in Nat /\ BaseCycleSeen \in [Registry -> Nat]
           /\ \A r \in Registry :
                 /\ r \notin AllRegistries => BaseCycleSeen[r] = Never /\ CycleSeen[r] = 0
                 /\ r \in AllRegistries /\ r \in Advanced =>
                       BaseCycleSeen[r] = currentBaseCycle /\ CycleSeen[r] = nCycle[r] - 1
                 /\ r \in AllRegistries /\ r \notin Advanced =>
                       BaseCycleSeen[r] = nBaseCycle[r] /\ CycleSeen[r] = nCycle[r]
<1>1. Never \in Nat
  <2>1. PICK k \in Nat \ {0} : Never = k * (MaxCycle + 2) /\ k * (MaxCycle + 2) = k * MaxCycle + 2 * k /\ k * MaxCycle \in Nat
    BY TimeBounds
  <2> QED BY <2>1
<1>2. \A r \in Registry : nBaseCycle[r] \in Nat /\ currentBaseCycle \in Nat
  BY DEF CoreInv, LoopTypes
<1> HIDE DEF Advanced, AllRegistries
<1> QED BY <1>1, <1>2 DEF BaseCycleSeen, CycleSeen

\* The contract sees nothing of a step that completes no cycle and makes no call.
LEMMA SeenKept ==
    ASSUME pc # "config", pc' # "config", AllRegistries' = AllRegistries, Never' = Never,
           \A r \in AllRegistries :
              \/ r \in Advanced /\ r \in Advanced' /\ nCycle'[r] = nCycle[r] /\ currentBaseCycle' = currentBaseCycle
              \/ r \notin Advanced /\ r \notin Advanced' /\ nCycle'[r] = nCycle[r] /\ nBaseCycle'[r] = nBaseCycle[r],
           UNCHANGED calls
    PROVE  UNCHANGED seen
<1> HIDE DEF Advanced, AllRegistries, Never
<1>1. BaseCycleSeen' = BaseCycleSeen
  BY DEF BaseCycleSeen
<1>2. CycleSeen' = CycleSeen
  BY DEF CycleSeen
<1> QED BY <1>1, <1>2 DEF seen

\* The configuration is not seen, either.
LEMMA ConfigureRefines ==
    ASSUME CoreInv, Configure
    PROVE  UNCHANGED seen
<1>1. CASE pc = "config" /\ pc' = "config" /\ UNCHANGED calls
  BY <1>1 DEF seen, BaseCycleSeen, CycleSeen
<1>2. CASE pc = "idle" /\ \E on \in BOOLEAN : SetRandomClockingSeed(on)
  <2>1. pc' = "idle" /\ UNCHANGED <<lDomain, lClock, nBaseCycle, nCycle, calls>>
    BY <1>2 DEF SetRandomClockingSeed, listVars, timeVars, cbVars, callVars
  <2>2. AllRegistries' = AllRegistries /\ Never' = Never
    BY <2>1 DEF AllRegistries, Never, Bf
  <2>3. Advanced = {} /\ Advanced' = {}
    BY <1>2, <2>1 DEF Advanced
  <2> QED BY <1>2, <2>1, <2>2, <2>3, SeenKept
<1> QED BY <1>1, <1>2 DEF Configure, SetRandomClockingSeed, NewClockDomain, SetReferenceClockDomain,
                          RegisterClock, RegisterRateMatcherWriter, cbVars, callVars

\* InitClockServer and UnregisterAll are restarts.
LEMMA RestartRefines ==
    ASSUME CoreInv, InitClockServer \/ UnregisterAll
    PROVE  Contract!Restart
<1>1. CASE InitClockServer
  <2>1. /\ pc = "config" /\ pc' = "idle" /\ UNCHANGED <<lDomain, lClock, nCycle, calls>>
    BY <1>1 DEF InitClockServer, domainVars, listVars, cbVars, callVars
  <2>2. AllRegistries' = AllRegistries /\ Never' = Never /\ Advanced' = {}
    BY <2>1 DEF AllRegistries, Never, Bf, Advanced
  <2>3. nBaseCycle' \in [Registry -> Nat]
    BY <1>1, InitClockServerCore DEF CoreInv, LoopTypes
  <2>4. Never \in Nat
    <3>1. lDomain \in Seq(Domain) /\ WordMax \in Nat /\ MaxCycle \in Nat
      BY FrequencyConstants, ClockServerConstants DEF CoreInv, StaticInv, StaticTypes
    <3>2. Bf \in 1..WordMax
      BY <3>1, BfWorks
    <3>3. PICK b \in Nat : b = Bf
      BY <3>1, <3>2
    <3> QED BY <3>1, <3>3 DEF Never
  <2> HIDE DEF Never
  <2>5. BaseCycleSeen' \in [Registry -> Nat]
    BY <2>1, <2>2, <2>3, <2>4 DEF BaseCycleSeen
  <2>6. CycleSeen' = [r \in Registry |-> 0] /\ calls' = [c \in Callback |-> 0]
    BY <2>1, <2>2 DEF CycleSeen, CoreInv, ConfigInv
  <2> QED BY <2>5, <2>6 DEF Contract!Restart
<1>2. CASE UnregisterAll
  <2>1. pc' = "config" /\ calls' = [c \in Callback |-> 0]
    BY <1>2 DEF UnregisterAll
  <2>2. BaseCycleSeen' = [r \in Registry |-> 0] /\ CycleSeen' = [r \in Registry |-> 0]
    BY <2>1 DEF BaseCycleSeen, CycleSeen
  <2>3. BaseCycleSeen' \in [Registry -> Nat]
    BY <2>2
  <2> QED BY <2>1, <2>2, <2>3 DEF Contract!Restart
<1> QED BY <1>1, <1>2

\* Neither are the steps of the loops between two cycles, nor a change of frequency.
LEMMA QuietSteps ==
    ASSUME CoreInv,
           \/ ClockBegin \/ NextEvent \/ BeginWriters \/ UniqueBegin \/ UniqueWriters
           \/ \E d \in Domain : \E f \in ToSet(Freqs[d]) : SetDomainFrequency(d, f)
    PROVE  UNCHANGED seen
<1>1. /\ pc # "config" /\ pc' # "config" /\ UNCHANGED <<lDomain, lClock, nBaseCycle, nCycle, calls>>
      /\ UNCHANGED <<RandomClocking, uniqueClockDomain>>
      /\ pc \in {"idle", "modules"}
      /\ pc' = "writers" /\ ~UniqueLoop => it' = 1
  BY DEF ClockBegin, NextEvent, BeginWriters, UniqueBegin, UniqueWriters, SetDomainFrequency,
         domainVars, listVars, timeVars, cbVars, callVars, CoreInv, PhaseInv
<1>2. AllRegistries' = AllRegistries /\ Never' = Never /\ UniqueLoop' = UniqueLoop
  BY <1>1 DEF AllRegistries, Never, Bf, UniqueLoop
<1>3. Advanced = {} /\ Advanced' = {}
  <2>1. pc' = "writers" /\ ~UniqueLoop => it' = 1
    BY <1>1
  <2>2. 1..(1 - 1) = {}
    OBVIOUS
  <2> QED BY <1>1, <1>2, <2>1, <2>2 DEF Advanced
<1> QED BY <1>1, <1>2, <1>3, SeenKept

\* No registry is due before the one that is being clocked.
LEMMA CurrentIsEarliest ==
    ASSUME CoreInv, Ordered, Clocking
    PROVE  /\ CurrentEvent \in AllRegistries \ Advanced
           /\ \A q \in Registry : BaseCycleSeen[CurrentEvent] <= BaseCycleSeen[q]
           /\ \A q \in Registry \ AllRegistries : BaseCycleSeen[CurrentEvent] < BaseCycleSeen[q]
           /\ UniqueLoop => /\ Advanced = {}
                            /\ \A q \in AllRegistries \ {CurrentEvent} : nBaseCycle[CurrentEvent] # nBaseCycle[q]
           /\ ~UniqueLoop => /\ nBaseCycle[CurrentEvent] = currentBaseCycle
                             /\ pc = "writers" =>
                                   \A q \in AllRegistries :
                                      BaseCycleSeen[q] = currentBaseCycle <=> q \in ToSet(lClockedEvents)
<1>1. pc # "config" /\ Running
  BY DEF Clocking, Running
<1>2. PICK r : r = CurrentEvent /\ r \in AllRegistries /\ r \in Registry
  BY Current DEF CoreInv
<1>3. /\ Never \in Nat /\ BaseCycleSeen \in [Registry -> Nat]
      /\ \A q \in Registry :
            /\ q \notin AllRegistries => BaseCycleSeen[q] = Never
            /\ q \in AllRegistries /\ q \in Advanced => BaseCycleSeen[q] = currentBaseCycle
            /\ q \in AllRegistries /\ q \notin Advanced => BaseCycleSeen[q] = nBaseCycle[q]
  BY <1>1, Seen
<1>4. \A q \in AllRegistries : /\ q \in Registry /\ nBaseCycle[q] < Never /\ nBaseCycle[q] \in Nat
                               /\ nStep[q] \in Nat /\ nStep[q] >= 100
  <2>1. ASSUME NEW q \in AllRegistries
        PROVE  /\ q \in Registry /\ nBaseCycle[q] < Never /\ nBaseCycle[q] \in Nat
               /\ nStep[q] \in Nat /\ nStep[q] >= 100
    <3>1. q \in Registry /\ nStep[q] \in Nat /\ nStep[q] >= 100
      BY <1>1, StepsFit DEF CoreInv
    <3>2. nBaseCycle[q] \in Nat
      BY <3>1 DEF CoreInv, LoopTypes
    <3> QED BY <3>1, <3>2 DEF Ordered, BoundInv
  <2> QED BY <2>1
<1>5. CASE ~UniqueLoop
  <2>1. /\ r \in ToSet(Pending) /\ Advanced \cap ToSet(Pending) = {}
        /\ Advanced \cup ToSet(Pending) = ToSet(lClockedEvents)
        /\ ToSet(lTimeEvents) = AllRegistries \ ToSet(Pending)
        /\ pc = "modules" => Advanced = {} /\ Pending = lClockedEvents
    BY <1>1, <1>2, <1>5, Shares DEF CoreInv, EventsInv
  <2>2. /\ \A q \in ToSet(lClockedEvents) : Since(q) = currentBaseCycle
        /\ \A q \in ToSet(lTimeEvents) : /\ nBaseCycle[q] >= currentBaseCycle
                                         /\ pc = "writers" => nBaseCycle[q] > currentBaseCycle
    BY <1>5 DEF Ordered, TurnInv
  <2>3. currentBaseCycle \in Nat
    BY DEF CoreInv, LoopTypes
  <2>4. \A q \in AllRegistries \ Advanced : Since(q) = nBaseCycle[q]
    BY <1>5 DEF Since, Done
  <2>5. \A q \in ToSet(Pending) : nBaseCycle[q] = currentBaseCycle /\ BaseCycleSeen[q] = currentBaseCycle /\ q \in AllRegistries
    <3>1. ToSet(lClockedEvents) \subseteq AllRegistries
      BY <1>1 DEF CoreInv, EventsInv
    <3> QED BY <1>3, <1>4, <2>1, <2>2, <2>4, <3>1
  <2>6. \A q \in AllRegistries \ ToSet(lClockedEvents) : BaseCycleSeen[q] = nBaseCycle[q] /\ nBaseCycle[q] >= currentBaseCycle
                                                         /\ (pc = "writers" => nBaseCycle[q] > currentBaseCycle)
    BY <1>3, <1>4, <2>1, <2>2
  <2>7. \A q \in AllRegistries \cap Advanced : BaseCycleSeen[q] = currentBaseCycle
    BY <1>3, <1>4
  <2>8. \A q \in Registry : currentBaseCycle <= BaseCycleSeen[q]
    <3>1. ASSUME NEW q \in Registry PROVE currentBaseCycle <= BaseCycleSeen[q]
      <4>1. CASE q \notin AllRegistries
        BY <1>2, <1>3, <1>4, <2>1, <2>3, <2>5, <4>1
      <4>2. CASE q \in AllRegistries /\ q \in ToSet(lClockedEvents)
        BY <2>1, <2>3, <2>5, <2>7, <4>2
      <4>3. CASE q \in AllRegistries /\ q \notin ToSet(lClockedEvents)
        BY <1>4, <2>3, <2>6, <4>3
      <4> QED BY <4>1, <4>2, <4>3
    <3> QED BY <3>1
  <2>9. \A q \in Registry \ AllRegistries : currentBaseCycle < BaseCycleSeen[q]
    BY <1>2, <1>3, <1>4, <2>1, <2>3, <2>5
  <2>10. ASSUME pc = "writers", NEW q \in AllRegistries
         PROVE  BaseCycleSeen[q] = currentBaseCycle <=> q \in ToSet(lClockedEvents)
    <3>1. CASE q \in ToSet(lClockedEvents)
      BY <2>1, <2>5, <2>7, <3>1
    <3>2. CASE q \notin ToSet(lClockedEvents)
      BY <1>4, <2>3, <2>6, <2>10, <3>2
    <3> QED BY <3>1, <3>2
  <2>11. BaseCycleSeen[r] = currentBaseCycle /\ nBaseCycle[r] = currentBaseCycle /\ r \notin Advanced
    BY <2>1, <2>5
  <2> HIDE DEF BaseCycleSeen
  <2> QED BY <1>2, <1>5, <2>8, <2>9, <2>10, <2>11
<1>6. CASE UniqueLoop
  <2>1. Advanced = {}
    BY <1>6 DEF Advanced
  <2>2. PICK n \in Nat : n = Len(lTimeEvents) /\ DOMAIN lTimeEvents = 1..n
    BY DEF CoreInv, LoopTypes
  <2>3. r = lTimeEvents[it] /\ it \in 1..n /\ ToSet(lTimeEvents) = AllRegistries
    BY <1>1, <1>2, <1>6, <2>2, InList DEF CoreInv, PlaceInv, CurrentEvent
  <2>4. uniqueClockDomain
    BY <1>6 DEF UniqueLoop
  <2>5. ASSUME NEW q \in AllRegistries \ {r} PROVE nBaseCycle[r] # nBaseCycle[q]
    BY <1>1, <1>2, <2>4, <2>5, SkewsApart
  <2>6. Done = {lTimeEvents[i] : i \in 1..it - 1}
    BY <1>6 DEF Done
  <2>7. r \notin Done
    <3>1. \A i \in 1..it - 1 : i \in 1..n /\ i # it
      BY <2>3
    <3>2. NoneTwice(lTimeEvents)
      BY <1>1 DEF CoreInv, EventsInv
    <3> QED BY <2>2, <2>3, <2>6, <3>1, <3>2 DEF NoneTwice
  <2>8. ASSUME NEW q \in AllRegistries PROVE nBaseCycle[r] <= nBaseCycle[q]
    <3>1. PICK i \in 1..n : q = lTimeEvents[i]
      BY <2>2, <2>3 DEF ToSet
    <3>2. nBaseCycle[r] \in Nat /\ nBaseCycle[q] \in Nat /\ nStep[r] \in Nat /\ nStep[q] \in Nat
      BY <1>2, <1>4
    <3>3. Since(r) = nBaseCycle[r]
      BY <2>7 DEF Since
    <3>4. CASE q \in Done
      <4>1. ~changed
        BY <1>2, <2>4, <2>7, <3>4 DEF Ordered, SingleInv
      <4>2. Since(r) - nStep[r] < Since(q)
        BY <1>2, <4>1 DEF Ordered, SpreadInv
      <4>3. Since(q) = nBaseCycle[q] - nStep[q]
        BY <3>4 DEF Since
      <4>4. nStep[r] = nStep[q]
        BY <1>1, <1>2, <2>4, OneDomain DEF CoreInv
      <4> QED BY <3>2, <3>3, <4>2, <4>3, <4>4
    <3>5. CASE q \notin Done
      <4>1. Since(q) = nBaseCycle[q]
        BY <3>5 DEF Since
      <4>2. i = it \/ it < i
        <5>1. i \notin 1..it - 1
          BY <2>6, <3>1, <3>5
        <5> QED BY <2>3, <5>1
      <4>3. CASE i = it
        BY <2>3, <3>1, <3>2, <4>3
      <4>4. CASE it < i
        BY <1>6, <2>2, <2>3, <3>1, <3>3, <4>1, <4>4 DEF Ordered, SortedInv
      <4> QED BY <4>2, <4>3, <4>4
    <3> QED BY <3>4, <3>5
  <2>9. BaseCycleSeen[r] = nBaseCycle[r] /\ \A q \in AllRegistries : BaseCycleSeen[q] = nBaseCycle[q]
    BY <1>2, <1>3, <1>4, <2>1
  <2>10. ASSUME NEW q \in Registry PROVE BaseCycleSeen[r] <= BaseCycleSeen[q]
    <3>1. CASE q \in AllRegistries
      BY <2>8, <2>9, <3>1
    <3>2. CASE q \notin AllRegistries
      BY <1>2, <1>3, <1>4, <2>9, <3>2
    <3> QED BY <3>1, <3>2
  <2>11. \A q \in Registry \ AllRegistries : BaseCycleSeen[r] < BaseCycleSeen[q]
    BY <1>2, <1>3, <1>4, <2>9
  <2> QED BY <1>2, <1>6, <2>1, <2>5, <2>10, <2>11
<1> QED BY <1>5, <1>6

\* A call is a call of the contract.
LEMMA RunCallbackRefines ==
    ASSUME CoreInv, OrderInv, SkewsKeepFrequency, NEW i \in DOMAIN toCall, RunCallback(i)
    PROVE  \E c \in Callback : Contract!Call(c)
<1>1. PICK c \in Callback :
        /\ c = toCall[i] /\ cbReg[c] = CurrentEvent /\ CurrentEvent \in AllRegistries /\ ~Called(c)
        /\ calls' = [calls EXCEPT ![c] = calls[c] + 1]
  BY NextCall
<1>2. /\ Clocking /\ pc' = pc
      /\ UNCHANGED <<nBaseCycle, nCycle, lClockedEvents, it, currentBaseCycle>>
  BY DEF RunCallback, timeVars, Clocking
<1>3. UNCHANGED staticVars
  BY DEF RunCallback, staticVars, domainVars, listVars, stepVars, referenceVars, cbVars
<1>4. pc # "config" /\ pc' # "config" /\ Running /\ Ordered
  BY <1>2 DEF Clocking, Running, OrderInv, Ordered, Trusted
<1>5. AllRegistries' = AllRegistries /\ UniqueLoop' = UniqueLoop /\ Never' = Never
  BY <1>3, <1>4, StaticKept DEF CoreInv
<1>6. Advanced' = Advanced
  BY <1>2, <1>5 DEF Advanced
<1>7. BaseCycleSeen' = BaseCycleSeen /\ CycleSeen' = CycleSeen
  <2> HIDE DEF Advanced, AllRegistries, Never
  <2> QED BY <1>2, <1>5, <1>6 DEF BaseCycleSeen, CycleSeen
<1>8. /\ CurrentEvent \notin Advanced /\ CurrentEvent \in Registry
      /\ \A q \in Registry : BaseCycleSeen[CurrentEvent] <= BaseCycleSeen[q]
  BY <1>1, <1>2, <1>4, CurrentIsEarliest DEF AllRegistries
<1>9. calls[c] = CycleSeen[cbReg[c]]
  <2>1. CycleSeen[cbReg[c]] = nCycle[cbReg[c]]
    BY <1>1, <1>4, <1>8, Seen
  <2>2. calls[c] = nCycle[cbReg[c]] + IF Called(c) THEN 1 ELSE 0
    BY <1>1, <1>4 DEF CoreInv, CallInv
  <2>3. nCycle[cbReg[c]] \in Nat
    BY <1>1, <1>8 DEF CoreInv, LoopTypes
  <2> HIDE DEF Called
  <2> QED BY <1>1, <2>1, <2>2, <2>3
<1>10. \A q \in Registry : BaseCycleSeen[cbReg[c]] <= BaseCycleSeen[q] + 0
  <2>1. BaseCycleSeen \in [Registry -> Nat]
    BY <1>4, Seen
  <2> QED BY <1>1, <1>8, <2>1
<1> QED BY <1>1, <1>7, <1>9, <1>10 DEF Contract!Call

\* A tick of the contract, seen from the registries that are due.
LEMMA TickSeen ==
    ASSUME CoreInv, CoreInv', pc # "config", pc' # "config", AllRegistries' = AllRegistries, Never' = Never,
           NEW r \in AllRegistries, NEW Due \in SUBSET AllRegistries, r \in Due,
           \A q \in Registry : BaseCycleSeen[r] <= BaseCycleSeen[q],
           \A q \in AllRegistries : BaseCycleSeen[q] = BaseCycleSeen[r] <=> q \in Due,
           \A q \in Registry \ AllRegistries : BaseCycleSeen[r] < BaseCycleSeen[q],
           \A c \in Callback : cbReg[c] \in Due => calls[c] = CycleSeen[cbReg[c]] + 1,
           Advanced' = {},
           \A q \in Due : nCycle'[q] = CycleSeen[q] + 1 /\ nBaseCycle'[q] > BaseCycleSeen[r],
           \A q \in AllRegistries \ Due : nCycle'[q] = CycleSeen[q] /\ nBaseCycle'[q] = BaseCycleSeen[q],
           UNCHANGED calls
    PROVE  Contract!Tick(BaseCycleSeen[r])
<1>1. /\ BaseCycleSeen \in [Registry -> Nat]
      /\ \A q \in Registry \ AllRegistries : BaseCycleSeen[q] = Never /\ CycleSeen[q] = 0
  BY Seen
<1>2. Never \in Nat /\ nBaseCycle' \in [Registry -> Nat]
  BY Seen DEF CoreInv, LoopTypes
<1> HIDE DEF Advanced, Never
<1>3. /\ BaseCycleSeen' = [q \in Registry |-> IF q \notin AllRegistries THEN Never ELSE nBaseCycle'[q]]
      /\ CycleSeen' = [q \in Registry |-> IF q \notin AllRegistries THEN 0 ELSE nCycle'[q]]
  <2> HIDE DEF AllRegistries
  <2> QED BY DEF BaseCycleSeen, CycleSeen
<1>4. r \in Registry /\ \A q \in AllRegistries : q \in Registry
  BY DEF AllRegistries
<1> DEFINE t == BaseCycleSeen[r]
<1>5. {q \in Registry : BaseCycleSeen[q] = t} = Due
  <2>1. ASSUME NEW q \in Registry PROVE BaseCycleSeen[q] = t <=> q \in Due
    <3>1. CASE q \in AllRegistries
      BY <3>1
    <3>2. CASE q \notin AllRegistries
      BY <1>1, <1>4, <3>2
    <3> QED BY <3>1, <3>2
  <2> QED BY <1>4, <2>1
<1>6. CycleSeen' = [q \in Registry |-> IF q \in Due THEN CycleSeen[q] + 1 ELSE CycleSeen[q]]
  <2>1. ASSUME NEW q \in Registry
        PROVE  (IF q \notin AllRegistries THEN 0 ELSE nCycle'[q])
                  = IF q \in Due THEN CycleSeen[q] + 1 ELSE CycleSeen[q]
    <3>1. CASE q \in Due
      BY <3>1
    <3>2. CASE q \in AllRegistries \ Due
      BY <3>2
    <3>3. CASE q \notin AllRegistries
      BY <1>1, <3>3
    <3> QED BY <3>1, <3>2, <3>3
  <2> HIDE DEF CycleSeen
  <2> QED BY <1>3, <2>1
<1>7. BaseCycleSeen' \in [Registry -> Nat]
  BY <1>2, <1>3
<1>8. \A q \in Due : BaseCycleSeen'[q] > t
  BY <1>3, <1>4
<1>9. \A q \in Registry \ Due : BaseCycleSeen'[q] = BaseCycleSeen[q]
  <2>1. ASSUME NEW q \in Registry \ Due PROVE BaseCycleSeen'[q] = BaseCycleSeen[q]
    <3>1. CASE q \in AllRegistries
      BY <1>3, <3>1
    <3>2. CASE q \notin AllRegistries
      BY <1>1, <1>3, <3>2
    <3> QED BY <3>1, <3>2
  <2> QED BY <2>1
<1> HIDE DEF BaseCycleSeen, CycleSeen
<1> QED BY <1>5, <1>6, <1>7, <1>8, <1>9 DEF Contract!Tick

\* The last registry of a call of Clock() completes the cycle of all of them.
LEMMA ReaddEventRefines ==
    ASSUME CoreInv, OrderInv, SkewsKeepFrequency, ReaddEvent
    PROVE  (\E r \in Registry : Contract!Tick(BaseCycleSeen[r])) \/ UNCHANGED seen
<1>1. PICK r : r = lClockedEvents[it]
  OBVIOUS
<1>2. pc = "writers" /\ ~UniqueLoop /\ toCall = <<>> /\ Advance(r) /\ UNCHANGED <<currentBaseCycle, calls>>
  BY <1>1 DEF ReaddEvent, cbVars, callVars
<1>3. UNCHANGED staticVars
  BY DEF ReaddEvent, staticVars, domainVars, listVars, stepVars, referenceVars, cbVars
<1>4. pc # "config" /\ pc' # "config"
  BY <1>2 DEF ReaddEvent
<1>5. AllRegistries' = AllRegistries /\ UniqueLoop' = UniqueLoop /\ Never' = Never
  BY <1>3, <1>4, StaticKept DEF CoreInv
<1>6. Clocking /\ Running /\ Ordered /\ CoreInv'
  BY <1>2, ReaddEventCore DEF Clocking, Running, OrderInv, Ordered, Trusted
<1>7. PICK n \in Nat : n = Len(lClockedEvents) /\ DOMAIN lClockedEvents = 1..n
  BY DEF CoreInv, LoopTypes
<1>8. /\ CurrentEvent = r /\ r \in ToSet(Pending) /\ it \in 1..n
      /\ Advanced \cap ToSet(Pending) = {} /\ Advanced \cup ToSet(Pending) = ToSet(lClockedEvents)
      /\ Advanced = {lClockedEvents[i] : i \in 1..it - 1}
      /\ ToSet(Pending) = {lClockedEvents[i] : i \in it..n}
      /\ ToSet(lClockedEvents) \subseteq AllRegistries
  BY <1>1, <1>2, <1>6, <1>7, Shares DEF CoreInv, EventsInv, PlaceInv
<1>9. /\ r \in AllRegistries \ Advanced /\ r \in Registry
      /\ \A q \in Registry : BaseCycleSeen[r] <= BaseCycleSeen[q]
      /\ \A q \in Registry \ AllRegistries : BaseCycleSeen[r] < BaseCycleSeen[q]
      /\ nBaseCycle[r] = currentBaseCycle
      /\ \A q \in AllRegistries : BaseCycleSeen[q] = currentBaseCycle <=> q \in ToSet(lClockedEvents)
  <2>1. CurrentEvent \in Registry
    BY <1>6, Current DEF CoreInv
  <2> QED BY <1>2, <1>6, <1>8, <2>1, CurrentIsEarliest
<1>10. /\ nBaseCycle'[r] = nBaseCycle[r] + nStep[r] /\ nCycle'[r] = nCycle[r] + 1
       /\ \A q \in Registry \ {r} : nBaseCycle'[q] = nBaseCycle[q] /\ nCycle'[q] = nCycle[q]
       /\ nCycle \in [Registry -> Nat] /\ nBaseCycle \in [Registry -> Nat] /\ nStep \in [Registry -> Nat]
  BY <1>2, <1>9, Advances DEF CoreInv, StaticInv, StaticTypes, LoopTypes
<1>11. \A q \in AllRegistries :
          /\ q \in Advanced => BaseCycleSeen[q] = currentBaseCycle /\ CycleSeen[q] = nCycle[q] - 1
          /\ q \notin Advanced => BaseCycleSeen[q] = nBaseCycle[q] /\ CycleSeen[q] = nCycle[q]
  <2>1. AllRegistries \subseteq Registry
    BY DEF AllRegistries
  <2> QED BY <1>4, <2>1, Seen
<1> HIDE DEF BaseCycleSeen, CycleSeen
<1>12. CASE it < n
  <2>1. pc' = "writers" /\ it' = it + 1 /\ UNCHANGED lClockedEvents
    BY <1>2, <1>7, <1>12 DEF ReaddEvent
  <2>2. Advanced' = Advanced \cup {r}
    <3>1. Advanced' = {lClockedEvents[i] : i \in 1..it}
      BY <1>2, <1>5, <1>8, <2>1 DEF Advanced
    <3>2. \A i : i \in 1..it <=> i \in 1..it - 1 \/ i = it
      BY <1>8
    <3> QED BY <1>1, <1>8, <3>1, <3>2
  <2> USE DEF BaseCycleSeen, CycleSeen
  <2>3. BaseCycleSeen' = BaseCycleSeen
    <3>1. ASSUME NEW q \in Registry
          PROVE  (IF q \in Advanced' THEN currentBaseCycle' ELSE nBaseCycle'[q])
                    = IF q \in Advanced THEN currentBaseCycle ELSE nBaseCycle[q]
      BY <1>2, <1>9, <1>10, <2>2
    <3> HIDE DEF Advanced, AllRegistries, Never
    <3> QED BY <1>4, <1>5, <3>1
  <2>4. CycleSeen' = CycleSeen
    <3>1. ASSUME NEW q \in Registry
          PROVE  (IF q \in Advanced' THEN nCycle'[q] - 1 ELSE nCycle'[q])
                    = IF q \in Advanced THEN nCycle[q] - 1 ELSE nCycle[q]
      <4>1. CASE q = r
        <5>1. nCycle[r] \in Nat
          BY <1>9, <1>10
        <5> QED BY <1>9, <1>10, <2>2, <4>1, <5>1
      <4>2. CASE q # r
        BY <1>9, <1>10, <2>2, <4>2
      <4> QED BY <4>1, <4>2
    <3> HIDE DEF Advanced, AllRegistries
    <3> QED BY <1>4, <1>5, <3>1
  <2> QED BY <1>2, <2>3, <2>4 DEF seen
<1>13. CASE it = n
  <2>1. pc' = "idle"
    BY <1>2, <1>7, <1>13 DEF ReaddEvent
  <2>2. Advanced' = {} /\ ToSet(Pending) = {r}
    BY <1>1, <1>8, <1>13, <2>1 DEF Advanced
  <2>3. PICK Due \in SUBSET AllRegistries : Due = ToSet(lClockedEvents)
    BY <1>8
  <2>4. Due = Advanced \cup {r} /\ r \in Due
    BY <1>8, <2>2, <2>3
  <2>5. BaseCycleSeen[r] = currentBaseCycle
    BY <1>9, <1>11
  <2>6. \A q \in AllRegistries : BaseCycleSeen[q] = BaseCycleSeen[r] <=> q \in Due
    BY <1>9, <2>3, <2>5
  <2>7. ASSUME NEW q \in AllRegistries
        PROVE  q \in Registry /\ nCycle[q] \in Nat /\ nBaseCycle[q] \in Nat /\ nStep[q] \in Nat /\ nStep[q] >= 100
    <3>1. q \in Registry
      BY DEF AllRegistries
    <3>2. nStep[q] >= 100
      BY <1>4, StepsFit DEF CoreInv
    <3> QED BY <1>10, <3>1, <3>2
  <2>8. ASSUME NEW c \in Callback, cbReg[c] \in Due PROVE calls[c] = CycleSeen[cbReg[c]] + 1
    <3>1. cbReg[c] \in AllRegistries
      BY <2>8
    <3>2. calls[c] = nCycle[cbReg[c]] + IF Called(c) THEN 1 ELSE 0
      BY <1>6, <3>1 DEF CoreInv, CallInv
    <3>3. Called(c) <=> cbReg[c] = r
      <4>1. ToSet(toCall) = {}
        BY <1>2 DEF ToSet
      <4> QED BY <1>2, <1>6, <1>8, <2>2, <4>1 DEF Called
    <3>4. nCycle[cbReg[c]] \in Nat
      BY <2>7, <3>1
    <3> HIDE DEF Called
    <3>5. CASE cbReg[c] = r
      <4>1. CycleSeen[cbReg[c]] = nCycle[cbReg[c]]
        BY <1>9, <1>11, <3>1, <3>5
      <4> QED BY <3>2, <3>3, <3>4, <3>5, <4>1
    <3>6. CASE cbReg[c] # r
      <4>1. CycleSeen[cbReg[c]] = nCycle[cbReg[c]] - 1
        BY <1>11, <2>4, <2>8, <3>1, <3>6
      <4> QED BY <3>2, <3>3, <3>4, <3>6, <4>1
    <3> QED BY <3>5, <3>6
  <2>9. ASSUME NEW q \in Due PROVE nCycle'[q] = CycleSeen[q] + 1 /\ nBaseCycle'[q] > BaseCycleSeen[r]
    <3>1. q \in AllRegistries
      OBVIOUS
    <3>2. CASE q = r
      BY <1>9, <1>10, <1>11, <2>5, <2>7, <3>1, <3>2
    <3>3. CASE q # r
      <4>1. q \in Advanced /\ q \in ToSet(lClockedEvents)
        BY <2>3, <2>4, <3>3
      <4>2. nCycle'[q] = CycleSeen[q] + 1
        BY <1>10, <1>11, <2>7, <3>1, <3>3, <4>1
      <4>3. Since(q) = currentBaseCycle /\ Since(q) = nBaseCycle[q] - nStep[q]
        BY <1>2, <1>6, <4>1 DEF Ordered, TurnInv, Since, Done
      <4>4. nBaseCycle'[q] = nBaseCycle[q] /\ currentBaseCycle \in Nat
        BY <1>10, <2>7, <3>1, <3>3 DEF CoreInv, LoopTypes
      <4>5. nBaseCycle'[q] > currentBaseCycle
        <5>1. nStep[q] \in Nat /\ nStep[q] >= 100 /\ nBaseCycle[q] \in Nat
          BY <2>7, <3>1
        <5>2. nBaseCycle[q] - nStep[q] = currentBaseCycle
          BY <4>3
        <5> QED BY <4>4, <5>1, <5>2
      <4> QED BY <2>5, <4>2, <4>5
    <3> QED BY <3>2, <3>3
  <2>10. ASSUME NEW q \in AllRegistries \ Due PROVE nCycle'[q] = CycleSeen[q] /\ nBaseCycle'[q] = BaseCycleSeen[q]
    BY <1>10, <1>11, <2>4, <2>7
  <2>11. Contract!Tick(BaseCycleSeen[r])
    BY <1>2, <1>4, <1>5, <1>6, <1>9, <2>2, <2>4, <2>6, <2>8, <2>9, <2>10, TickSeen
  <2> QED BY <1>9, <2>11
<1> QED BY <1>8, <1>12, <1>13

\* UniqueDomainClock completes the cycle of one registry after the other.
LEMMA UniqueAdvanceRefines ==
    ASSUME CoreInv, OrderInv, SkewsKeepFrequency, UniqueAdvance
    PROVE  \E r \in Registry : Contract!Tick(BaseCycleSeen[r])
<1>1. PICK r : r = lTimeEvents[it]
  OBVIOUS
<1>2. pc = "writers" /\ UniqueLoop /\ toCall = <<>> /\ Advance(r) /\ UNCHANGED calls
  BY <1>1 DEF UniqueAdvance, cbVars, callVars
<1>3. UNCHANGED staticVars
  BY DEF UniqueAdvance, staticVars, domainVars, listVars, stepVars, referenceVars, cbVars
<1>4. pc # "config" /\ pc' # "config"
  BY <1>2 DEF UniqueAdvance
<1>5. AllRegistries' = AllRegistries /\ UniqueLoop' = UniqueLoop /\ Never' = Never
  BY <1>3, <1>4, StaticKept DEF CoreInv
<1>6. Clocking /\ Running /\ Ordered /\ CoreInv'
  BY <1>2, UniqueAdvanceCore DEF Clocking, Running, OrderInv, Ordered, Trusted
<1>7. CurrentEvent = r
  BY <1>1, <1>2 DEF CurrentEvent
<1>8. /\ r \in AllRegistries /\ r \in Registry /\ Advanced = {}
      /\ \A q \in Registry : BaseCycleSeen[r] <= BaseCycleSeen[q]
      /\ \A q \in Registry \ AllRegistries : BaseCycleSeen[r] < BaseCycleSeen[q]
      /\ \A q \in AllRegistries \ {r} : nBaseCycle[r] # nBaseCycle[q]
  <2>1. CurrentEvent \in Registry
    BY <1>6, Current DEF CoreInv
  <2> QED BY <1>2, <1>6, <1>7, <2>1, CurrentIsEarliest
<1>9. /\ nBaseCycle'[r] = nBaseCycle[r] + nStep[r] /\ nCycle'[r] = nCycle[r] + 1
      /\ \A q \in Registry \ {r} : nBaseCycle'[q] = nBaseCycle[q] /\ nCycle'[q] = nCycle[q]
      /\ nCycle[r] \in Nat /\ nBaseCycle[r] \in Nat /\ nStep[r] \in Nat
  BY <1>2, <1>8, Advances DEF CoreInv, StaticInv
<1>10. nStep[r] >= 100
  BY <1>4, <1>8, StepsFit DEF CoreInv
<1>11. \A q \in AllRegistries : q \in Registry /\ BaseCycleSeen[q] = nBaseCycle[q] /\ CycleSeen[q] = nCycle[q]
  <2>1. AllRegistries \subseteq Registry
    BY DEF AllRegistries
  <2> QED BY <1>4, <1>8, <2>1, Seen
<1> HIDE DEF BaseCycleSeen, CycleSeen
<1>12. Advanced' = {}
  BY <1>2, <1>5 DEF Advanced
<1>13. PICK Due \in SUBSET AllRegistries : Due = {r}
  BY <1>8
<1>14. r \in Due /\ \A q \in AllRegistries : BaseCycleSeen[q] = BaseCycleSeen[r] <=> q \in Due
  BY <1>8, <1>11, <1>13
<1>15. ASSUME NEW c \in Callback, cbReg[c] \in Due PROVE calls[c] = CycleSeen[cbReg[c]] + 1
  <2>1. cbReg[c] = r
    BY <1>13, <1>15
  <2>2. calls[c] = nCycle[r] + IF Called(c) THEN 1 ELSE 0
    BY <1>6, <1>8, <2>1 DEF CoreInv, CallInv
  <2>3. Called(c)
    <3>1. ToSet(toCall) = {}
      BY <1>2 DEF ToSet
    <3> QED BY <1>2, <1>6, <1>7, <2>1, <3>1 DEF Called
  <2> HIDE DEF Called
  <2> QED BY <1>8, <1>11, <2>1, <2>2, <2>3
<1>16. \A q \in Due : nCycle'[q] = CycleSeen[q] + 1 /\ nBaseCycle'[q] > BaseCycleSeen[r]
  BY <1>8, <1>9, <1>10, <1>11, <1>13
<1>17. \A q \in AllRegistries \ Due : nCycle'[q] = CycleSeen[q] /\ nBaseCycle'[q] = BaseCycleSeen[q]
  BY <1>9, <1>11, <1>13
<1>18. Contract!Tick(BaseCycleSeen[r])
  BY <1>2, <1>4, <1>5, <1>6, <1>8, <1>12, <1>14, <1>15, <1>16, <1>17, TickSeen
<1> QED BY <1>8, <1>18

\* The sequential loops keep the promise of every clock server: each callback is called once
\* for each cycle of its registry, the earliest registries first.
THEOREM Refinement ==
    ASSUME SkewsKeepFrequency
    PROVE  Spec => ImplementsContract
<1>1. ASSUME Init PROVE Contract!Init
  <2>1. BaseCycleSeen = [r \in Registry |-> 0] /\ CycleSeen = [r \in Registry |-> 0]
    BY <1>1 DEF Init, BaseCycleSeen, CycleSeen
  <2>2. BaseCycleSeen \in [Registry -> Nat]
    BY <2>1
  <2> QED BY <1>1, <2>1, <2>2 DEF Init, Contract!Init
<1>2. ASSUME IInv, [Next]_vars PROVE [Contract!Next]_(Contract!contractVars)
  <2>1. CoreInv /\ OrderInv
    BY <1>2 DEF IInv, CoreInv
  <2>2. UNCHANGED seen => UNCHANGED Contract!contractVars
    BY DEF seen, Contract!contractVars
  <2>3. CASE UNCHANGED vars
    <3>1. UNCHANGED <<pc, lDomain, lClock, nBaseCycle, nCycle, calls, RandomClocking, uniqueClockDomain,
                      lClockedEvents, it, currentBaseCycle>>
      BY <2>3 DEF vars, domainVars, listVars, timeVars, loopVars, cbVars, callVars
    <3>2. AllRegistries' = AllRegistries /\ Advanced' = Advanced /\ Never' = Never
      BY <3>1 DEF AllRegistries, Advanced, UniqueLoop, Never, Bf
    <3> HIDE DEF AllRegistries, Advanced, Never
    <3>3. UNCHANGED seen
      BY <3>1, <3>2 DEF seen, BaseCycleSeen, CycleSeen
    <3> QED BY <2>2, <3>3
  <2>4. CASE Configure
    BY <2>1, <2>2, <2>4, ConfigureRefines
  <2>5. CASE InitClockServer \/ UnregisterAll
    BY <2>1, <2>5, RestartRefines DEF Contract!Next
  <2>6. CASE ReaddEvent \/ UniqueAdvance
    BY <2>1, <2>2, <2>6, ReaddEventRefines, UniqueAdvanceRefines DEF Contract!Next
  <2>7. CASE \/ ClockBegin \/ NextEvent \/ BeginWriters \/ UniqueBegin \/ UniqueWriters
             \/ \E d \in Domain : \E f \in ToSet(Freqs[d]) : SetDomainFrequency(d, f)
    BY <2>1, <2>2, <2>7, QuietSteps
  <2>8. CASE \E i \in DOMAIN toCall : RunCallback(i)
    BY <2>1, <2>8, RunCallbackRefines DEF Contract!Next
  <2> QED BY <1>2, <2>3, <2>4, <2>5, <2>6, <2>7, <2>8 DEF Next, ClockLoop, UniqueDomainClock, Finished
<1>3. IInv /\ [Next]_vars => [Contract!Next]_(Contract!contractVars)
  BY <1>2
<1> QED BY <1>1, <1>3, Inductive, PTL DEF ImplementsContract, Contract!Spec, Spec

=============================================================================
