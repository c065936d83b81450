---------------------------- MODULE AdminLoginProofs ----------------------------
(***************************************************************************)
(* Theorems about AdminLogin, for any number of logins, clients, networks  *)
(* and any limits: how often a client may fail, and who is locked out; and *)
(* about the matching of addresses, of any width, that tells the clients   *)
(* apart.  In this order: induction, addresses, the count of failures, the *)
(* types, the invariant and its consequences.                              *)
(*                                                                         *)
(* What a recursive function computes is proved by induction over a set of *)
(* naturals, from the theorem that every set of them has a least one.      *)
(***************************************************************************)
EXTENDS AdminLogin, FiniteSetTheorems, WellFoundedInduction, TLAPS

(* Induction over the naturals, from the well-foundedness of <.            *)
LEMMA NatLess == IsWellFoundedOn({p \in Nat \X Nat : p[1] < p[2]}, Nat)
BY NatLessThanWellFounded, Zenon DEF OpToRel

LEMMA NatInduces ==
  ASSUME NEW T, 0 \in T, \A n \in Nat : n \in T => n + 1 \in T
  PROVE  Nat \subseteq T
<1> DEFINE Bad == Nat \ T
<1> SUFFICES ASSUME Bad # {} PROVE FALSE
  OBVIOUS
<1>1. PICK x \in Bad : \A y \in Bad : ~ (<<y, x>> \in {p \in Nat \X Nat : p[1] < p[2]})
  BY WFMin, NatLess
<1>2. x - 1 \in Bad
  OBVIOUS
<1>3. <<x - 1, x>> \in {p \in Nat \X Nat : p[1] < p[2]}
  BY <1>2
<1> QED
  BY <1>1, <1>2, <1>3

(* The same up to a bound.                                                 *)
LEMMA UpToInduces ==
  ASSUME NEW N \in Nat, NEW T, 0 \in T, \A n \in 0 .. N - 1 : n \in T => n + 1 \in T
  PROVE  0 .. N \subseteq T
<1> DEFINE U == {n \in Nat : n <= N => n \in T}
<1>1. 0 \in U
  OBVIOUS
<1>2. \A n \in Nat : n \in U => n + 1 \in U
  OBVIOUS
<1> HIDE DEF U
<1>3. Nat \subseteq U
  BY <1>1, <1>2, NatInduces
<1> QED
  BY <1>3 DEF U

(* "h" follows the recursion: c first, then step[<<h[i - 1], i>>].         *)
Follows(h, n, c, step) ==
  h = [i \in 0 .. n |-> IF i = 0 THEN c ELSE step[<<h[i - 1], i>>]]

LEMMA SomethingFollows ==
  ASSUME NEW S, NEW c \in S, NEW step \in [S \X Nat -> S], NEW N \in Nat
  PROVE  \E h \in [0 .. N -> S] : Follows(h, N, c, step)
<1> DEFINE T == {n \in Nat : \E h \in [0 .. n -> S] : Follows(h, n, c, step)}
<1>1. 0 \in T
  <2> DEFINE h == [i \in 0 .. 0 |-> c]
  <2>1. h \in [0 .. 0 -> S] /\ Follows(h, 0, c, step)
    BY DEF Follows
  <2> QED
    BY <2>1
<1>2. ASSUME NEW n \in Nat, n \in T PROVE n + 1 \in T
  <2>1. PICK h \in [0 .. n -> S] : Follows(h, n, c, step)
    BY <1>2
  <2> DEFINE k == [i \in 0 .. n + 1 |-> IF i = n + 1 THEN step[<<h[n], n + 1>>] ELSE h[i]]
  <2>2. k \in [0 .. n + 1 -> S]
    OBVIOUS
  <2>3. \A i \in 0 .. n + 1 : k[i] = IF i = 0 THEN c ELSE step[<<k[i - 1], i>>]
    <3> SUFFICES ASSUME NEW i \in 0 .. n + 1
                 PROVE  k[i] = IF i = 0 THEN c ELSE step[<<k[i - 1], i>>]
      OBVIOUS
    <3>1. CASE i = n + 1
      <4>1. k[i - 1] = h[n] /\ k[i] = step[<<h[n], i>>]
        BY <3>1
      <4>2. i # 0
        BY <3>1
      <4> HIDE DEF k
      <4> QED
        BY <4>1, <4>2
    <3>2. CASE i \in 0 .. n
      <4>1. h[i] = IF i = 0 THEN c ELSE step[<<h[i - 1], i>>]
        BY <2>1, <3>2 DEF Follows
      <4>2. k[i] = h[i] /\ (i # 0 => k[i - 1] = h[i - 1])
        BY <3>2
      <4> QED
        BY <4>1, <4>2
    <3> QED
      BY <3>1, <3>2
  <2> HIDE DEF k
  <2>4. Follows(k, n + 1, c, step)
    BY <2>2, <2>3 DEF Follows
  <2> QED
    BY <2>2, <2>4
<1> HIDE DEF T
<1>3. Nat \subseteq T
  BY <1>1, <1>2, NatInduces
<1> QED
  BY <1>3 DEF T

LEMMA FollowersAgree ==
  ASSUME NEW c, NEW step, NEW n \in Nat, NEW m \in Nat, NEW h, NEW k, n <= m,
         Follows(h, n, c, step), Follows(k, m, c, step)
  PROVE  \A i \in 0 .. n : h[i] = k[i]
<1> DEFINE T == {i \in 0 .. n : h[i] = k[i]}
<1>1. 0 \in T
  BY DEF Follows
<1>2. ASSUME NEW i \in 0 .. n - 1, i \in T PROVE i + 1 \in T
  <2>1. h[i] = k[i]
    BY <1>2
  <2>2. h[i + 1] = step[<<h[i + 1 - 1], i + 1>>]
    BY DEF Follows
  <2>3. k[i + 1] = step[<<k[i + 1 - 1], i + 1>>]
    BY DEF Follows
  <2>4. i + 1 - 1 = i /\ i + 1 \in 0 .. n
    OBVIOUS
  <2> QED
    BY <2>1, <2>2, <2>3, <2>4
<1> HIDE DEF T
<1>3. 0 .. n \subseteq T
  BY <1>1, <1>2, UpToInduces
<1> QED
  BY <1>3 DEF T
--------------------------------------------------------------------------------
(* Quotients of naturals.                                                  *)
LEMMA Quotient ==
  ASSUME NEW n \in Nat, NEW d \in Nat \ {0}
  PROVE  n \div d \in Nat /\ (n % d) \in 0 .. d - 1 /\ n = d * (n \div d) + (n % d)
OBVIOUS

LEMMA TimesGrows ==
  ASSUME NEW a \in Nat, NEW b \in Nat, NEW c \in Nat, a <= b
  PROVE  a * c <= b * c /\ c * a <= c * b
OBVIOUS

LEMMA QuotientIs ==
  ASSUME NEW d \in Nat \ {0}, NEW q \in Nat, NEW r \in 0 .. d - 1
  PROVE  (d * q + r) \div d = q
OBVIOUS

LEMMA QuotientOfQuotient ==
  ASSUME NEW n \in Nat, NEW a \in Nat \ {0}, NEW c \in Nat \ {0}
  PROVE  (n \div a) \div c = n \div (a * c)
<1> DEFINE q == n \div a
           u == q \div c
           r == n % a
           v == q % c
<1>1. q \in Nat /\ r \in 0 .. a - 1 /\ n = a * q + r
  BY Quotient
<1>2. u \in Nat /\ v \in 0 .. c - 1 /\ q = c * u + v
  BY <1>1, Quotient
<1> HIDE DEF q, u, r, v
<1>3. a * v <= a * (c - 1)
  BY <1>2, TimesGrows
<1>4. a * v + r \in 0 .. a * c - 1 /\ a * c \in Nat \ {0}
  <2>1. a * (c - 1) = a * c - a /\ a * v \in Nat /\ a * c \in Nat
    BY <1>2
  <2>2. a * c # 0
    OBVIOUS
  <2> QED
    BY <1>1, <1>3, <2>1, <2>2
<1>5. n = (a * c) * u + (a * v + r)
  <2>1. a * (c * u + v) = (a * c) * u + a * v
    BY <1>2
  <2> QED
    BY <1>1, <1>2, <2>1
<1>6. ((a * c) * u + (a * v + r)) \div (a * c) = u
  BY <1>2, <1>4, QuotientIs
<1> QED
  BY <1>5, <1>6 DEF u, q

(* The powers of two.                                                      *)
LEMMA PowerDef ==
  /\ Power2 \in [Nat -> Nat \ {0}] /\ Power2[0] = 1
  /\ \A n \in Nat : Power2[n + 1] = 2 * Power2[n]
<1> DEFINE step == [x \in Nat \X Nat |-> 2 * x[1]]
           Powers(g) == g = [n \in Nat |-> IF n = 0 THEN 1 ELSE 2 * g[n - 1]]
           Up(n) == CHOOSE h : h \in [0 .. n -> Nat] /\ Follows(h, n, 1, step)
           g == [n \in Nat |-> Up(n)[n]]
<1>1. step \in [Nat \X Nat -> Nat] /\ \A m, n \in Nat : step[<<m, n>>] = 2 * m
  OBVIOUS
<1> HIDE DEF step
<1>2. ASSUME NEW n \in Nat PROVE Up(n) \in [0 .. n -> Nat] /\ Follows(Up(n), n, 1, step)
  BY <1>1, SomethingFollows, 1 \in Nat
<1> HIDE DEF Up
<1>3. g \in [Nat -> Nat] /\ \A n \in Nat : g[n] = Up(n)[n]
  BY <1>2
<1> HIDE DEF g
<1>4. ASSUME NEW n \in Nat PROVE g[n] = IF n = 0 THEN 1 ELSE 2 * g[n - 1]
  <2>3. \A i \in 0 .. n : Up(n)[i] = IF i = 0 THEN 1 ELSE step[<<Up(n)[i - 1], i>>]
    <3> DEFINE h == Up(n)
    <3>1. h = [i \in 0 .. n |-> IF i = 0 THEN 1 ELSE step[<<h[i - 1], i>>]]
      BY <1>2 DEF Follows
    <3> HIDE DEF h
    <3>2. \A i \in 0 .. n : h[i] = IF i = 0 THEN 1 ELSE step[<<h[i - 1], i>>]
      BY <3>1
    <3> QED
      BY <3>2 DEF h
  <2>1. CASE n = 0
    BY <1>3, <2>1, <2>3
  <2>2. CASE n # 0
    <3>1. n - 1 \in Nat /\ n - 1 <= n /\ n - 1 \in 0 .. n - 1
      BY <2>2
    <3>2. Up(n - 1)[n - 1] = Up(n)[n - 1]
      BY <1>2, <3>1, FollowersAgree
    <3>3. Up(n)[n] = step[<<Up(n)[n - 1], n>>]
      BY <2>2, <2>3
    <3>4. Up(n)[n - 1] \in Nat
      BY <1>2, <2>2
    <3> QED
      BY <1>1, <1>3, <2>2, <3>1, <3>2, <3>3, <3>4
  <2> QED
    BY <2>1, <2>2
<1>5. Powers(g)
  <2>1. DOMAIN g = Nat
    BY <1>3
  <2> QED
    BY <1>3, <1>4, <2>1
<1>6. Power2 = CHOOSE h : Powers(h)
  BY DEF Power2
<1>7. Powers(Power2)
  <2> HIDE DEF Powers
  <2> QED
    BY <1>5, <1>6
<1>8. Power2[0] = 1 /\ \A n \in Nat : Power2[n + 1] = 2 * Power2[n]
  <2>1. ASSUME NEW n \in Nat PROVE Power2[n + 1] = 2 * Power2[n]
    <3>1. Power2[n + 1] = 2 * Power2[n + 1 - 1] /\ n + 1 - 1 = n
      BY <1>7
    <3> QED
      BY <3>1
  <2> QED
    BY <1>7, <2>1
<1>9. Power2 \in [Nat -> Nat \ {0}]
  <2> DEFINE T == {n \in Nat : Power2[n] \in Nat \ {0}}
  <2>1. 0 \in T /\ \A n \in Nat : n \in T => n + 1 \in T
    BY <1>8
  <2> HIDE DEF T
  <2>2. Nat \subseteq T
    BY <2>1, NatInduces
  <2>3. \A n \in Nat : Power2[n] \in Nat \ {0}
    BY <2>2 DEF T
  <2> QED
    BY <1>7, <2>3
<1> QED
  BY <1>8, <1>9

LEMMA PowerOfSum ==
  ASSUME NEW m \in Nat, NEW n \in Nat
  PROVE  Power2[m + n] = Power2[m] * Power2[n]
<1> DEFINE T == {i \in Nat : Power2[m + i] = Power2[m] * Power2[i]}
<1>1. 0 \in T
  BY PowerDef
<1>2. ASSUME NEW i \in Nat, i \in T PROVE i + 1 \in T
  <2>1. Power2[m + i + 1] = 2 * Power2[m + i] /\ Power2[i + 1] = 2 * Power2[i]
    BY PowerDef
  <2>2. Power2[m] \in Nat /\ Power2[i] \in Nat /\ m + (i + 1) = m + i + 1
    BY PowerDef
  <2>3. 2 * (Power2[m] * Power2[i]) = Power2[m] * (2 * Power2[i])
    BY <2>2
  <2> QED
    BY <1>2, <2>1, <2>2, <2>3
<1> HIDE DEF T
<1>3. Nat \subseteq T
  BY <1>1, <1>2, NatInduces
<1> QED
  BY <1>3 DEF T

(* The digits of an address.                                               *)
LEMMA ListIsSeq ==
  ASSUME NEW n \in Nat, NEW bits \in Nat, NEW list \in Lists(n, bits)
  PROVE  /\ list \in Seq(Nat) /\ Len(list) = n /\ DOMAIN list = 1 .. n
         /\ \A i \in 1 .. n : list[i] \in 0 .. Power2[bits] - 1 /\ list[i] \in Nat
<1>1. list \in [1 .. n -> 0 .. Power2[bits] - 1]
  BY DEF Lists
<1>2. \A i \in 1 .. n : list[i] \in 0 .. Power2[bits] - 1 /\ list[i] \in Nat
  <2>1. Power2[bits] \in Nat
    BY PowerDef
  <2> QED
    BY <1>1, <2>1
<1>3. list \in Seq(Nat)
  BY <1>1, <1>2
<1> QED
  BY <1>1, <1>2, <1>3

LEMMA NumbersDef ==
  ASSUME NEW digits \in Seq(Nat), NEW bits \in Nat
  PROVE  /\ Numbers(digits, bits) \in [0 .. Len(digits) -> Nat]
         /\ Numbers(digits, bits)[0] = 0
         /\ \A i \in 0 .. Len(digits) - 1 :
              Numbers(digits, bits)[i + 1]
                = Numbers(digits, bits)[i] * Power2[bits] + digits[i + 1]
<1> DEFINE N == Len(digits)
           B == Power2[bits]
           step == [x \in Nat \X Nat |-> IF x[2] \in 1 .. N THEN x[1] * B + digits[x[2]] ELSE 0]
           Values(h) == h = [i \in 0 .. N |-> IF i = 0 THEN 0 ELSE h[i - 1] * B + digits[i]]
<1>1. N \in Nat /\ B \in Nat /\ \A i \in 1 .. N : digits[i] \in Nat
  <2>1. B \in Nat
    BY PowerDef
  <2>2. N \in Nat /\ \A i \in 1 .. N : digits[i] \in Nat
    OBVIOUS
  <2> QED
    BY <2>1, <2>2
<1>6. Numbers(digits, bits) = CHOOSE h : Values(h)
  BY DEF Numbers
<1> HIDE DEF N, B
<1>2. /\ step \in [Nat \X Nat -> Nat]
      /\ \A m \in Nat, i \in 1 .. N : step[<<m, i>>] = m * B + digits[i]
  <2>1. \A m \in Nat, i \in 1 .. N : m * B + digits[i] \in Nat
    BY <1>1
  <2>2. \A m, i \in Nat : step[<<m, i>>] = IF i \in 1 .. N THEN m * B + digits[i] ELSE 0
    OBVIOUS
  <2>3. \A x \in Nat \X Nat : step[x] \in Nat
    <3>1. \A x \in Nat \X Nat : x[1] \in Nat /\ x[2] \in Nat
      OBVIOUS
    <3> QED
      BY <2>1, <3>1
  <2>4. \A i \in 1 .. N : i \in Nat
    OBVIOUS
  <2> HIDE DEF step
  <2>5. \A m \in Nat, i \in 1 .. N : step[<<m, i>>] = m * B + digits[i]
    BY <2>2, <2>4
  <2>6. step \in [Nat \X Nat -> Nat]
    BY <2>3 DEF step
  <2> QED
    BY <2>5, <2>6
<1> HIDE DEF step
<1>3. PICK h \in [0 .. N -> Nat] : Follows(h, N, 0, step)
  BY <1>1, <1>2, SomethingFollows, 0 \in Nat
<1>4. \A i \in 0 .. N : h[i] = IF i = 0 THEN 0 ELSE h[i - 1] * B + digits[i]
  <2>1. h = [i \in 0 .. N |-> IF i = 0 THEN 0 ELSE step[<<h[i - 1], i>>]]
    BY <1>3 DEF Follows
  <2>2. \A i \in 0 .. N : h[i] = IF i = 0 THEN 0 ELSE step[<<h[i - 1], i>>]
    BY <2>1
  <2>3. \A i \in 0 .. N : i # 0 => i \in 1 .. N /\ h[i - 1] \in Nat
    BY <1>1, <1>3
  <2> QED
    BY <1>2, <2>2, <2>3
<1>5. Values(h)
  BY <1>3, <1>4
<1> DEFINE v == Numbers(digits, bits)
<1>7. Values(v)
  <2> HIDE DEF Values
  <2> QED
    BY <1>5, <1>6
<1> HIDE DEF v
<1>8. v[0] = 0 /\ \A i \in 0 .. N - 1 : v[i + 1] = v[i] * B + digits[i + 1]
  <2>1. ASSUME NEW i \in 0 .. N - 1 PROVE v[i + 1] = v[i] * B + digits[i + 1]
    <3>1. v[i + 1] = v[i + 1 - 1] * B + digits[i + 1] /\ i + 1 - 1 = i
      BY <1>1, <1>7
    <3> QED
      BY <3>1
  <2> QED
    BY <1>1, <1>7, <2>1
<1>9. v \in [0 .. N -> Nat]
  <2> DEFINE T == {i \in 0 .. N : v[i] \in Nat}
  <2>1. 0 \in T
    BY <1>1, <1>8
  <2>2. ASSUME NEW i \in 0 .. N - 1, i \in T PROVE i + 1 \in T
    <3>1. v[i] \in Nat /\ i + 1 \in 1 .. N /\ i + 1 \in 0 .. N
      BY <1>1, <2>2
    <3>2. v[i + 1] = v[i] * B + digits[i + 1] /\ digits[i + 1] \in Nat
      BY <1>1, <1>8, <3>1
    <3>3. v[i] * B \in Nat
      BY <1>1, <3>1
    <3> QED
      BY <3>1, <3>2, <3>3
  <2> HIDE DEF T
  <2>3. 0 .. N \subseteq T
    BY <1>1, <2>1, <2>2, UpToInduces
  <2>4. \A i \in 0 .. N : v[i] \in Nat
    BY <2>3 DEF T
  <2> QED
    BY <1>7, <2>4
<1> QED
  BY <1>8, <1>9 DEF v, N, B

(* What digits of "bits" bits stand for: the first ones are the quotient   *)
(* by what the others can stand for. *)
LEMMA FirstDigits ==
  ASSUME NEW n \in Nat, NEW bits \in Nat, NEW digits \in Lists(n, bits),
         NEW i \in 0 .. n, NEW m \in 0 .. n - i
  PROVE  LET v == Numbers(digits, bits) IN
         /\ v[i] \in Nat /\ v[i + m] \in Nat
         /\ v[i] * Power2[m * bits] <= v[i + m]
         /\ v[i + m] < (v[i] + 1) * Power2[m * bits]
<1> DEFINE v == Numbers(digits, bits)
           B == Power2[bits]
           P(j) == Power2[j * bits]
           T == {j \in 0 .. n - i : v[i] * P(j) <= v[i + j] /\ v[i + j] < (v[i] + 1) * P(j)}
<1>1. /\ \A j \in 0 .. n : v[j] \in Nat
      /\ \A j \in 0 .. n - 1 : /\ v[j + 1] = v[j] * B + digits[j + 1]
                               /\ digits[j + 1] \in 0 .. B - 1
  <2>1. digits \in Seq(Nat) /\ Len(digits) = n /\ \A j \in 1 .. n : digits[j] \in 0 .. B - 1
    BY ListIsSeq
  <2> QED
    <3>1. v \in [0 .. n -> Nat]
      BY <2>1, NumbersDef
    <3>2. \A j \in 0 .. n - 1 : v[j + 1] = v[j] * B + digits[j + 1]
      BY <2>1, NumbersDef
    <3>3. \A j \in 0 .. n - 1 : j + 1 \in 1 .. n
      OBVIOUS
    <3> HIDE DEF v, B
    <3> QED
      BY <2>1, <3>1, <3>2, <3>3
<1>2. P(0) = 1 /\ B \in Nat \ {0} /\ \A j \in Nat : P(j) \in Nat \ {0} /\ P(j + 1) = P(j) * B
  <2>1. ASSUME NEW j \in Nat PROVE P(j + 1) = P(j) * B
    <3>1. j * bits \in Nat /\ (j + 1) * bits = j * bits + bits
      OBVIOUS
    <3> QED
      BY <3>1, PowerOfSum
  <2>2. ASSUME NEW j \in Nat PROVE P(j) \in Nat \ {0}
    <3>1. j * bits \in Nat
      OBVIOUS
    <3> QED
      BY <3>1, PowerDef
  <2>3. 0 * bits = 0
    OBVIOUS
  <2> QED
    BY <2>1, <2>2, <2>3, PowerDef
<1> HIDE DEF v, B, P
<1>3. 0 \in T
  <2>1. v[i] \in Nat /\ i + 0 = i
    BY <1>1
  <2> QED
    BY <1>2, <2>1
<1>4. ASSUME NEW j \in 0 .. n - i - 1, j \in T PROVE j + 1 \in T
  <2>1. /\ i + j \in 0 .. n - 1 /\ i + (j + 1) = i + j + 1 /\ i \in 0 .. n
        /\ j \in Nat /\ i + j \in 0 .. n /\ j + 1 \in 0 .. n - i
    OBVIOUS
  <2> DEFINE a == v[i]
             c == v[i + j]
             d == digits[i + j + 1]
             q == P(j)
  <2>2. v[i + (j + 1)] = c * B + d /\ d \in 0 .. B - 1 /\ a \in Nat /\ c \in Nat
    BY <1>1, <2>1
  <2>3. a * q <= c /\ c < (a + 1) * q
    BY <1>4
  <2>4. q \in Nat /\ B \in Nat \ {0} /\ P(j + 1) = q * B
    BY <1>2, <2>1
  <2> HIDE DEF a, c, d, q
  <2>5. (a * q) * B <= c * B /\ (c + 1) * B <= ((a + 1) * q) * B
    BY <2>2, <2>3, <2>4
  <2>6. (a * q) * B = a * (q * B) /\ ((a + 1) * q) * B = (a + 1) * (q * B)
        /\ (c + 1) * B = c * B + B
    BY <2>2, <2>4
  <2>7. a * (q * B) <= c * B + d /\ c * B + d < (a + 1) * (q * B)
    BY <2>2, <2>4, <2>5, <2>6
  <2> QED
    BY <2>1, <2>2, <2>4, <2>7 DEF a
<1> HIDE DEF T
<1>5. 0 .. n - i \subseteq T
  BY <1>3, <1>4, UpToInduces
<1>6. v[i] \in Nat /\ v[i + m] \in Nat
  <2>1. i \in 0 .. n /\ i + m \in 0 .. n
    OBVIOUS
  <2> QED
    BY <1>1, <2>1
<1> QED
  BY <1>5, <1>6 DEF T, v, P

LEMMA FirstDigitsQuotient ==
  ASSUME NEW n \in Nat, NEW bits \in Nat, NEW digits \in Lists(n, bits), NEW i \in 0 .. n
  PROVE  /\ Number(digits, bits) \in Nat
         /\ Number(digits, bits) < Power2[n * bits]
         /\ Numbers(digits, bits)[i] \in Nat
         /\ Number(digits, bits) \div Power2[(n - i) * bits] = Numbers(digits, bits)[i]
<1> DEFINE v == Numbers(digits, bits)
           P == Power2[(n - i) * bits]
<1>1. Len(digits) = n /\ digits \in Seq(Nat)
  BY ListIsSeq
<1>2. /\ v[i] \in Nat /\ v[i + (n - i)] \in Nat
      /\ v[i] * P <= v[i + (n - i)] /\ v[i + (n - i)] < (v[i] + 1) * P
  BY FirstDigits, n - i \in 0 .. n - i
<1>3. v[0 + n] < (v[0] + 1) * Power2[n * bits]
  BY FirstDigits, 0 \in 0 .. n, n \in 0 .. n - 0
<1>4. v[0] = 0
  BY <1>1, NumbersDef
<1>5. Number(digits, bits) = v[n] /\ i + (n - i) = n /\ 0 + n = n
  BY <1>1 DEF Number
<1>6. P \in Nat \ {0} /\ Power2[n * bits] \in Nat
  <2>1. (n - i) * bits \in Nat /\ n * bits \in Nat
    OBVIOUS
  <2> QED
    BY <2>1, PowerDef
<1> HIDE DEF P, v
<1>7. v[n] \div P = v[i]
  <2>1. v[n] - P * v[i] \in 0 .. P - 1 /\ v[n] = P * v[i] + (v[n] - P * v[i])
    BY <1>2, <1>5, <1>6
  <2> QED
    BY <1>2, <1>6, <2>1, QuotientIs
<1>8. v[n] < Power2[n * bits]
  BY <1>3, <1>4, <1>5, <1>6
<1> QED
  BY <1>2, <1>5, <1>7, <1>8 DEF P, v

(* Of an IPv4 address the mask leaves what the network's range leaves.     *)
LEMMA MaskIsQuotient ==
  ASSUME NEW m \in Nat, NEW n \in Nat, NEW d \in Nat \ {0}
  PROVE  m - (m % d) = n - (n % d) <=> m \div d = n \div d
<1>1. /\ m \div d \in Nat /\ m - (m % d) = d * (m \div d)
      /\ n \div d \in Nat /\ n - (n % d) = d * (n \div d)
  BY Quotient
<1>2. ASSUME NEW a \in Nat, NEW b \in Nat, d * a = d * b PROVE a = b
  <2>1. (d * a + 0) \div d = a /\ (d * b + 0) \div d = b
    BY QuotientIs, 0 \in 0 .. d - 1
  <2>2. d * a + 0 = d * b + 0
    BY <1>2
  <2> QED
    BY <2>1, <2>2
<1> QED
  BY <1>1, <1>2

LEMMA SmallQuotient ==
  ASSUME NEW n \in Nat, NEW d \in Nat, n < d
  PROVE  n \div d = 0
<1>1. d \in Nat \ {0} /\ n \in 0 .. d - 1 /\ d * 0 + n = n
  OBVIOUS
<1> QED
  BY <1>1, QuotientIs, 0 \in Nat

(* Also for prefix 0, where the shift would take its count modulo the width. *)
LEMMA V4Matches ==
  ASSUME NEW text \in Lists(Octets, OctetBits), NEW cidr,
         cidr.network.text \in Lists(Octets, OctetBits), cidr.prefix \in 0 .. V4Bits
  PROVE  IsIPv4InCIDR(text, cidr)
           <=> Number(text, OctetBits) \div Power2[V4Bits - cidr.prefix]
                 = Number(cidr.network.text, OctetBits) \div Power2[V4Bits - cidr.prefix]
<1> DEFINE m == Number(text, OctetBits)
           n == Number(cidr.network.text, OctetBits)
           count == V4Bits - cidr.prefix
<1>1. /\ m \in Nat /\ m < Power2[V4Bits]
      /\ n \in Nat /\ n < Power2[V4Bits] /\ V4Bits \in Nat
  <2>1. Octets \in Nat /\ OctetBits \in Nat /\ 0 \in 0 .. Octets
    BY WidthsAssumption
  <2> QED
    BY <2>1, FirstDigitsQuotient DEF V4Bits
<1>2. count \in Nat /\ Power2[count] \in Nat \ {0} /\ Power2[V4Bits] \in Nat
  BY <1>1, PowerDef
<1>3. IsIPv4InCIDR(text, cidr) <=> cidr.prefix = 0 \/ Masked(m, count) = Masked(n, count)
  BY DEF IsIPv4InCIDR
<1>4. cidr.prefix = 0 => count = V4Bits
  BY <1>1
<1>5. cidr.prefix # 0 => count \in 0 .. V4Bits - 1
  BY <1>1
<1> HIDE DEF m, n, count
<1>6. CASE cidr.prefix = 0
  BY <1>1, <1>2, <1>3, <1>4, <1>6, SmallQuotient DEF count, m, n
<1>7. CASE cidr.prefix # 0
  <2>1. (count % V4Bits) = count
    BY <1>1, <1>5, <1>7
  <2>2. Masked(m, count) = m - (m % Power2[count]) /\ Masked(n, count) = n - (n % Power2[count])
    BY <2>1 DEF Masked
  <2>3. Masked(m, count) = Masked(n, count) <=> m \div Power2[count] = n \div Power2[count]
    <3> DEFINE d == Power2[count]
    <3>1. d \in Nat \ {0}
      BY <1>2
    <3>2. m - (m % d) = n - (n % d) <=> m \div d = n \div d
      <4> HIDE DEF d
      <4> QED
        BY <1>1, <3>1, MaskIsQuotient
    <3> QED
      BY <2>2, <3>2
  <2> QED
    BY <1>3, <1>7, <2>3 DEF count, m, n
<1> QED
  BY <1>6, <1>7

--------------------------------------------------------------------------------
(* The bits of an IPv6 address are those of the number it stands for: the  *)
(* first ones are its quotient by what the others can stand for.           *)
Leading(groups, p) == Number(groups, GroupBits) \div Power2[V6Bits - p]

LEMMA LeadingTypes ==
  ASSUME NEW groups \in Lists(Groups, GroupBits)
  PROVE  /\ V6Bits \in Nat /\ Leading(groups, 0) = 0
         /\ \A p \in 0 .. V6Bits : Leading(groups, p) \in Nat
<1>1. /\ Groups \in Nat /\ GroupBits \in Nat /\ 0 \in 0 .. Groups
      /\ V6Bits = Groups * GroupBits /\ V6Bits \in Nat
  BY WidthsAssumption DEF V6Bits
<1>2. /\ Number(groups, GroupBits) \in Nat /\ Number(groups, GroupBits) < Power2[V6Bits]
  BY <1>1, FirstDigitsQuotient
<1>3. \A p \in 0 .. V6Bits : V6Bits - p \in Nat /\ Power2[V6Bits - p] \in Nat \ {0}
  BY <1>1, PowerDef
<1>4. Leading(groups, 0) = 0
  <2>1. V6Bits - 0 = V6Bits /\ Power2[V6Bits] \in Nat
    BY <1>1, PowerDef
  <2> QED
    BY <1>2, <2>1, SmallQuotient DEF Leading
<1>5. ASSUME NEW p \in 0 .. V6Bits PROVE Leading(groups, p) \in Nat
  BY <1>2, <1>3, Quotient DEF Leading
<1> QED
  BY <1>1, <1>4, <1>5

(* The group and the place in it of a bit. *)
LEMMA GroupOfBit ==
  ASSUME NEW p \in 0 .. V6Bits - 1
  PROVE  /\ p \div GroupBits \in 0 .. Groups - 1 /\ (p % GroupBits) \in 0 .. GroupBits - 1
         /\ V6Bits - (p + 1)
              = (Groups - (p \div GroupBits + 1)) * GroupBits
                  + (GroupBits - 1 - (p % GroupBits))
<1>1. Groups \in Nat \ {0} /\ GroupBits \in Nat \ {0} /\ V6Bits = Groups * GroupBits
  BY WidthsAssumption DEF V6Bits
<1> DEFINE q == p \div GroupBits
           s == p % GroupBits
<1>2. V6Bits \in Nat /\ p \in Nat
  BY <1>1
<1>3. q \in Nat /\ s \in 0 .. GroupBits - 1 /\ p = GroupBits * q + s
  BY <1>1, <1>2, Quotient
<1> HIDE DEF q, s
<1>4. q < Groups
  <2> SUFFICES ASSUME Groups <= q PROVE FALSE
    BY <1>1, <1>3
  <2>1. GroupBits * Groups <= GroupBits * q
    BY <1>1, <1>3, TimesGrows
  <2> QED
    BY <1>1, <1>2, <1>3, <2>1
<1>5. V6Bits - (p + 1) = (Groups - (q + 1)) * GroupBits + (GroupBits - 1 - s)
  <2>1. (Groups - (q + 1)) * GroupBits = Groups * GroupBits - GroupBits * q - GroupBits
    BY <1>1, <1>3
  <2> QED
    BY <1>1, <1>2, <1>3, <2>1
<1> QED
  BY <1>1, <1>3, <1>4, <1>5 DEF q, s

LEMMA BitIsOfLeading ==
  ASSUME NEW groups \in Lists(Groups, GroupBits), NEW p \in 0 .. V6Bits - 1
  PROVE  Bits(groups)[p + 1] = Leading(groups, p + 1) % 2
<1> DEFINE v == Numbers(groups, GroupBits)
           q == p \div GroupBits
           s == p % GroupBits
           t == GroupBits - 1 - s
           d == groups[q + 1]
<1>1. /\ Groups \in Nat \ {0} /\ GroupBits \in Nat \ {0}
      /\ V6Bits = Groups * GroupBits /\ V6Bits \in Nat
  BY WidthsAssumption DEF V6Bits
<1>2. /\ q \in 0 .. Groups - 1 /\ s \in 0 .. GroupBits - 1
      /\ V6Bits - (p + 1) = (Groups - (q + 1)) * GroupBits + t
  BY GroupOfBit
<1>3. groups \in Seq(Nat) /\ Len(groups) = Groups /\ d \in Nat
  BY <1>1, <1>2, ListIsSeq
<1>4. Bits(groups)[p + 1] = (d \div Power2[t]) % 2
  <2>1. p + 1 \in 1 .. Len(groups) * GroupBits /\ p + 1 - 1 = p
    BY <1>1, <1>3
  <2> QED
    BY <2>1 DEF Bits
<1> HIDE DEF q, s, d
<1>5. t \in Nat /\ t + (s + 1) = GroupBits /\ s \in Nat
  BY <1>1, <1>2
<1>6. v[q] \in Nat /\ v[q + 1] \in Nat /\ v[q + 1] = v[q] * Power2[GroupBits] + d
  <2>1. v[q] \in Nat /\ v[q + 1] \in Nat
    BY <1>1, <1>2, FirstDigitsQuotient, q \in 0 .. Groups, q + 1 \in 0 .. Groups
  <2>2. v[q + 1] = v[q] * Power2[GroupBits] + groups[q + 1]
    BY <1>1, <1>2, <1>3, NumbersDef
  <2> QED
    BY <2>1, <2>2 DEF d
<1>7. Leading(groups, p + 1) = v[q + 1] \div Power2[t]
  <2> DEFINE a == (Groups - (q + 1)) * GroupBits
  <2>1. a \in Nat
    <3>1. Groups - (q + 1) \in Nat
      BY <1>1, <1>2
    <3> QED
      BY <1>1, <3>1
  <2>2. Number(groups, GroupBits) \in Nat /\ Number(groups, GroupBits) \div Power2[a] = v[q + 1]
    BY <1>1, <1>2, FirstDigitsQuotient, q + 1 \in 0 .. Groups
  <2> HIDE DEF a, v, t
  <2>3. /\ Power2[a] \in Nat \ {0} /\ Power2[t] \in Nat \ {0}
        /\ Power2[a + t] = Power2[a] * Power2[t]
    BY <1>5, <2>1, PowerDef, PowerOfSum
  <2>4. V6Bits - (p + 1) = a + t
    BY <1>2 DEF a
  <2> QED
    BY <2>2, <2>3, <2>4, QuotientOfQuotient DEF Leading
<1> HIDE DEF v, t
<1> DEFINE T == Power2[t]
           S == Power2[s]
           u == d \div T
           w == d % T
<1>8. T \in Nat \ {0} /\ S \in Nat \ {0} /\ Power2[GroupBits] = T * (2 * S)
  <2>1. Power2[s + 1] = 2 * S
    BY <1>5, PowerDef
  <2>2. Power2[t + (s + 1)] = T * Power2[s + 1]
    BY <1>5, PowerOfSum, s + 1 \in Nat
  <2> QED
    BY <1>5, <2>1, <2>2, PowerDef
<1> HIDE DEF T, S
<1>9. u \in Nat /\ w \in 0 .. T - 1 /\ d = T * u + w
  BY <1>3, <1>8, Quotient
<1> HIDE DEF u, w
<1>10. v[q + 1] \div T = 2 * (v[q] * S) + u
  <2> DEFINE x == v[q]
  <2>1. x \in Nat /\ v[q + 1] = x * (T * (2 * S)) + (T * u + w)
    BY <1>6, <1>8, <1>9
  <2> HIDE DEF x
  <2>2. x * (T * (2 * S)) = T * (2 * (x * S)) /\ x * S \in Nat
    BY <1>8, <2>1
  <2>3. T * (2 * (x * S)) + T * u = T * (2 * (x * S) + u)
    BY <1>8, <1>9, <2>2
  <2>4. v[q + 1] = T * (2 * (x * S) + u) + w
    <3>1. T * (2 * (x * S)) \in Nat /\ T * u \in Nat
      BY <1>8, <1>9, <2>2
    <3> QED
      BY <1>9, <2>1, <2>2, <2>3, <3>1
  <2>5. 2 * (x * S) + u \in Nat
    BY <1>9, <2>2
  <2> QED
    BY <1>8, <1>9, <2>4, <2>5, QuotientIs DEF x
<1>11. (2 * (v[q] * S) + u) % 2 = u % 2
  <2>1. v[q] * S \in Nat
    BY <1>6, <1>8
  <2> QED
    BY <1>9, <2>1
<1> QED
  BY <1>4, <1>7, <1>10, <1>11 DEF u, T

(* A bit more doubles it and adds the bit. *)
LEMMA LeadingGrows ==
  ASSUME NEW groups \in Lists(Groups, GroupBits), NEW p \in 0 .. V6Bits - 1
  PROVE  /\ Leading(groups, p + 1) = 2 * Leading(groups, p) + Bits(groups)[p + 1]
         /\ Bits(groups)[p + 1] \in {0, 1}
<1>1. V6Bits \in Nat /\ Leading(groups, p + 1) \in Nat
  BY LeadingTypes, p + 1 \in 0 .. V6Bits
<1>2. Number(groups, GroupBits) \in Nat
  BY FirstDigitsQuotient, WidthsAssumption, 0 \in 0 .. Groups
<1> DEFINE a == V6Bits - (p + 1)
<1>3. a \in Nat /\ V6Bits - p = a + 1
  BY <1>1
<1> HIDE DEF a
<1>4. Power2[a] \in Nat \ {0} /\ Power2[a + 1] = Power2[a] * 2
  BY <1>3, PowerDef
<1>5. Leading(groups, p) = Leading(groups, p + 1) \div 2
  BY <1>2, <1>3, <1>4, QuotientOfQuotient, 2 \in Nat \ {0} DEF Leading, a
<1>6. Leading(groups, p + 1) = 2 * (Leading(groups, p + 1) \div 2) + (Leading(groups, p + 1) % 2)
  BY <1>1
<1> QED
  BY <1>1, <1>5, <1>6, BitIsOfLeading

(* So the first p bits agree exactly when these quotients do.              *)
LEMMA PrefixIsLeading ==
  ASSUME NEW g \in Lists(Groups, GroupBits), NEW h \in Lists(Groups, GroupBits),
         NEW p \in 0 .. V6Bits
  PROVE  First(p, Bits(g)) = First(p, Bits(h)) <=> Leading(g, p) = Leading(h, p)
<1> DEFINE Same(n) == \A i \in 1 .. n : Bits(g)[i] = Bits(h)[i]
           T == {n \in 0 .. V6Bits : Same(n) <=> Leading(g, n) = Leading(h, n)}
<1>1. V6Bits \in Nat /\ DOMAIN Bits(g) = 1 .. V6Bits /\ DOMAIN Bits(h) = 1 .. V6Bits
  <2>1. Groups \in Nat /\ GroupBits \in Nat /\ V6Bits = Groups * GroupBits
    BY WidthsAssumption DEF V6Bits
  <2>2. Len(g) = Groups /\ Len(h) = Groups
    BY <2>1, ListIsSeq
  <2> QED
    BY <2>1, <2>2, LeadingTypes DEF Bits
<1>2. First(p, Bits(g)) = First(p, Bits(h)) <=> Same(p)
  <2> DEFINE a == Bits(g)
             b == Bits(h)
  <2>1. {j \in 1 .. V6Bits : j <= p} = 1 .. p
    BY <1>1
  <2>2. First(p, a) = [i \in 1 .. p |-> a[i]] /\ First(p, b) = [i \in 1 .. p |-> b[i]]
    BY <1>1, <2>1 DEF First
  <2> HIDE DEF a, b
  <2>3. [i \in 1 .. p |-> a[i]] = [i \in 1 .. p |-> b[i]] <=> \A i \in 1 .. p : a[i] = b[i]
    <3>1. \A i \in 1 .. p : /\ [j \in 1 .. p |-> a[j]][i] = a[i]
                            /\ [j \in 1 .. p |-> b[j]][i] = b[i]
      OBVIOUS
    <3> QED
      BY <3>1
  <2> QED
    BY <2>2, <2>3 DEF a, b
<1>3. 0 \in T
  <2>1. Same(0)
    OBVIOUS
  <2> QED
    BY <1>1, <2>1, LeadingTypes
<1>4. ASSUME NEW n \in 0 .. V6Bits - 1, n \in T PROVE n + 1 \in T
  <2>1. /\ Leading(g, n + 1) = 2 * Leading(g, n) + Bits(g)[n + 1] /\ Bits(g)[n + 1] \in {0, 1}
        /\ Leading(h, n + 1) = 2 * Leading(h, n) + Bits(h)[n + 1] /\ Bits(h)[n + 1] \in {0, 1}
    BY LeadingGrows
  <2>2. Leading(g, n) \in Nat /\ Leading(h, n) \in Nat
    BY <1>1, LeadingTypes, n \in 0 .. V6Bits
  <2>3. Leading(g, n + 1) = Leading(h, n + 1)
          <=> Leading(g, n) = Leading(h, n) /\ Bits(g)[n + 1] = Bits(h)[n + 1]
    BY <2>1, <2>2
  <2>4. Same(n + 1) <=> Same(n) /\ Bits(g)[n + 1] = Bits(h)[n + 1]
    <3>1. \A i \in 1 .. n + 1 : i \in 1 .. n \/ i = n + 1
      OBVIOUS
    <3>2. n + 1 \in 1 .. n + 1 /\ \A i \in 1 .. n : i \in 1 .. n + 1
      OBVIOUS
    <3> QED
      BY <3>1, <3>2
  <2> HIDE DEF Same
  <2> QED
    BY <1>1, <1>4, <2>3, <2>4
<1> HIDE DEF T
<1>5. 0 .. V6Bits \subseteq T
  BY <1>1, <1>3, <1>4, UpToInduces
<1> QED
  BY <1>2, <1>5 DEF T

(* One sequence after the other. *)
LEMMA Joined ==
  ASSUME NEW s \in Seq(Nat), NEW t \in Seq(Nat)
  PROVE  /\ s \o t \in Seq(Nat) /\ Len(s \o t) = Len(s) + Len(t)
         /\ \A i \in 1 .. Len(s) : (s \o t)[i] = s[i]
         /\ \A i \in Len(s) + 1 .. Len(s) + Len(t) : (s \o t)[i] = t[i - Len(s)]
OBVIOUS

(* The "::" of an address stands for groups of zeros.                      *)
LEMMA Expanded ==
  ASSUME NEW L \in Nat, NEW R \in Nat, L + R < Groups,
         NEW left \in Lists(L, GroupBits), NEW right \in Lists(R, GroupBits)
  PROVE  LET groups == ExpandIPv6(<<left, right>>) IN
         /\ groups \in Lists(Groups, GroupBits)
         /\ \A i \in 1 .. L : groups[i] = left[i]
         /\ \A i \in L + 1 .. Groups - R : groups[i] = 0
         /\ \A i \in 1 .. R : groups[Groups - R + i] = right[i]
<1> DEFINE missing == Groups - L - R
           zeros == [i \in 1 .. missing |-> 0]
           groups == left \o zeros \o right
           D == 0 .. Power2[GroupBits] - 1
<1>1. Groups \in Nat /\ GroupBits \in Nat /\ missing \in Nat
  BY WidthsAssumption
<1>2. /\ left \in Seq(Nat) /\ Len(left) = L /\ \A i \in 1 .. L : left[i] \in D
      /\ right \in Seq(Nat) /\ Len(right) = R /\ \A i \in 1 .. R : right[i] \in D
  BY <1>1, ListIsSeq
<1>3. zeros \in Seq(Nat) /\ Len(zeros) = missing /\ \A i \in 1 .. missing : zeros[i] = 0
  BY <1>1
<1>4. 0 \in D
  BY <1>1, PowerDef
<1>5. ExpandIPv6(<<left, right>>) = groups
  <2> DEFINE text == <<left, right>>
  <2>1. Len(text) = 2 /\ text[1] = left /\ text[2] = right
    OBVIOUS
  <2> HIDE DEF text
  <2>2. ExpandIPv6(text)
          = text[1] \o [i \in 1 .. Groups - Len(text[1]) - Len(text[2]) |-> 0] \o text[2]
    BY <2>1 DEF ExpandIPv6
  <2> QED
    BY <1>2, <2>1, <2>2 DEF text
<1> HIDE DEF zeros
<1>6. /\ left \o zeros \in Seq(Nat) /\ Len(left \o zeros) = L + missing
      /\ \A i \in 1 .. L : (left \o zeros)[i] = left[i]
      /\ \A i \in L + 1 .. L + missing : (left \o zeros)[i] = zeros[i - L]
  <2>1. /\ left \o zeros \in Seq(Nat) /\ Len(left \o zeros) = Len(left) + Len(zeros)
        /\ \A i \in 1 .. Len(left) : (left \o zeros)[i] = left[i]
        /\ \A i \in Len(left) + 1 .. Len(left) + Len(zeros) :
             (left \o zeros)[i] = zeros[i - Len(left)]
    BY <1>2, <1>3, Joined
  <2> HIDE DEF missing
  <2> QED
    BY <1>2, <1>3, <2>1
<1> DEFINE first == left \o zeros
<1>7. groups = first \o right
  OBVIOUS
<1>8. L + missing = Groups - R /\ L + missing \in Nat
  BY <1>1
<1> HIDE DEF first, groups
<1>9. /\ groups \in Seq(Nat) /\ Len(groups) = Groups
      /\ \A i \in 1 .. L + missing : groups[i] = first[i]
      /\ \A i \in 1 .. R : groups[L + missing + i] = right[i]
  <2>1. /\ groups \in Seq(Nat) /\ Len(groups) = (L + missing) + R
        /\ \A i \in 1 .. L + missing : groups[i] = first[i]
        /\ \A i \in (L + missing) + 1 .. (L + missing) + R :
             groups[i] = right[i - (L + missing)]
    <3>1. first \in Seq(Nat) /\ Len(first) = L + missing
      BY <1>6 DEF first
    <3> HIDE DEF missing
    <3>2. /\ groups \in Seq(Nat) /\ Len(groups) = Len(first) + Len(right)
          /\ \A i \in 1 .. Len(first) : groups[i] = first[i]
          /\ \A i \in Len(first) + 1 .. Len(first) + Len(right) :
               groups[i] = right[i - Len(first)]
      BY <1>2, <1>7, <3>1, Joined
    <3> QED
      BY <1>2, <3>1, <3>2
  <2>2. ASSUME NEW i \in 1 .. R PROVE groups[L + missing + i] = right[i]
    <3> DEFINE n == L + missing
    <3>1. n \in Nat
      BY <1>8
    <3> HIDE DEF n
    <3>2. n + i \in n + 1 .. n + R /\ (n + i) - n = i
      BY <3>1
    <3> QED
      BY <2>1, <3>2 DEF n
  <2> QED
    BY <1>1, <1>8, <2>1, <2>2
<1>10. \A i \in 1 .. L : groups[i] = left[i]
  <2>1. \A i \in 1 .. L : i \in 1 .. L + missing
    BY <1>1
  <2> QED
    BY <1>6, <1>9, <2>1 DEF first
<1>11. \A i \in L + 1 .. L + missing : groups[i] = 0
  <2>1. ASSUME NEW i \in L + 1 .. L + missing PROVE groups[i] = 0
    <3>1. i - L \in 1 .. missing /\ i \in 1 .. L + missing
      BY <1>1
    <3> QED
      BY <1>3, <1>6, <1>9, <3>1 DEF first
  <2> QED
    BY <2>1
<1>12. groups \in Lists(Groups, GroupBits)
  <2>1. ASSUME NEW i \in 1 .. Groups PROVE groups[i] \in D
    <3>1. CASE i \in 1 .. L
      BY <1>2, <1>10, <3>1
    <3>2. CASE i \in L + 1 .. L + missing
      BY <1>4, <1>11, <3>2
    <3>3. CASE i > L + missing
      <4>1. i - (L + missing) \in 1 .. R /\ L + missing + (i - (L + missing)) = i
        BY <1>1, <1>8, <3>3
      <4>2. groups[L + missing + (i - (L + missing))] = right[i - (L + missing)]
        BY <1>9, <4>1
      <4> HIDE DEF D, missing
      <4> QED
        BY <1>2, <4>1, <4>2
    <3> QED
      BY <1>1, <1>8, <3>1, <3>2, <3>3
  <2>2. groups \in [1 .. Groups -> D]
    BY <1>9, <2>1
  <2> QED
    BY <2>2 DEF Lists
<1> QED
  BY <1>5, <1>8, <1>9, <1>10, <1>11, <1>12

(* What the expanded groups stand for. *)
LEMMA ExpandedNumber ==
  ASSUME NEW L \in Nat, NEW R \in Nat, L + R < Groups,
         NEW left \in Lists(L, GroupBits), NEW right \in Lists(R, GroupBits)
  PROVE  Number(ExpandIPv6(<<left, right>>), GroupBits)
           = Number(left, GroupBits) * Power2[GroupBits * (Groups - L)]
               + Number(right, GroupBits)
<1> DEFINE groups == ExpandIPv6(<<left, right>>)
           B == Power2[GroupBits]
           P(j) == Power2[j * GroupBits]
           M == Groups - L - R
           v == Numbers(groups, GroupBits)
           vl == Numbers(left, GroupBits)
           vr == Numbers(right, GroupBits)
<1>1. Groups \in Nat /\ GroupBits \in Nat /\ M \in Nat
  BY WidthsAssumption
<1>2. /\ P(0) = 1 /\ B \in Nat
      /\ \A j \in Nat : P(j) \in Nat /\ P(j + 1) = P(j) * B
  <2>1. ASSUME NEW j \in Nat PROVE P(j) \in Nat /\ P(j + 1) = P(j) * B
    <3>1. j * GroupBits \in Nat /\ (j + 1) * GroupBits = j * GroupBits + GroupBits
      BY <1>1
    <3> QED
      BY <1>1, <3>1, PowerDef, PowerOfSum
  <2>2. 0 * GroupBits = 0
    BY <1>1
  <2> QED
    BY <1>1, <2>1, <2>2, PowerDef
<1>3. /\ groups \in Seq(Nat) /\ Len(groups) = Groups
      /\ left \in Seq(Nat) /\ Len(left) = L /\ right \in Seq(Nat) /\ Len(right) = R
  BY <1>1, Expanded, ListIsSeq
<1>4. /\ v[0] = 0 /\ \A i \in 0 .. Groups - 1 : v[i + 1] = v[i] * B + groups[i + 1]
      /\ vl[0] = 0 /\ \A i \in 0 .. L - 1 : vl[i + 1] = vl[i] * B + left[i + 1]
      /\ vr[0] = 0 /\ \A i \in 0 .. R - 1 : vr[i + 1] = vr[i] * B + right[i + 1]
  <2> DEFINE n1 == Len(groups)
             n2 == Len(left)
             n3 == Len(right)
  <2>1. /\ v[0] = 0 /\ \A i \in 0 .. n1 - 1 : v[i + 1] = v[i] * B + groups[i + 1]
        /\ vl[0] = 0 /\ \A i \in 0 .. n2 - 1 : vl[i + 1] = vl[i] * B + left[i + 1]
        /\ vr[0] = 0 /\ \A i \in 0 .. n3 - 1 : vr[i + 1] = vr[i] * B + right[i + 1]
    BY <1>1, <1>3, NumbersDef
  <2> HIDE DEF v, vl, vr, B, groups
  <2> QED
    BY <1>3, <2>1
<1>5. /\ vl[L] \in Nat /\ \A j \in 0 .. R : vr[j] \in Nat
  <2>1. vl \in [0 .. L -> Nat] /\ vr \in [0 .. R -> Nat]
    BY <1>1, <1>3, NumbersDef
  <2> QED
    BY <2>1
<1>6. /\ \A i \in 1 .. L : groups[i] = left[i]
      /\ \A i \in L + 1 .. Groups - R : groups[i] = 0
      /\ \A i \in 1 .. R : groups[Groups - R + i] = right[i] /\ right[i] \in Nat
  BY <1>1, Expanded, ListIsSeq
<1>7. Groups - R = L + M
  BY <1>1
<1>12. /\ Number(groups, GroupBits) = v[Groups] /\ Number(left, GroupBits) = vl[L]
       /\ Number(right, GroupBits) = vr[R]
  BY <1>3 DEF Number
<1> HIDE DEF v, vl, vr, B, P, groups
<1>8. v[L] = vl[L]
  <2> DEFINE T == {i \in 0 .. L : v[i] = vl[i]}
  <2>1. 0 \in T
    BY <1>4
  <2>2. ASSUME NEW i \in 0 .. L - 1, i \in T PROVE i + 1 \in T
    <3>1. i \in 0 .. Groups - 1 /\ i + 1 \in 1 .. L
      BY <1>1
    <3> QED
      BY <1>4, <1>6, <2>2, <3>1
  <2> HIDE DEF T
  <2>3. 0 .. L \subseteq T
    BY <2>1, <2>2, UpToInduces
  <2> QED
    BY <2>3 DEF T
<1>9. v[L + M] = vl[L] * P(M)
  <2> DEFINE T == {j \in 0 .. M : v[L + j] = vl[L] * P(j)}
  <2>1. 0 \in T
    BY <1>1, <1>2, <1>5, <1>8
  <2>2. ASSUME NEW j \in 0 .. M - 1, j \in T PROVE j + 1 \in T
    <3>1. /\ L + j \in 0 .. Groups - 1 /\ L + (j + 1) = L + j + 1 /\ j \in Nat
          /\ L + j + 1 \in L + 1 .. Groups - R /\ j + 1 \in 0 .. M
      BY <1>1
    <3>2. v[L + j + 1] = v[L + j] * B + groups[L + j + 1]
      BY <1>4, <3>1
    <3>3. groups[L + j + 1] = 0 /\ v[L + j] = vl[L] * P(j)
      BY <1>6, <2>2, <3>1
    <3>4. P(j) \in Nat /\ P(j + 1) = P(j) * B
      BY <1>2, <3>1
    <3>5. (vl[L] * P(j)) * B + 0 = vl[L] * (P(j) * B)
      BY <1>2, <1>5, <3>4
    <3> HIDE DEF M
    <3>6. v[L + (j + 1)] = vl[L] * P(j + 1)
      BY <3>1, <3>2, <3>3, <3>4, <3>5
    <3> QED
      BY <3>1, <3>6
  <2> HIDE DEF T
  <2>3. 0 .. M \subseteq T
    BY <1>1, <2>1, <2>2, UpToInduces
  <2> QED
    BY <1>1, <2>3 DEF T
<1>10. v[Groups] = vl[L] * P(M + R) + vr[R]
  <2> DEFINE T == {j \in 0 .. R : v[L + M + j] = vl[L] * P(M + j) + vr[j]}
  <2>1. 0 \in T
    <3>1. vl[L] * P(M) \in Nat
      BY <1>1, <1>2, <1>5
    <3> HIDE DEF M
    <3> QED
      BY <1>1, <1>4, <1>9, <3>1
  <2>2. ASSUME NEW j \in 0 .. R - 1, j \in T PROVE j + 1 \in T
    <3>1. /\ L + M + j \in 0 .. Groups - 1 /\ L + M + (j + 1) = L + M + j + 1
          /\ j + 1 \in 1 .. R /\ j \in 0 .. R
          /\ Groups - R + (j + 1) = L + M + j + 1 /\ M + j \in Nat /\ M + (j + 1) = M + j + 1
      BY <1>1
    <3> HIDE DEF M
    <3>2. v[L + M + j + 1] = v[L + M + j] * B + groups[L + M + j + 1]
      BY <1>4, <3>1
    <3>3. groups[L + M + j + 1] = right[j + 1] /\ right[j + 1] \in Nat
      <4>1. groups[Groups - R + (j + 1)] = right[j + 1] /\ right[j + 1] \in Nat
        BY <1>6, <3>1
      <4> QED
        BY <3>1, <4>1
    <3>4. v[L + M + j] = vl[L] * P(M + j) + vr[j]
      BY <2>2
    <3>5. P(M + j) \in Nat /\ P(M + j + 1) = P(M + j) * B
      BY <1>2, <3>1
    <3>6. vr[j + 1] = vr[j] * B + right[j + 1] /\ vr[j] \in Nat
      BY <1>4, <1>5, <3>1
    <3>7. (vl[L] * P(M + j) + vr[j]) * B + right[j + 1]
            = vl[L] * (P(M + j) * B) + (vr[j] * B + right[j + 1])
      BY <1>2, <1>5, <3>3, <3>5, <3>6
    <3>8. v[L + M + (j + 1)] = vl[L] * P(M + (j + 1)) + vr[j + 1]
      BY <3>1, <3>2, <3>3, <3>4, <3>5, <3>6, <3>7
    <3> QED
      BY <3>1, <3>8
  <2> HIDE DEF T
  <2>3. 0 .. R \subseteq T
    BY <2>1, <2>2, UpToInduces
  <2>4. L + M + R = Groups
    BY <1>1
  <2> QED
    BY <2>3, <2>4 DEF T
<1>11. P(M + R) = Power2[GroupBits * (Groups - L)]
  <2>1. (M + R) * GroupBits = GroupBits * (Groups - L)
    BY <1>1
  <2> QED
    BY <2>1 DEF P
<1> QED
  BY <1>10, <1>11, <1>12 DEF groups

(* The text of an IPv6 address, in either form, stands for its number.     *)
LEMMA TextValue ==
  ASSUME NEW ip \in Addresses, ip.family = "v6"
  PROVE  /\ ExpandIPv6(ip.text) \in Lists(Groups, GroupBits)
         /\ Value(ip) = Number(ExpandIPv6(ip.text), GroupBits)
<1>1. \/ \E groups \in Lists(Groups, GroupBits) : ip = V6(<<groups>>)
      \/ \E L, R \in Nat : L + R < Groups /\ \E left \in Lists(L, GroupBits),
                                   right \in Lists(R, GroupBits) : ip = V6(<<left, right>>)
  <2>1. ip \in V6Addresses /\ (Len(ip.text) = 1 \/ Len(ip.text[1]) + Len(ip.text[2]) < Groups)
    <3>1. \A a \in V4Addresses : a.family = "v4" /\ Mapped(a.text).family = "mapped"
      BY DEF V4Addresses, V4, Mapped
    <3>2. ip \notin V4Addresses /\ ip \notin {Mapped(a.text) : a \in V4Addresses}
      BY <3>1
    <3> QED
      BY <3>2 DEF Addresses
  <2> DEFINE
         written(l, r) == {V6(text) : text \in Lists(l, GroupBits) \X Lists(r, GroupBits)}
         spellings == {written(l, r) : l \in 0 .. Groups - 1, r \in 0 .. Groups - 1}
         whole == {V6(<<groups>>) : groups \in Lists(Groups, GroupBits)}
  <2>2. ip \in whole \/ \E spelt \in spellings : ip \in spelt
    <3>1. V6Addresses = whole \cup UNION spellings
      BY DEF V6Addresses
    <3> HIDE DEF whole, spellings
    <3> QED
      BY <2>1, <3>1
  <2>3. CASE ip \in whole
    BY <2>3
  <2> HIDE DEF written
  <2>4. CASE \E spelt \in spellings : ip \in spelt
    <3>1. PICK spelt \in spellings : ip \in spelt
      BY <2>4
    <3>2. PICK l \in 0 .. Groups - 1, r \in 0 .. Groups - 1 : spelt = written(l, r)
      OBVIOUS
    <3>3. ip \in written(l, r)
      BY <3>1, <3>2
    <3>8. PICK text \in Lists(l, GroupBits) \X Lists(r, GroupBits) : ip = V6(text)
      BY <3>3 DEF written
    <3>4. PICK left \in Lists(l, GroupBits), right \in Lists(r, GroupBits) :
            ip = V6(<<left, right>>)
      BY <3>8
    <3>5. Len(left) = l /\ Len(right) = r /\ l \in Nat /\ r \in Nat
      BY WidthsAssumption, ListIsSeq
    <3>6. ip.text[1] = left /\ ip.text[2] = right /\ Len(ip.text) # 1
      BY <3>4 DEF V6
    <3>7. l + r < Groups
      BY <2>1, <3>5, <3>6
    <3> QED
      BY <3>4, <3>5, <3>7
  <2> HIDE DEF whole, spellings
  <2> QED
    BY <2>2, <2>3, <2>4
<1>2. CASE \E groups \in Lists(Groups, GroupBits) : ip = V6(<<groups>>)
  <2>1. PICK groups \in Lists(Groups, GroupBits) : ip = V6(<<groups>>)
    BY <1>2
  <2>2. ip.text[1] = groups /\ Len(ip.text) = 1
    BY <2>1 DEF V6
  <2> QED
    BY <2>2 DEF Value, ExpandIPv6
<1>3. CASE \E L, R \in Nat : L + R < Groups /\ \E left \in Lists(L, GroupBits),
                                right \in Lists(R, GroupBits) : ip = V6(<<left, right>>)
  <2>5. PICK L \in Nat, R \in Nat : L + R < Groups /\ \E left \in Lists(L, GroupBits),
                                right \in Lists(R, GroupBits) : ip = V6(<<left, right>>)
    BY <1>3
  <2>1. PICK left \in Lists(L, GroupBits), right \in Lists(R, GroupBits) :
          L + R < Groups /\ ip = V6(<<left, right>>)
    BY <2>5
  <2>2. ip.text = <<left, right>> /\ ip.text[1] = left /\ ip.text[2] = right /\ Len(ip.text) # 1
    BY <2>1 DEF V6
  <2>3. Len(left) = L
    BY <2>1, WidthsAssumption, ListIsSeq
  <2>4. Value(ip) = Number(left, GroupBits) * Power2[GroupBits * (Groups - L)]
                      + Number(right, GroupBits)
    BY <2>2, <2>3 DEF Value
  <2> QED
    BY <2>1, <2>2, <2>4, Expanded, ExpandedNumber
<1> QED
  BY <1>1, <1>2, <1>3

(* An address matches a network exactly when it lies in it.                *)
LEMMA MatchIsBelonging ==
  ASSUME NEW ip \in PlainAddresses, NEW cidr \in Cidrs
  PROVE  IsIPInCIDRList(ip, {cidr}) <=> Belongs(ip, cidr)
<1>1. \/ \E octets \in Lists(Octets, OctetBits) : ip = V4(octets) \/ ip = Mapped(octets)
      \/ ip.family = "v6" /\ ip \in Addresses /\ ~BeginsAsMapped(ip.text)
  <2>1. ip \in V4Addresses \cup {Mapped(a.text) : a \in V4Addresses} \/ ip.family = "v6"
    <3>1. \A a \in V6Addresses : a.family = "v6"
      BY DEF V6Addresses, V6
    <3> QED
      BY <3>1 DEF PlainAddresses, Addresses
  <2> QED
    BY <2>1 DEF PlainAddresses, V4Addresses, V4, Mapped
<1>2. \/ \E octets \in Lists(Octets, OctetBits), prefix \in 0 .. V4Bits :
           cidr = Cidr(V4(octets), prefix)
      \/ \E a \in Addresses, prefix \in 0 .. V6Bits :
           a.family = "v6" /\ cidr = Cidr(a, prefix)
  <2>1. \A a \in V6Addresses : a.family = "v6"
    BY DEF V6Addresses, V6
  <2> QED
    BY <2>1 DEF Cidrs, V4Addresses
<1>3. IsIPInCIDRList(ip, {cidr})
        <=> IF ip.family = "v6"
              THEN cidr.network.family = "v6" /\ IsIPv6InCIDR(Unwrapped(ip.text), cidr)
              ELSE cidr.network.family = "v4" /\ IsIPv4InCIDR(ip.text, cidr)
  BY DEF IsIPInCIDRList
<1>4. CASE ip.family # "v6"
  <2>1. ip.text \in Lists(Octets, OctetBits)
    BY <1>1, <1>4 DEF V4, Mapped
  <2>2. CASE cidr.network.family = "v6"
    BY <1>3, <1>4, <2>2 DEF Belongs
  <2>3. CASE cidr.network.family # "v6"
    <3>1. /\ cidr.network.family = "v4" /\ cidr.prefix \in 0 .. V4Bits
          /\ cidr.network.text \in Lists(Octets, OctetBits)
      BY <1>2, <2>3 DEF Cidr, V4
    <3>2. /\ Value(ip) = Number(ip.text, OctetBits)
          /\ Value(cidr.network) = Number(cidr.network.text, OctetBits)
      <4>1. \A a : a.family # "v6" => Value(a) = Number(a.text, OctetBits)
        BY DEF Value
      <4> QED
        BY <1>4, <2>3, <4>1
    <3>3. Belongs(ip, cidr) <=> Value(ip) \div Power2[V4Bits - cidr.prefix]
                                  = Value(cidr.network) \div Power2[V4Bits - cidr.prefix]
      BY <1>4, <2>3 DEF Belongs
    <3> QED
      BY <1>3, <1>4, <2>1, <3>1, <3>2, <3>3, V4Matches
  <2> QED
    BY <2>2, <2>3
<1>5. CASE ip.family = "v6"
  <2>1. ip \in Addresses /\ Unwrapped(ip.text) = ip.text
    BY <1>1, <1>5 DEF V4, Mapped, Unwrapped
  <2>2. CASE cidr.network.family # "v6"
    BY <1>3, <1>5, <2>2 DEF Belongs
  <2>3. CASE cidr.network.family = "v6"
    <3>1. cidr.network \in Addresses /\ cidr.prefix \in 0 .. V6Bits
      BY <1>2, <2>3 DEF Cidr, V4
    <3> DEFINE g == ExpandIPv6(ip.text)
               h == ExpandIPv6(cidr.network.text)
    <3>2. /\ g \in Lists(Groups, GroupBits) /\ Value(ip) = Number(g, GroupBits)
          /\ h \in Lists(Groups, GroupBits) /\ Value(cidr.network) = Number(h, GroupBits)
      BY <1>5, <2>1, <2>3, <3>1, TextValue
    <3>3. IsIPv6InCIDR(ip.text, cidr)
            <=> First(cidr.prefix, Bits(g)) = First(cidr.prefix, Bits(h))
      BY DEF IsIPv6InCIDR
    <3>4. Belongs(ip, cidr) <=> Value(ip) \div Power2[V6Bits - cidr.prefix]
                                  = Value(cidr.network) \div Power2[V6Bits - cidr.prefix]
      BY <1>5, <2>3 DEF Belongs
    <3> HIDE DEF g, h
    <3>5. IsIPv6InCIDR(ip.text, cidr) <=> Leading(g, cidr.prefix) = Leading(h, cidr.prefix)
      BY <3>1, <3>2, <3>3, PrefixIsLeading
    <3> QED
      BY <1>3, <1>5, <2>1, <2>3, <3>2, <3>4, <3>5 DEF Leading
  <2> QED
    BY <2>2, <2>3
<1> QED
  BY <1>4, <1>5

(* A list matches when one of its networks has the address. *)
LEMMA ListMatches ==
  ASSUME NEW ip \in PlainAddresses, NEW cidrs \in SUBSET Cidrs
  PROVE  IsIPInCIDRList(ip, cidrs) <=> \E cidr \in cidrs : Belongs(ip, cidr)
<1>1. IsIPInCIDRList(ip, cidrs) <=> \E cidr \in cidrs : IsIPInCIDRList(ip, {cidr})
  BY DEF IsIPInCIDRList
<1>2. \A cidr \in cidrs : IsIPInCIDRList(ip, {cidr}) <=> Belongs(ip, cidr)
  BY MatchIsBelonging
<1> QED
  BY <1>1, <1>2

--------------------------------------------------------------------------------
(* The failures younger than an age are a running total over the ages.     *)
LEMMA YoungerDef ==
  ASSUME NEW f \in [Ages -> Nat]
  PROVE  /\ Younger(f) \in [0 .. LoginWindow -> Nat]
         /\ Younger(f)[0] = 0
         /\ \A age \in 1 .. LoginWindow :
              Younger(f)[age] = Younger(f)[age - 1] + f[age - 1]
<1> DEFINE step == [x \in Nat \X Nat |-> IF x[2] - 1 \in Ages THEN x[1] + f[x[2] - 1] ELSE 0]
           Totals(h) == h = [age \in 0 .. LoginWindow |->
                               IF age = 0 THEN 0 ELSE h[age - 1] + f[age - 1]]
<1>1. step \in [Nat \X Nat -> Nat]
  <2>1. ASSUME NEW x \in Nat \X Nat PROVE step[x] \in Nat
    <3>1. x[1] \in Nat
      OBVIOUS
    <3>2. x[2] - 1 \in Ages => f[x[2] - 1] \in Nat
      OBVIOUS
    <3> QED
      BY <3>1, <3>2
  <2> QED
    BY <2>1
<1>2. PICK h \in [0 .. LoginWindow -> Nat] : Follows(h, LoginWindow, 0, step)
  <2> HIDE DEF step
  <2> QED
    BY <1>1, SomethingFollows, LimitsAssumption
<1>3. \A age \in 1 .. LoginWindow : step[<<h[age - 1], age>>] = h[age - 1] + f[age - 1]
  <2>1. ASSUME NEW age \in 1 .. LoginWindow
        PROVE  step[<<h[age - 1], age>>] = h[age - 1] + f[age - 1]
    <3>1. age \in Nat /\ age - 1 \in Ages /\ h[age - 1] \in Nat
      <4> HIDE DEF step
      <4> QED
        BY <1>2, LimitsAssumption DEF Ages
    <3> QED
      BY <3>1
  <2> QED
    BY <2>1
<1>4. Totals(h)
  <2> HIDE DEF step
  <2>1. \A age \in 0 .. LoginWindow :
          h[age] = IF age = 0 THEN 0 ELSE h[age - 1] + f[age - 1]
    <3>1. \A age \in 0 .. LoginWindow :
            h[age] = IF age = 0 THEN 0 ELSE step[<<h[age - 1], age>>]
      BY <1>2 DEF Follows
    <3>2. \A age \in 0 .. LoginWindow : age # 0 => age \in 1 .. LoginWindow
      BY LimitsAssumption
    <3> QED
      BY <1>3, <3>1, <3>2
  <2> QED
    BY <1>2, <2>1
<1>5. Younger(f) = CHOOSE g : Totals(g)
  BY DEF Younger
<1>6. Totals(Younger(f))
  <2> HIDE DEF Totals
  <2> QED
    BY <1>4, <1>5
<1>7. Younger(f) \in [0 .. LoginWindow -> Nat]
  <2> DEFINE T == {age \in 0 .. LoginWindow : Younger(f)[age] \in Nat}
  <2>1. 0 \in T
    BY <1>6, LimitsAssumption
  <2>2. ASSUME NEW age \in 0 .. LoginWindow - 1, age \in T PROVE age + 1 \in T
    <3>1. Younger(f)[age + 1] = Younger(f)[age + 1 - 1] + f[age + 1 - 1]
      BY <1>6, LimitsAssumption
    <3>2. age + 1 - 1 = age /\ f[age] \in Nat
      BY LimitsAssumption DEF Ages
    <3> QED
      BY <2>2, <3>1, <3>2, LimitsAssumption
  <2> HIDE DEF T
  <2>3. 0 .. LoginWindow \subseteq T
    BY <2>1, <2>2, UpToInduces, LimitsAssumption
  <2> QED
    BY <1>6, <2>3 DEF T
<1> QED
  BY <1>6, <1>7, LimitsAssumption

(* No failures add up to none. *)
LEMMA NoneYounger == \A age \in 0 .. LoginWindow : Younger(NoFailures)[age] = 0
<1>1. NoFailures \in [Ages -> Nat]
  BY DEF NoFailures
<1> DEFINE T == {age \in 0 .. LoginWindow : Younger(NoFailures)[age] = 0}
<1>2. 0 \in T
  BY <1>1, YoungerDef, LimitsAssumption
<1>3. ASSUME NEW age \in 0 .. LoginWindow - 1, age \in T PROVE age + 1 \in T
  <2>1. Younger(NoFailures)[age + 1]
          = Younger(NoFailures)[age + 1 - 1] + NoFailures[age + 1 - 1]
    BY <1>1, YoungerDef, LimitsAssumption
  <2>2. age + 1 - 1 = age /\ NoFailures[age] = 0
    BY LimitsAssumption DEF NoFailures, Ages
  <2> QED
    BY <1>3, <2>1, <2>2, LimitsAssumption
<1> HIDE DEF T
<1>4. 0 .. LoginWindow \subseteq T
  BY <1>2, <1>3, UpToInduces, LimitsAssumption
<1> QED
  BY <1>4 DEF T

(* A failure more, now, is one more below every age. *)
LEMMA OneMoreYounger ==
  ASSUME NEW f \in [Ages -> Nat]
  PROVE  LET g == [f EXCEPT ![0] = @ + 1]
         IN  \A age \in 1 .. LoginWindow : Younger(g)[age] = Younger(f)[age] + 1
<1> DEFINE g == [f EXCEPT ![0] = @ + 1]
           T == {n \in 0 .. LoginWindow - 1 : Younger(g)[n + 1] = Younger(f)[n + 1] + 1}
<1>1. g \in [Ages -> Nat]
  BY LimitsAssumption DEF Ages
<1>2. /\ g[0] = f[0] + 1 /\ f[0] \in Nat
      /\ \A age \in 1 .. LoginWindow - 1 : g[age] = f[age] /\ f[age] \in Nat
  BY LimitsAssumption DEF Ages
<1> HIDE DEF g
<1>3. 0 \in T
  <2>1. Younger(f)[1] = Younger(f)[1 - 1] + f[1 - 1] /\ Younger(f)[0] = 0
    BY YoungerDef, LimitsAssumption
  <2>2. Younger(g)[1] = Younger(g)[1 - 1] + g[1 - 1] /\ Younger(g)[0] = 0
    BY <1>1, YoungerDef, LimitsAssumption
  <2> QED
    BY <1>2, <2>1, <2>2, LimitsAssumption
<1>4. ASSUME NEW n \in 0 .. LoginWindow - 1 - 1, n \in T PROVE n + 1 \in T
  <2>1. /\ n + 1 + 1 \in 1 .. LoginWindow /\ n + 1 + 1 - 1 = n + 1
        /\ n + 1 \in 1 .. LoginWindow - 1
    BY LimitsAssumption
  <2>2. Younger(f)[n + 1 + 1] = Younger(f)[n + 1] + f[n + 1] /\ Younger(f)[n + 1] \in Nat
    <3>1. Younger(f)[n + 1 + 1] = Younger(f)[n + 1 + 1 - 1] + f[n + 1 + 1 - 1]
      BY <2>1, YoungerDef
    <3>2. Younger(f)[n + 1] \in Nat
      BY <2>1, YoungerDef, LimitsAssumption
    <3> QED
      BY <2>1, <3>1, <3>2
  <2>3. Younger(g)[n + 1 + 1] = Younger(g)[n + 1] + g[n + 1]
    <3>1. Younger(g)[n + 1 + 1] = Younger(g)[n + 1 + 1 - 1] + g[n + 1 + 1 - 1]
      BY <1>1, <2>1, YoungerDef
    <3> QED
      BY <2>1, <3>1
  <2> QED
    BY <1>2, <1>4, <2>1, <2>2, <2>3
<1> HIDE DEF T
<1>5. 0 .. LoginWindow - 1 \subseteq T
  <2>1. LoginWindow - 1 \in Nat
    BY LimitsAssumption
  <2> QED
    BY <1>3, <1>4, <2>1, UpToInduces
<1>6. ASSUME NEW age \in 1 .. LoginWindow PROVE Younger(g)[age] = Younger(f)[age] + 1
  <2>1. age - 1 \in T /\ age - 1 + 1 = age
    BY <1>5, LimitsAssumption
  <2> QED
    BY <2>1 DEF T
<1> QED
  BY <1>6 DEF g

(* A tick makes every failure older by one. *)
Older(f) == [age \in Ages |-> IF age = 0 THEN 0 ELSE f[age - 1]]

LEMMA OlderYounger ==
  ASSUME NEW f \in [Ages -> Nat]
  PROVE  /\ Older(f) \in [Ages -> Nat]
         /\ \A age \in 1 .. LoginWindow : Younger(Older(f))[age] = Younger(f)[age - 1]
<1> DEFINE g == Older(f)
           T == {n \in 0 .. LoginWindow - 1 : Younger(g)[n + 1] = Younger(f)[n]}
<1>1. g \in [Ages -> Nat]
  BY LimitsAssumption DEF Ages, Older
<1>2. g[0] = 0 /\ \A age \in 1 .. LoginWindow - 1 : g[age] = f[age - 1]
  BY LimitsAssumption DEF Ages, Older
<1> HIDE DEF g
<1>3. 0 \in T
  <2>1. Younger(f)[0] = 0
    BY YoungerDef, LimitsAssumption
  <2>2. Younger(g)[1] = Younger(g)[1 - 1] + g[1 - 1] /\ Younger(g)[0] = 0
    BY <1>1, YoungerDef, LimitsAssumption
  <2> QED
    BY <1>2, <2>1, <2>2, LimitsAssumption
<1>4. ASSUME NEW n \in 0 .. LoginWindow - 1 - 1, n \in T PROVE n + 1 \in T
  <2>1. /\ n + 1 + 1 \in 1 .. LoginWindow /\ n + 1 + 1 - 1 = n + 1
        /\ n + 1 \in 1 .. LoginWindow - 1 /\ n + 1 \in 1 .. LoginWindow /\ n + 1 - 1 = n
    BY LimitsAssumption
  <2>2. Younger(f)[n + 1] = Younger(f)[n] + f[n]
    <3>1. Younger(f)[n + 1] = Younger(f)[n + 1 - 1] + f[n + 1 - 1]
      <4>1. \A i \in 1 .. LoginWindow : Younger(f)[i] = Younger(f)[i - 1] + f[i - 1]
        BY YoungerDef
      <4> QED
        BY <2>1, <4>1
    <3> QED
      BY <2>1, <3>1
  <2>3. Younger(g)[n + 1 + 1] = Younger(g)[n + 1] + g[n + 1]
    <3>1. Younger(g)[n + 1 + 1] = Younger(g)[n + 1 + 1 - 1] + g[n + 1 + 1 - 1]
      BY <1>1, <2>1, YoungerDef
    <3> QED
      BY <2>1, <3>1
  <2>4. g[n + 1] = f[n]
    <3>1. g[n + 1] = f[n + 1 - 1]
      BY <1>2, <2>1
    <3> QED
      BY <2>1, <3>1
  <2> QED
    BY <1>4, <2>1, <2>2, <2>3, <2>4
<1> HIDE DEF T
<1>5. 0 .. LoginWindow - 1 \subseteq T
  <2>1. LoginWindow - 1 \in Nat
    BY LimitsAssumption
  <2> QED
    BY <1>3, <1>4, <2>1, UpToInduces
<1>6. ASSUME NEW age \in 1 .. LoginWindow PROVE Younger(g)[age] = Younger(f)[age - 1]
  <2>1. age - 1 \in T /\ age - 1 + 1 = age
    BY <1>5, LimitsAssumption
  <2> QED
    BY <2>1 DEF T
<1> QED
  BY <1>1, <1>6 DEF g

(* Not more failures are younger than an age than than a higher one. *)
LEMMA YoungerGrows ==
  ASSUME NEW f \in [Ages -> Nat], NEW age \in 0 .. LoginWindow
  PROVE  /\ Younger(f)[age] <= Sum(f)
         /\ \A older \in age .. LoginWindow : Younger(f)[age] <= Younger(f)[older]
<1> DEFINE T == {n \in 0 .. LoginWindow : n >= age => Younger(f)[age] <= Younger(f)[n]}
<1>1. 0 \in T
  BY YoungerDef, LimitsAssumption
<1>2. ASSUME NEW n \in 0 .. LoginWindow - 1, n \in T PROVE n + 1 \in T
  <2>1. /\ n + 1 \in 1 .. LoginWindow /\ n + 1 - 1 = n /\ n \in Ages
        /\ n \in 0 .. LoginWindow /\ n + 1 \in 0 .. LoginWindow
    BY LimitsAssumption DEF Ages
  <2>2. Younger(f)[n + 1] = Younger(f)[n] + f[n]
    <3>1. Younger(f)[n + 1] = Younger(f)[n + 1 - 1] + f[n + 1 - 1]
      <4>1. \A i \in 1 .. LoginWindow : Younger(f)[i] = Younger(f)[i - 1] + f[i - 1]
        BY YoungerDef
      <4> QED
        BY <2>1, <4>1
    <3> QED
      BY <2>1, <3>1
  <2>3. /\ f[n] \in Nat /\ Younger(f)[n] \in Nat /\ Younger(f)[age] \in Nat
        /\ Younger(f)[n + 1] \in Nat
    BY <2>1, YoungerDef
  <2>4. CASE n >= age
    BY <1>2, <2>1, <2>2, <2>3, <2>4
  <2>5. CASE n + 1 = age
    BY <2>1, <2>3, <2>5
  <2>6. CASE n + 1 < age
    BY <2>1, <2>6
  <2> QED
    BY <2>4, <2>5, <2>6, LimitsAssumption
<1> HIDE DEF T
<1>3. 0 .. LoginWindow \subseteq T
  BY <1>1, <1>2, UpToInduces, LimitsAssumption
<1> QED
  BY <1>3, LimitsAssumption DEF T, Sum

--------------------------------------------------------------------------------
(* The inductive invariant.                                                *)
(*                                                                         *)
(* A login under way was let in while its client had failed fewer than     *)
(* MaxLoginAttempts times: with those of the other logins that were let in *)
(* too, a window comes to "Most" failures.                                 *)
Most == MaxLoginAttempts - 1 + Cardinality(Logins)
InFlight(k) == {l \in Logins : ~At(l, "idle") /\ Key(l) = k}

(* The clients are told apart as they should be. *)
KeysMatch == \A r \in Requests : LoginAttemptKey(r) = Client(r)

(* Before any window there was no failure; when a window is over, the      *)
(* failures it counted are still remembered but none is of this instant;   *)
(* an open window counted the failures younger than itself, and the older  *)
(* ones are of the window before.                                          *)
NoWindow(k) == failed[k] = NoFailures
WindowOver(k) == failed[k][0] = 0 /\ Sum(failed[k]) <= Most
WindowOpen(k) ==
  /\ Younger(failed[k])[LoginWindow - attempts[k].left + 1] = attempts[k].count
  /\ Sum(failed[k]) - attempts[k].count <= Most
  /\ attempts[k].count + Cardinality(InFlight(k)) <= Most
WindowInv(k) ==
  /\ k \notin DOMAIN attempts => NoWindow(k)
  /\ k \in DOMAIN attempts /\ ~Counts(k) => WindowOver(k)
  /\ Counts(k) => WindowOpen(k)

IInv == TypeOK /\ KeysMatch /\ \A k \in Keys : WindowInv(k)

(* Every request is counted under some key, and is of some client. *)
LEMMA KeyTypes ==
  ASSUME NEW r \in Requests
  PROVE  LoginAttemptKey(r) \in Keys /\ Client(r) \in Keys
<1>1. \A ip \in {r.remote, r.cfConnectingIP, r.forwardedFor} :
       ip \notin {NoHeader, Empty} => ip \in Keys
  <2> DEFINE given == {{q.remote, q.cfConnectingIP, q.forwardedFor} : q \in Requests}
  <2>1. {r.remote, r.cfConnectingIP, r.forwardedFor} \in given
    OBVIOUS
  <2>2. Ips = (UNION given) \ {NoHeader, Empty}
    BY DEF Ips
  <2> HIDE DEF given
  <2>3. \A ip \in {r.remote, r.cfConnectingIP, r.forwardedFor} : ip \in UNION given
    BY <2>1
  <2> QED
    BY <2>2, <2>3 DEF Keys
<1>2. Direct \in Keys
  BY DEF Keys
<1>3. Names(r) => Named(r) \in Keys
  BY <1>1 DEF Names, Named
<1>4. ClientIp(r, trustedProxies) # NoHeader => ClientIp(r, trustedProxies) \in Keys
  BY <1>1, <1>3, RequestsAssumption DEF ClientIp
<1>5. r.remote # NoHeader => r.remote \in Keys
  BY <1>1, RequestsAssumption
<1> QED
  BY <1>2, <1>3, <1>4, <1>5 DEF LoginAttemptKey, Client

LEMMA InitTypes == Init => TypeOK
<1> SUFFICES ASSUME Init PROVE TypeOK
  OBVIOUS
<1>1. NoFailures \in [Ages -> Nat]
  BY DEF NoFailures
<1>2. Idle \in Login
  BY DEF Login
<1> QED
  BY <1>1, <1>2 DEF Init, TypeOK

(* The logins keep their types: a login waits for the request it is of. *)
LEMMA LoginTypes ==
  ASSUME TypeOK, NEW l \in Logins, ~At(l, "idle")
  PROVE  /\ login[l].request \in Requests
         /\ Key(l) \in Keys /\ Client(login[l].request) \in Keys
         /\ Ends(l) \/ Goto(l, "verify") => login' \in [Logins -> Login]
<1>1. login[l] \in [at : {"body", "verify"}, request : Requests]
  BY DEF TypeOK, At, Login, Idle
<1>2. login[l].request \in Requests
  BY <1>1
<1>3. Ends(l) => login' \in [Logins -> Login]
  BY DEF Ends, TypeOK, Login
<1>4. Goto(l, "verify") => login' \in [Logins -> Login]
  <2>1. [login[l] EXCEPT !.at = "verify"] \in Login
    BY <1>1 DEF Login
  <2> QED
    BY <2>1 DEF Goto, TypeOK
<1> QED
  BY <1>2, <1>3, <1>4, KeyTypes DEF Key

LEMMA AttemptTypes ==
  ASSUME TypeOK, NEW k \in Keys, NEW count \in Nat, NEW left \in 0 .. LoginWindow,
         SetAttempt(k, count, left)
  PROVE  DOMAIN attempts' \subseteq Keys /\ \A x \in DOMAIN attempts' : attempts'[x] \in Attempt
<1>1. [count |-> count, left |-> left] \in Attempt
  BY DEF Attempt
<1> QED
  BY <1>1 DEF SetAttempt, TypeOK

LEMMA FailTypes ==
  ASSUME TypeOK, NEW l \in Logins, ~At(l, "idle"), Fail(l), UNCHANGED trustedProxies
  PROVE  TypeOK'
<1> DEFINE k == Key(l)
           client == Client(login[l].request)
<1>1. k \in Keys /\ client \in Keys /\ login' \in [Logins -> Login]
  BY LoginTypes DEF Fail
<1>2. DOMAIN attempts' \subseteq Keys /\ \A x \in DOMAIN attempts' : attempts'[x] \in Attempt
  <2>1. RecordFailedLogin(k)
    BY DEF Fail
  <2>2. CASE Counts(k)
    <3>1. attempts[k].count + 1 \in Nat /\ attempts[k].left \in 0 .. LoginWindow
      BY <2>2 DEF Counts, TypeOK, Attempt
    <3> HIDE DEF k
    <3> QED
      BY <1>1, <2>1, <2>2, <3>1, AttemptTypes DEF RecordFailedLogin
  <2>3. CASE ~Counts(k)
    <3>1. 1 \in Nat /\ LoginWindow \in 0 .. LoginWindow
      BY LimitsAssumption
    <3> HIDE DEF k
    <3> QED
      BY <1>1, <2>1, <2>3, <3>1, AttemptTypes DEF RecordFailedLogin
  <2> QED
    BY <2>2, <2>3
<1>3. failed' \in [Keys -> [Ages -> Nat]]
  <2> HIDE DEF client
  <2>1. failed' = [failed EXCEPT ![client][0] = @ + 1]
    BY DEF Fail, client
  <2>2. failed[client] \in [Ages -> Nat] /\ 0 \in Ages
    BY <1>1, LimitsAssumption DEF TypeOK, Ages
  <2>3. [failed[client] EXCEPT ![0] = @ + 1] \in [Ages -> Nat]
    BY <2>2
  <2> QED
    BY <1>1, <2>1, <2>3 DEF TypeOK
<1> QED
  BY <1>1, <1>2, <1>3 DEF TypeOK

LEMMA StepTypes == TypeOK /\ [Next]_vars => TypeOK'
<1> SUFFICES ASSUME TypeOK, [Next]_vars PROVE TypeOK'
  OBVIOUS
<1>1. ASSUME NEW l \in Logins, NEW r \in Requests, Arrive(l, r) PROVE TypeOK'
  <2>1. login' \in [Logins -> Login]
    BY <1>1 DEF Arrive, Starts, TypeOK, Login
  <2>2. DOMAIN attempts' \subseteq Keys /\ \A x \in DOMAIN attempts' : attempts'[x] \in Attempt
    <3>1. LoginAttemptKey(r) \in Keys /\ 0 \in Nat /\ LoginWindow \in 0 .. LoginWindow
      BY KeyTypes, LimitsAssumption
    <3>2. CASE SetAttempt(LoginAttemptKey(r), 0, LoginWindow)
      BY <3>1, <3>2, AttemptTypes
    <3>3. CASE UNCHANGED attempts
      BY <3>3 DEF TypeOK
    <3> QED
      BY <1>1, <3>2, <3>3 DEF Arrive
  <2> QED
    BY <1>1, <2>1, <2>2 DEF Arrive, TypeOK
<1>2. ASSUME NEW l \in Logins, BodyArrives(l) PROVE TypeOK'
  <2>1. ~At(l, "idle")
    BY <1>2 DEF BodyArrives, At
  <2>2. CASE Fail(l)
    BY <1>2, <2>1, <2>2, FailTypes DEF BodyArrives
  <2>3. CASE (Ends(l) \/ Goto(l, "verify")) /\ UNCHANGED <<attempts, failed>>
    BY <1>2, <2>1, <2>3, LoginTypes DEF BodyArrives, TypeOK
  <2> QED
    BY <1>2, <2>2, <2>3 DEF BodyArrives
<1>3. ASSUME NEW l \in Logins, PasswordVerified(l) PROVE TypeOK'
  <2>1. ~At(l, "idle")
    BY <1>3 DEF PasswordVerified, At
  <2>2. CASE Fail(l)
    BY <1>3, <2>1, <2>2, FailTypes DEF PasswordVerified
  <2>3. CASE /\ ClearFailedLogins(Key(l))
             /\ failed' = [failed EXCEPT ![Client(login[l].request)] = NoFailures]
             /\ Ends(l)
    <3>1. login' \in [Logins -> Login]
      BY <2>1, <2>3, LoginTypes
    <3>2. NoFailures \in [Ages -> Nat]
      BY DEF NoFailures
    <3>3. failed' \in [Keys -> [Ages -> Nat]]
      BY <2>3, <3>2 DEF TypeOK
    <3> QED
      BY <1>3, <2>3, <3>1, <3>3 DEF PasswordVerified, ClearFailedLogins, TypeOK
  <2> QED
    BY <1>3, <2>2, <2>3 DEF PasswordVerified
<1>4. CASE Tick
  <2>1. \A k \in DOMAIN attempts :
          [attempts[k] EXCEPT !.left = IF @ = 0 THEN 0 ELSE @ - 1] \in Attempt
    BY LimitsAssumption DEF TypeOK, Attempt
  <2>2. \A client \in Keys : Older(failed[client]) \in [Ages -> Nat]
    BY OlderYounger DEF TypeOK
  <2> QED
    BY <1>4, <2>1, <2>2 DEF Tick, TypeOK, Older
<1>5. CASE UNCHANGED vars
  BY <1>5 DEF vars, TypeOK
<1> QED
  BY <1>1, <1>2, <1>3, <1>4, <1>5 DEF Next

(* Type correctness; in particular whatever a request says of itself, it   *)
(* is counted under an address it has or under "direct".                   *)
THEOREM TypeCorrect == Spec => []TypeOK
BY InitTypes, StepTypes, PTL DEF Spec

--------------------------------------------------------------------------------
(* The logins under way with a key. *)
LEMMA InFlightCount ==
  /\ Cardinality(Logins) \in Nat /\ Most \in Nat
  /\ \A k : /\ IsFiniteSet(InFlight(k)) /\ Cardinality(InFlight(k)) \in Nat
           /\ Cardinality(InFlight(k)) <= Cardinality(Logins)
<1>1. Cardinality(Logins) \in Nat
  BY LimitsAssumption, FS_CardinalityType
<1>2. ASSUME NEW k
      PROVE  /\ IsFiniteSet(InFlight(k)) /\ Cardinality(InFlight(k)) \in Nat
             /\ Cardinality(InFlight(k)) <= Cardinality(Logins)
  <2>1. InFlight(k) \subseteq Logins
    BY DEF InFlight
  <2> QED
    BY <2>1, LimitsAssumption, FS_Subset, FS_CardinalityType
<1> QED
  BY <1>1, <1>2, LimitsAssumption DEF Most

LEMMA FewerInFlight ==
  ASSUME NEW k, InFlight(k)' \subseteq InFlight(k)
  PROVE  /\ Cardinality(InFlight(k)') \in Nat /\ Cardinality(InFlight(k)) \in Nat
         /\ Cardinality(InFlight(k)') <= Cardinality(InFlight(k))
BY InFlightCount, FS_Subset, FS_CardinalityType

LEMMA SameKeys ==
  UNCHANGED trustedProxies =>
    \A r : LoginAttemptKey(r)' = LoginAttemptKey(r) /\ Client(r)' = Client(r)
BY DEF LoginAttemptKey, Client

LEMMA StartsInFlight ==
  ASSUME TypeOK, NEW l \in Logins, NEW r \in Requests, At(l, "idle"), Starts(l, r),
         UNCHANGED trustedProxies, NEW k
  PROVE  InFlight(k)' \subseteq InFlight(k)
           \cup {m \in {l} : k = LoginAttemptKey(r)}
<1> SUFFICES ASSUME NEW m \in Logins, m \in InFlight(k)', m \notin InFlight(k)
             PROVE  m = l /\ k = LoginAttemptKey(r)
  BY DEF InFlight
<1>1. ~(At(m, "idle")') /\ LoginAttemptKey(login'[m].request) = k
  BY SameKeys DEF InFlight, Key
<1>2. CASE m # l
  <2>1. login'[m] = login[m]
    BY <1>2 DEF Starts, TypeOK
  <2> QED
    BY <1>1, <2>1 DEF InFlight, Key, At
<1>3. CASE m = l
  <2>1. login'[m].request = r
    BY <1>3 DEF Starts, TypeOK
  <2> QED
    BY <1>1, <1>3, <2>1
<1> QED
  BY <1>2, <1>3

LEMMA EndsInFlight ==
  ASSUME TypeOK, NEW l \in Logins, Ends(l), UNCHANGED trustedProxies, NEW k
  PROVE  InFlight(k)' \subseteq InFlight(k) \ {l}
<1> SUFFICES ASSUME NEW m \in Logins, m \in InFlight(k)'
             PROVE  m \in InFlight(k) \ {l}
  BY DEF InFlight
<1>1. ~(At(m, "idle")') /\ LoginAttemptKey(login'[m].request) = k
  BY SameKeys DEF InFlight, Key
<1>2. m # l
  <2>1. login'[l].at = "idle"
    BY DEF Ends, TypeOK, Idle
  <2> QED
    BY <1>1, <2>1 DEF At
<1>3. login'[m] = login[m]
  BY <1>2 DEF Ends, TypeOK
<1> QED
  BY <1>1, <1>2, <1>3 DEF InFlight, Key, At

LEMMA GotoInFlight ==
  ASSUME TypeOK, NEW l \in Logins, At(l, "body"), Goto(l, "verify"),
         UNCHANGED trustedProxies, NEW k
  PROVE  InFlight(k)' \subseteq InFlight(k)
<1> SUFFICES ASSUME NEW m \in Logins, m \in InFlight(k)'
             PROVE  m \in InFlight(k)
  BY DEF InFlight
<1>1. ~(At(m, "idle")') /\ LoginAttemptKey(login'[m].request) = k
  BY SameKeys DEF InFlight, Key
<1>2. CASE m # l
  <2>1. login'[m] = login[m]
    BY <1>2 DEF Goto, TypeOK
  <2> QED
    BY <1>1, <2>1 DEF InFlight, Key, At
<1>3. CASE m = l
  <2>1. login[l] \in [at : {"body", "verify"}, request : Requests]
    BY DEF TypeOK, At, Login, Idle
  <2>2. login'[m].request = login[m].request
    BY <1>3, <2>1 DEF Goto, TypeOK
  <2> QED
    BY <1>1, <1>3, <2>2 DEF InFlight, Key, At
<1> QED
  BY <1>2, <1>3

(* A client that a step does not count and that has no new login. *)
LEMMA Unaffected ==
  ASSUME TypeOK, NEW k \in Keys, WindowInv(k), InFlight(k)' \subseteq InFlight(k),
         k \in DOMAIN attempts' <=> k \in DOMAIN attempts,
         k \in DOMAIN attempts => attempts'[k] = attempts[k],
         failed'[k] = failed[k]
  PROVE  WindowInv(k)'
<1>1. Counts(k)' <=> Counts(k)
  BY DEF Counts
<1>2. CASE k \notin DOMAIN attempts
  BY <1>1, <1>2 DEF WindowInv, NoWindow, Counts
<1>3. CASE k \in DOMAIN attempts /\ ~Counts(k)
  BY <1>1, <1>3 DEF WindowInv, WindowOver
<1>4. CASE Counts(k)
  <2>1. attempts[k].count \in Nat
    BY <1>4 DEF Counts, TypeOK, Attempt
  <2>2. attempts[k].count + Cardinality(InFlight(k)) <= Most
    BY <1>4 DEF WindowInv, WindowOpen
  <2>3. attempts[k].count + Cardinality(InFlight(k)') <= Most
    BY <2>1, <2>2, FewerInFlight, InFlightCount
  <2> QED
    BY <1>1, <1>4, <2>3 DEF WindowInv, WindowOpen, Counts
<1> QED
  BY <1>2, <1>3, <1>4

(* Where no window is open, no failure is of this instant. *)
LEMMA NoOpenWindow ==
  ASSUME IInv, NEW k \in Keys, ~Counts(k)
  PROVE  /\ Sum(failed[k]) <= Most /\ Sum(failed[k]) \in Nat
         /\ Younger(failed[k])[1] = 0
<1>1. 0 \in Ages /\ LoginWindow \in 0 .. LoginWindow /\ failed[k] \in [Ages -> Nat]
  BY LimitsAssumption DEF Ages, IInv, TypeOK
<1>2. failed[k][0] = 0 /\ Sum(failed[k]) <= Most /\ Sum(failed[k]) \in Nat
  <2>1. CASE k \in DOMAIN attempts
    BY <1>1, <2>1, YoungerDef DEF IInv, WindowInv, WindowOver, Sum
  <2>2. CASE k \notin DOMAIN attempts
    <3>1. failed[k] = NoFailures
      BY <2>2 DEF IInv, WindowInv, NoWindow
    <3>2. Sum(failed[k]) = 0
      BY <1>1, <3>1, NoneYounger DEF Sum
    <3> QED
      BY <1>1, <3>1, <3>2, InFlightCount DEF NoFailures
  <2> QED
    BY <2>1, <2>2
<1>3. Younger(failed[k])[1] = Younger(failed[k])[1 - 1] + failed[k][1 - 1]
  BY <1>1, YoungerDef, LimitsAssumption
<1>4. Younger(failed[k])[0] = 0
  BY <1>1, YoungerDef
<1> QED
  BY <1>2, <1>3, <1>4

(* A login that is let in: fewer than MaxLoginAttempts failures count.     *)
LEMMA ArriveKeeps ==
  ASSUME IInv, NEW l \in Logins, NEW r \in Requests, Arrive(l, r), NEW k \in Keys
  PROVE  WindowInv(k)'
<1> DEFINE key == LoginAttemptKey(r)
<1>1. /\ At(l, "idle") /\ ~Limited(key) /\ Starts(l, r)
      /\ UNCHANGED <<trustedProxies, failed>>
      /\ IF Counts(key) THEN UNCHANGED attempts ELSE SetAttempt(key, 0, LoginWindow)
  BY DEF Arrive
<1>2. InFlight(k)' \subseteq InFlight(k) \cup {m \in {l} : k = key}
  BY <1>1, StartsInFlight DEF IInv
<1>3. failed'[k] = failed[k] /\ failed[k] \in [Ages -> Nat]
  BY <1>1 DEF IInv, TypeOK
<1> HIDE DEF key
<1>4. CASE k # key
  <2>1. InFlight(k)' \subseteq InFlight(k)
    BY <1>2, <1>4
  <2>2. /\ k \in DOMAIN attempts' <=> k \in DOMAIN attempts
        /\ k \in DOMAIN attempts => attempts'[k] = attempts[k]
    BY <1>1, <1>4 DEF SetAttempt
  <2> QED
    BY <1>3, <2>1, <2>2, Unaffected DEF IInv
<1>5. /\ Cardinality(InFlight(k)') \in Nat
      /\ Cardinality(InFlight(k)') <= Cardinality(Logins)
  <2>1. InFlight(k)' \subseteq Logins
    BY DEF InFlight
  <2> QED
    BY <2>1, LimitsAssumption, FS_Subset, FS_CardinalityType
<1>6. CASE k = key /\ Counts(k)
  <2>1. UNCHANGED attempts /\ (Counts(k)' <=> Counts(k))
    BY <1>1, <1>6 DEF Counts
  <2>2. attempts[k].count \in Nat /\ attempts[k].count < MaxLoginAttempts
    BY <1>1, <1>6, LimitsAssumption DEF Limited, Counts, IInv, TypeOK, Attempt
  <2>3. attempts[k].count + Cardinality(InFlight(k)') <= Most
    BY <1>5, <2>2, InFlightCount, LimitsAssumption DEF Most
  <2> QED
    BY <1>3, <1>6, <2>1, <2>3 DEF IInv, WindowInv, WindowOpen, Counts
<1>7. CASE k = key /\ ~Counts(k)
  <2>1. k \in DOMAIN attempts' /\ attempts'[k] = [count |-> 0, left |-> LoginWindow]
    BY <1>1, <1>7 DEF SetAttempt
  <2>2. /\ Sum(failed[k]) <= Most /\ Sum(failed[k]) \in Nat
        /\ Younger(failed[k])[1] = 0
    BY <1>7, NoOpenWindow
  <2>4. 0 + Cardinality(InFlight(k)') <= Most
    BY <1>5, InFlightCount, LimitsAssumption DEF Most
  <2>5. Counts(k)' /\ LoginWindow - attempts'[k].left + 1 = 1 /\ attempts'[k].count = 0
    BY <2>1, LimitsAssumption DEF Counts
  <2>6. WindowOpen(k)'
    BY <1>3, <2>2, <2>4, <2>5 DEF WindowOpen
  <2> QED
    BY <2>1, <2>5, <2>6 DEF WindowInv
<1> QED
  BY <1>4, <1>6, <1>7

(* A login that fails is counted, in the open window or in a new one.      *)
LEMMA FailKeeps ==
  ASSUME IInv, NEW l \in Logins, ~At(l, "idle"), Fail(l), UNCHANGED trustedProxies,
         NEW k \in Keys
  PROVE  WindowInv(k)'
<1> DEFINE key == Key(l)
<1>1. /\ RecordFailedLogin(key) /\ Ends(l) /\ key \in Keys
      /\ failed' = [failed EXCEPT ![key][0] = @ + 1]
  <2>1. login[l].request \in Requests /\ key \in Keys
    BY LoginTypes DEF IInv
  <2>2. Client(login[l].request) = key
    BY <2>1 DEF IInv, KeysMatch, Key
  <2> QED
    BY <2>1, <2>2 DEF Fail
<1>2. InFlight(k)' \subseteq InFlight(k) \ {l} /\ InFlight(k)' \subseteq InFlight(k)
  BY <1>1, EndsInFlight DEF IInv
<1>3. key = k => l \in InFlight(k)
  BY DEF InFlight
<1>4. failed[k] \in [Ages -> Nat]
  BY DEF IInv, TypeOK
<1> HIDE DEF key
<1>5. CASE k # key
  <2>1. /\ k \in DOMAIN attempts' <=> k \in DOMAIN attempts
        /\ k \in DOMAIN attempts => attempts'[k] = attempts[k]
    BY <1>1, <1>5 DEF RecordFailedLogin, SetAttempt
  <2>2. failed'[k] = failed[k]
    BY <1>1, <1>5 DEF IInv, TypeOK
  <2> QED
    BY <1>2, <2>1, <2>2, Unaffected DEF IInv
<1>6. ASSUME k = key
      PROVE  /\ failed'[k] = [failed[k] EXCEPT ![0] = @ + 1]
             /\ \A age \in 1 .. LoginWindow :
                  Younger(failed'[k])[age] = Younger(failed[k])[age] + 1
  <2>1. failed'[k] = [failed[k] EXCEPT ![0] = @ + 1]
    BY <1>1, <1>6 DEF IInv, TypeOK
  <2> QED
    BY <1>4, <2>1, OneMoreYounger
<1>7. /\ Cardinality(InFlight(k)') \in Nat /\ Cardinality(InFlight(k)) \in Nat
      /\ k = key => Cardinality(InFlight(k)') <= Cardinality(InFlight(k)) - 1
      /\ Cardinality(InFlight(k)') <= Cardinality(Logins)
      /\ k = key => 1 + Cardinality(InFlight(k)') <= Cardinality(Logins)
  <2>1. IsFiniteSet(InFlight(k)) /\ Cardinality(InFlight(k)) <= Cardinality(Logins)
    BY InFlightCount
  <2>2. k = key => /\ IsFiniteSet(InFlight(k) \ {l})
                   /\ Cardinality(InFlight(k) \ {l}) = Cardinality(InFlight(k)) - 1
    BY <1>3, <2>1, FS_RemoveElement
  <2>3. k = key => Cardinality(InFlight(k)') <= Cardinality(InFlight(k) \ {l})
    BY <1>2, <2>2, FS_Subset
  <2>4. /\ Cardinality(InFlight(k)') \in Nat /\ Cardinality(InFlight(k)) \in Nat
        /\ Cardinality(InFlight(k)') <= Cardinality(InFlight(k))
    BY <1>2, FewerInFlight
  <2> QED
    BY <2>1, <2>2, <2>3, <2>4, InFlightCount
<1>8. CASE k = key /\ Counts(k)
  <2>1. /\ attempts[k].count \in Nat /\ attempts[k].left \in 1 .. LoginWindow
        /\ k \in DOMAIN attempts
    BY <1>8, LimitsAssumption DEF Counts, IInv, TypeOK, Attempt
  <2>2. /\ k \in DOMAIN attempts' /\ attempts'[k].left = attempts[k].left
        /\ attempts'[k].count = attempts[k].count + 1
    BY <1>1, <1>8 DEF RecordFailedLogin, SetAttempt
  <2>3. WindowOpen(k)
    BY <1>8 DEF IInv, WindowInv
  <2> DEFINE age == LoginWindow - attempts[k].left + 1
  <2>4. age \in 1 .. LoginWindow /\ LoginWindow \in 1 .. LoginWindow
    BY <2>1, LimitsAssumption
  <2> HIDE DEF age
  <2>5. Younger(failed'[k])[age] = attempts[k].count + 1
    BY <1>6, <1>8, <2>3, <2>4 DEF WindowOpen, age
  <2>6. Sum(failed'[k]) - (attempts[k].count + 1) <= Most
    <3>1. Sum(failed[k]) \in Nat /\ Sum(failed'[k]) = Sum(failed[k]) + 1
      BY <1>4, <1>6, <1>8, <2>4, YoungerDef, LimitsAssumption DEF Sum
    <3> QED
      BY <2>1, <2>3, <3>1, InFlightCount DEF WindowOpen
  <2>7. attempts[k].count + 1 + Cardinality(InFlight(k)') <= Most
    BY <1>7, <1>8, <2>1, <2>3, InFlightCount DEF WindowOpen
  <2> QED
    BY <2>1, <2>2, <2>5, <2>6, <2>7 DEF WindowInv, WindowOpen, Counts, age
<1>9. CASE k = key /\ ~Counts(k)
  <2>1. k \in DOMAIN attempts' /\ attempts'[k] = [count |-> 1, left |-> LoginWindow]
    BY <1>1, <1>9 DEF RecordFailedLogin, SetAttempt
  <2>2. /\ Sum(failed[k]) <= Most /\ Sum(failed[k]) \in Nat
        /\ Younger(failed[k])[1] = 0
    BY <1>9, NoOpenWindow
  <2>3. Younger(failed'[k])[1] = 1
    BY <1>6, <1>9, <2>2, LimitsAssumption
  <2>4. Sum(failed'[k]) = Sum(failed[k]) + 1
    BY <1>6, <1>9, LimitsAssumption DEF Sum
  <2>5. 1 + Cardinality(InFlight(k)') <= Most
    BY <1>7, <1>9, InFlightCount, LimitsAssumption DEF Most
  <2>6. Counts(k)' /\ LoginWindow - attempts'[k].left + 1 = 1 /\ attempts'[k].count = 1
    BY <2>1, LimitsAssumption DEF Counts
  <2>7. Sum(failed'[k]) - 1 <= Most
    BY <2>2, <2>4, InFlightCount
  <2>8. WindowOpen(k)'
    BY <2>3, <2>5, <2>6, <2>7 DEF WindowOpen
  <2> QED
    BY <2>1, <2>6, <2>8 DEF WindowInv
<1> QED
  BY <1>5, <1>8, <1>9

(* A login that succeeds: the client starts anew.                          *)
LEMMA SuccessKeeps ==
  ASSUME IInv, NEW l \in Logins, ~At(l, "idle"), ClearFailedLogins(Key(l)),
         failed' = [failed EXCEPT ![Client(login[l].request)] = NoFailures],
         Ends(l), UNCHANGED trustedProxies, NEW k \in Keys
  PROVE  WindowInv(k)'
<1>1. Client(login[l].request) = Key(l)
  BY LoginTypes DEF IInv, KeysMatch, Key
<1>2. InFlight(k)' \subseteq InFlight(k)
  BY EndsInFlight DEF IInv
<1>3. CASE k = Key(l)
  <2>1. k \notin DOMAIN attempts' /\ failed'[k] = NoFailures
    BY <1>1, <1>3 DEF ClearFailedLogins, IInv, TypeOK
  <2> QED
    BY <2>1 DEF WindowInv, NoWindow, Counts
<1>4. CASE k # Key(l)
  <2>1. /\ k \in DOMAIN attempts' <=> k \in DOMAIN attempts
        /\ k \in DOMAIN attempts => attempts'[k] = attempts[k]
        /\ failed'[k] = failed[k]
    BY <1>1, <1>4 DEF ClearFailedLogins, IInv, TypeOK
  <2> QED
    BY <1>2, <2>1, Unaffected DEF IInv
<1> QED
  BY <1>3, <1>4

(* A tick makes failures older and windows shorter, or over.               *)
LEMMA TickKeeps ==
  ASSUME IInv, Tick, NEW k \in Keys
  PROVE  WindowInv(k)'
<1>1. InFlight(k)' \subseteq InFlight(k)
  BY SameKeys DEF Tick, InFlight, Key, At
<1>2. /\ failed[k] \in [Ages -> Nat] /\ failed'[k] \in [Ages -> Nat]
      /\ \A age \in 1 .. LoginWindow : Younger(failed'[k])[age] = Younger(failed[k])[age - 1]
  <2>1. failed[k] \in [Ages -> Nat]
    BY DEF IInv, TypeOK
  <2>2. failed'[k] = Older(failed[k])
    BY DEF Tick, Older
  <2> QED
    BY <2>1, <2>2, OlderYounger
<1>3. failed'[k][0] = 0 /\ 0 \in Ages
  BY LimitsAssumption DEF Tick, Ages
<1>4. /\ LoginWindow - 1 \in 0 .. LoginWindow /\ LoginWindow \in 1 .. LoginWindow
      /\ LoginWindow \in (LoginWindow - 1) .. LoginWindow
  BY LimitsAssumption
<1>5. /\ Sum(failed'[k]) = Younger(failed[k])[LoginWindow - 1]
      /\ Sum(failed'[k]) <= Sum(failed[k])
      /\ Sum(failed'[k]) \in Nat /\ Sum(failed[k]) \in Nat
  <2>1. Sum(failed'[k]) = Younger(failed[k])[LoginWindow - 1]
    BY <1>2, <1>4 DEF Sum
  <2>2. Younger(failed[k])[LoginWindow - 1] <= Sum(failed[k])
    BY <1>2, <1>4, YoungerGrows
  <2>3. Sum(failed[k]) \in Nat /\ Sum(failed'[k]) \in Nat
    BY <1>2, <1>4, YoungerDef, LimitsAssumption DEF Sum
  <2> QED
    BY <2>1, <2>2, <2>3
<1>6. DOMAIN attempts' = DOMAIN attempts
  BY DEF Tick
<1>7. ASSUME k \in DOMAIN attempts
      PROVE  /\ attempts[k].count \in Nat /\ attempts[k].left \in 0 .. LoginWindow
             /\ attempts'[k].count = attempts[k].count
             /\ attempts'[k].left = IF attempts[k].left = 0 THEN 0 ELSE attempts[k].left - 1
  <2>1. attempts[k] \in Attempt
    BY <1>7 DEF IInv, TypeOK
  <2> QED
    BY <1>7, <2>1 DEF Tick, Attempt
<1>8. CASE k \notin DOMAIN attempts
  <2>1. failed[k] = NoFailures
    BY <1>8 DEF IInv, WindowInv, NoWindow
  <2>2. failed'[k] = NoFailures
    <3>1. failed'[k] = Older(failed[k])
      BY DEF Tick, Older
    <3>2. Older(NoFailures) = NoFailures
      BY LimitsAssumption DEF Older, NoFailures, Ages
    <3> QED
      BY <2>1, <3>1, <3>2
  <2> QED
    BY <1>6, <1>8, <2>2 DEF WindowInv, NoWindow, Counts
<1>9. CASE k \in DOMAIN attempts /\ ~Counts(k)
  <2>1. ~Counts(k)'
    BY <1>7, <1>9 DEF Counts
  <2>2. Sum(failed[k]) <= Most
    BY <1>9, NoOpenWindow
  <2>3. WindowOver(k)'
    BY <1>3, <1>5, <2>2, InFlightCount DEF WindowOver
  <2> QED
    BY <1>6, <1>9, <2>1, <2>3 DEF WindowInv
<1>10. CASE Counts(k)
  <2>1. k \in DOMAIN attempts /\ attempts[k].left \in 1 .. LoginWindow
    BY <1>7, <1>10, LimitsAssumption DEF Counts
  <2>2. WindowOpen(k)
    BY <1>10 DEF IInv, WindowInv
  <2>3. attempts'[k].left = attempts[k].left - 1 /\ attempts'[k].count = attempts[k].count
    BY <1>7, <2>1
  <2> DEFINE age == LoginWindow - attempts[k].left + 1
  <2>4. age \in 1 .. LoginWindow /\ age \in 0 .. LoginWindow
    BY <2>1, LimitsAssumption
  <2>5. Younger(failed[k])[age] = attempts[k].count
    BY <2>2 DEF WindowOpen
  <2>6. CASE attempts[k].left = 1
    <3>1. attempts[k].count <= Most
      BY <1>7, <2>1, <2>2, InFlightCount DEF WindowOpen
    <3>2. age = LoginWindow
      BY <2>6, LimitsAssumption
    <3>3. Sum(failed[k]) = attempts[k].count
      BY <2>5, <3>2 DEF Sum
    <3>4. ~Counts(k)'
      BY <2>3, <2>6 DEF Counts
    <3>5. WindowOver(k)'
      BY <1>3, <1>5, <1>7, <2>1, <3>1, <3>3, InFlightCount DEF WindowOver
    <3> QED
      BY <1>6, <2>1, <3>4, <3>5 DEF WindowInv
  <2>7. CASE attempts[k].left # 1
    <3>1. /\ LoginWindow - attempts'[k].left + 1 = age + 1
          /\ age + 1 \in 1 .. LoginWindow /\ age + 1 - 1 = age
      BY <2>1, <2>3, <2>7, LimitsAssumption
    <3> HIDE DEF age
    <3>2. Younger(failed'[k])[age + 1] = attempts[k].count
      <4>1. Younger(failed'[k])[age + 1] = Younger(failed[k])[age + 1 - 1]
        BY <1>2, <2>4, <3>1
      <4> QED
        BY <2>5, <3>1, <4>1
    <3>3. Sum(failed'[k]) - attempts[k].count <= Most
      BY <1>5, <1>7, <2>1, <2>2, InFlightCount DEF WindowOpen
    <3>4. attempts[k].count + Cardinality(InFlight(k)') <= Most
      BY <1>1, <1>7, <2>1, <2>2, FewerInFlight, InFlightCount DEF WindowOpen
    <3>5. WindowOpen(k)'
      BY <2>3, <3>1, <3>2, <3>3, <3>4 DEF WindowOpen
    <3>6. Counts(k)'
      BY <1>6, <2>1, <2>3, <2>7 DEF Counts
    <3> QED
      BY <1>6, <2>1, <3>5, <3>6 DEF WindowInv
  <2> QED
    BY <2>6, <2>7
<1> QED
  BY <1>8, <1>9, <1>10

LEMMA KeysAreClients == TypeOK => KeysMatch
<1> SUFFICES ASSUME TypeOK, NEW r \in Requests PROVE LoginAttemptKey(r) = Client(r)
  BY DEF KeysMatch
<1>1. CASE r.remote = NoHeader
  BY <1>1 DEF LoginAttemptKey, Client, ClientIp
<1>2. CASE r.remote # NoHeader
  <2>1. r.remote \in PlainAddresses /\ trustedProxies \in SUBSET Cidrs
    BY <1>2, RequestsAssumption, ListsAssumption DEF TypeOK
  <2>2. IsIPInCIDRList(r.remote, trustedProxies)
          <=> \E cidr \in trustedProxies : Belongs(r.remote, cidr)
    BY <2>1, ListMatches
  <2> QED
    BY <1>2, <2>2 DEF LoginAttemptKey, Client, ClientIp, Names
<1> QED
  BY <1>1, <1>2

LEMMA InitIInv == Init => IInv
<1> SUFFICES ASSUME Init PROVE IInv
  OBVIOUS
<1>1. TypeOK /\ KeysMatch
  BY InitTypes, KeysAreClients
<1>2. ASSUME NEW k \in Keys PROVE WindowInv(k)
  BY DEF Init, WindowInv, NoWindow, Counts
<1> QED
  BY <1>1, <1>2 DEF IInv

LEMMA StepIInv == IInv /\ [Next]_vars => IInv'
<1> SUFFICES ASSUME IInv, [Next]_vars PROVE IInv'
  OBVIOUS
<1>1. TypeOK' /\ KeysMatch'
  <2>1. TypeOK' /\ UNCHANGED trustedProxies
    BY StepTypes DEF IInv, Next, vars, Arrive, BodyArrives, PasswordVerified, Tick
  <2> QED
    BY <2>1, SameKeys DEF IInv, KeysMatch
<1>2. ASSUME NEW k \in Keys PROVE WindowInv(k)'
  <2>1. ASSUME NEW l \in Logins, NEW r \in Requests, Arrive(l, r) PROVE WindowInv(k)'
    BY <2>1, ArriveKeeps
  <2>2. ASSUME NEW l \in Logins, BodyArrives(l) PROVE WindowInv(k)'
    <3>1. At(l, "body") /\ ~At(l, "idle") /\ UNCHANGED trustedProxies
      BY <2>2 DEF BodyArrives, At
    <3>2. CASE Fail(l)
      BY <3>1, <3>2, FailKeeps
    <3>3. CASE (Ends(l) \/ Goto(l, "verify")) /\ UNCHANGED <<attempts, failed>>
      <4>1. InFlight(k)' \subseteq InFlight(k)
        BY <3>1, <3>3, EndsInFlight, GotoInFlight DEF IInv
      <4> QED
        BY <3>3, <4>1, Unaffected DEF IInv
    <3> QED
      BY <2>2, <3>2, <3>3 DEF BodyArrives
  <2>3. ASSUME NEW l \in Logins, PasswordVerified(l) PROVE WindowInv(k)'
    <3>1. ~At(l, "idle") /\ UNCHANGED trustedProxies
      BY <2>3 DEF PasswordVerified, At
    <3> QED
      BY <2>3, <3>1, FailKeeps, SuccessKeeps DEF PasswordVerified
  <2>4. CASE Tick
    BY <2>4, TickKeeps
  <2>5. CASE UNCHANGED vars
    <3>1. InFlight(k)' \subseteq InFlight(k)
      BY <2>5, SameKeys DEF vars, InFlight, Key, At
    <3> QED
      BY <2>5, <3>1, Unaffected DEF IInv, vars
  <2> QED
    BY <2>1, <2>2, <2>3, <2>4, <2>5 DEF Next
<1> QED
  BY <1>1, <1>2 DEF IInv

(* The invariant: what the table of failed logins knows of each client, and*)
(* that it knows the clients apart.                                        *)
THEOREM LoginInvariant == Spec => []IInv
BY InitIInv, StepIInv, PTL DEF Spec

LEMMA BoundedAttempts == IInv => AttemptBound
<1> SUFFICES ASSUME IInv, NEW client \in Keys PROVE Sum(failed[client]) <= 2 * Most
  BY DEF AttemptBound, Most
<1>1. failed[client] \in [Ages -> Nat] /\ Sum(failed[client]) \in Nat /\ WindowInv(client)
  BY YoungerDef, LimitsAssumption DEF IInv, TypeOK, Sum
<1>2. Most \in Nat
  BY InFlightCount
<1>3. CASE ~Counts(client)
  BY <1>1, <1>2, <1>3, NoOpenWindow
<1>4. CASE Counts(client)
  <2>1. attempts[client].count \in Nat
    BY <1>4 DEF Counts, IInv, TypeOK, Attempt
  <2>2. Cardinality(InFlight(client)) \in Nat
    BY InFlightCount, FS_CardinalityType
  <2> QED
    BY <1>1, <1>2, <1>4, <2>1, <2>2 DEF WindowInv, WindowOpen
<1> QED
  BY <1>3, <1>4

LEMMA LockedOutBySelf == IInv => LockedOutForCause
<1> SUFFICES ASSUME IInv, NEW r \in Requests, Limited(LoginAttemptKey(r))
             PROVE  Sum(failed[Client(r)]) >= MaxLoginAttempts
  BY DEF LockedOutForCause
<1> DEFINE k == Client(r)
<1>1. k \in Keys /\ LoginAttemptKey(r) = k
  BY KeyTypes DEF IInv, KeysMatch
<1> HIDE DEF k
<1>2. Counts(k) /\ attempts[k].count >= MaxLoginAttempts
  BY <1>1 DEF Limited
<1>3. /\ failed[k] \in [Ages -> Nat] /\ WindowOpen(k)
      /\ attempts[k].count \in Nat /\ attempts[k].left \in 1 .. LoginWindow
  BY <1>1, <1>2, LimitsAssumption DEF IInv, TypeOK, WindowInv, Counts, Attempt
<1> DEFINE age == LoginWindow - attempts[k].left + 1
<1>4. age \in 0 .. LoginWindow
  BY <1>3, LimitsAssumption
<1>5. Younger(failed[k])[age] = attempts[k].count
  BY <1>3 DEF WindowOpen
<1> HIDE DEF age
<1>6. Younger(failed[k])[age] <= Sum(failed[k])
  BY <1>3, <1>4, YoungerGrows
<1>7. Sum(failed[k]) \in Nat
  BY <1>3, YoungerDef, LimitsAssumption DEF Sum
<1> QED
  BY <1>2, <1>3, <1>5, <1>6, <1>7, LimitsAssumption DEF k

LEMMA Membership == TypeOK => MatchIsMembership
<1> SUFFICES ASSUME TypeOK, NEW ip \in PlainAddresses, NEW cidr \in Cidrs
             PROVE  IsIPInCIDRList(ip, trustedProxies \cup {cidr})
                      <=> \E c \in trustedProxies \cup {cidr} : Belongs(ip, c)
  BY DEF MatchIsMembership
<1>1. trustedProxies \cup {cidr} \in SUBSET Cidrs
  BY ListsAssumption DEF TypeOK
<1> QED
  BY <1>1, ListMatches

(* However its logins overlap and whenever its windows open, a client fails*)
(* within any LoginWindow no oftener than two windows allow, each of them  *)
(* the limit and the logins that isLoginRateLimited let in before they were*)
(* counted.                                                                *)
THEOREM AttemptBoundCorrect == Spec => []AttemptBound
BY LoginInvariant, BoundedAttempts, PTL

(* Who is answered 429 has failed MaxLoginAttempts times itself within the *)
(* last LoginWindow, whichever headers the others send.                    *)
THEOREM LockedOutForCauseCorrect == Spec => []LockedOutForCause
BY LoginInvariant, LockedOutBySelf, PTL

(* isIPInCIDRList decides by masks and by strings of bits what is meant by *)
(* the ranges of numbers: for octets and groups of any number and width.   *)
THEOREM MatchIsMembershipCorrect == Spec => []MatchIsMembership
BY TypeCorrect, Membership, PTL

================================================================================
