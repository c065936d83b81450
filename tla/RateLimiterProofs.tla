--------------------------- MODULE RateLimiterProofs ---------------------------
(***************************************************************************)
(* The admission bound of the rate limiter, for any number of keys, any    *)
(* configurations, any granularity of time and any run of the clock.       *)
(* The products of the bound are kept out of the steps about actions: the  *)
(* arithmetic lemmas below say all that is needed of them.                 *)
(***************************************************************************)
EXTENDS RateLimiter, TLAPS

(* What a request would find in the bucket now is covered, together with   *)
(* what was admitted in the window, by what the window allows.             *)
AllowedAt(w, t) == w.burst * Unit + w.rpm * (t - w.since)

Allowed(w) == AllowedAt(w, elapsed)

CreditOf(id) ==
  LET w == window[id]
      b == buckets[id]
  IN  /\ w.since <= elapsed
      /\ w.count * Unit <= Allowed(w)
      /\ id \notin known => w.count = 0
      /\ id \in known => /\ b.capacity <= w.burst
                         /\ b.rate <= w.rpm
                         /\ w.count * Unit + Refilled(b, clock) <= Allowed(w)

Credit == \A id \in Ids : CreditOf(id)

--------------------------------------------------------------------------------
(* Arithmetic. *)

(* Products of integers, for the solvers, which do not multiply by         *)
(* themselves.                                                             *)
LEMMA MulType == \A a, b \in Int : a * b \in Int
BY Z3

(* Products of natural numbers are natural. *)
LEMMA MulNat == \A a, b \in Nat : a * b \in Nat
BY Z3

(* Multiplying by a natural number keeps the order. *)
LEMMA MulMonotone ==
  ASSUME NEW a \in Int, NEW b \in Int, NEW n \in Nat, a <= b
  PROVE  a * n <= b * n
BY Z3

(* One token more or less changes a product by one factor. *)
LEMMA MulSucc == \A a, b \in Int : (a + 1) * b = a * b + b /\ (a - 1) * b = a * b - b
BY Z3

(* Products commute. *)
LEMMA MulComm == \A a, b \in Int : a * b = b * a
BY Z3

(* No time and no requests make no tokens. *)
LEMMA MulZero == \A a \in Int : 0 * a = 0 /\ a * 0 = 0
BY Z3

(* A window that widens, or over which time passes, allows more. *)
LEMMA AllowedMore ==
  ASSUME NEW b1 \in Nat, NEW b2 \in Nat, NEW r1 \in Nat, NEW r2 \in Nat,
         NEW t1 \in Nat, NEW t2 \in Nat, NEW u \in Nat,
         b1 <= b2, r1 <= r2, t1 <= t2
  PROVE  b1 * u + r1 * t1 <= b2 * u + r2 * t2
<1>1. b1 * u <= b2 * u
  BY MulMonotone
<1>2. r1 * t1 <= r2 * t1
  BY MulMonotone
<1>3. r2 * t1 <= r2 * t2
  <2>1. t1 * r2 <= t2 * r2
    BY MulMonotone
  <2> QED  BY <2>1, MulComm
<1>4. /\ b1 * u \in Int /\ b2 * u \in Int
      /\ r1 * t1 \in Int /\ r2 * t1 \in Int /\ r2 * t2 \in Int
  BY MulType
<1> QED  BY <1>1, <1>2, <1>3, <1>4

--------------------------------------------------------------------------------
(* The bucket operators. *)

(* refillBucket() yields a number of tokens that fits the capacity. *)
LEMMA RefilledType ==
  ASSUME NEW b \in Bucket, NEW t \in Int
  PROVE  Refilled(b, t) \in Int /\ Refilled(b, t) <= b.capacity * Unit
<1>1. b.capacity \in Int /\ b.tokens \in Int /\ b.rate \in Int /\ t - b.lastRefill \in Int
  BY DEF Bucket
<1>2. b.capacity * Unit \in Int /\ (t - b.lastRefill) * b.rate \in Int
  BY <1>1, MulType, UnitAssumption
<1> HIDE DEF Bucket
<1> QED  BY <1>1, <1>2 DEF Refilled, Least

(* Refilling a bucket twice at one moment is refilling it once. *)
LEMMA RefillTwice ==
  ASSUME NEW b \in Bucket, NEW t \in Int
  PROVE  /\ RefillBucket(b, t) \in Bucket
         /\ RefillBucket(b, t).tokens = Refilled(b, t)
         /\ RefillBucket(b, t).capacity = b.capacity
         /\ RefillBucket(b, t).rate = b.rate
         /\ Refilled(RefillBucket(b, t), t) = Refilled(b, t)
<1> DEFINE c == RefillBucket(b, t)
<1>1. Refilled(b, t) \in Int /\ Refilled(b, t) <= b.capacity * Unit
  BY RefilledType
<1>2. /\ c \in Bucket /\ c.tokens = Refilled(b, t) /\ c.lastRefill = t
      /\ c.capacity = b.capacity /\ c.rate = b.rate
  BY <1>1 DEF RefillBucket, Bucket
<1>3. (t - t) * b.rate = 0
  <2>1. t - t = 0 /\ b.rate \in Int
    BY DEF Bucket
  <2> QED  BY <2>1, MulZero
<1>4. b.capacity * Unit \in Int
  BY MulType, UnitAssumption DEF Bucket
<1>5. Refilled(c, t) = Least(b.capacity * Unit, Refilled(b, t) + 0)
  BY <1>2, <1>3 DEF Refilled
<1>6. Refilled(c, t) = Refilled(b, t)
  BY <1>1, <1>4, <1>5 DEF Least
<1> QED  BY <1>2, <1>6

(* Time adds at most the rate; a clock set back adds nothing. *)
LEMMA RefilledLater ==
  ASSUME NEW b \in Bucket, NEW t \in Int
  PROVE  /\ Refilled(b, t + 1) <= Refilled(b, t) + b.rate
         /\ Refilled(b, t - 1) <= Refilled(b, t)
<1> DEFINE e == t - b.lastRefill
<1>1. e \in Int /\ b.rate \in Nat /\ b.capacity \in Int /\ b.tokens \in Int
  BY DEF Bucket
<1>2. /\ (t + 1) - b.lastRefill = e + 1
      /\ (t - 1) - b.lastRefill = e - 1
  BY DEF Bucket
<1>3. (e + 1) * b.rate = e * b.rate + b.rate /\ (e - 1) * b.rate = e * b.rate - b.rate
  BY <1>1, MulSucc
<1>4. e * b.rate \in Int /\ b.capacity * Unit \in Int
  BY <1>1, MulType, UnitAssumption
<1> HIDE DEF e
<1>5. /\ Refilled(b, t + 1) = Least(b.capacity * Unit, b.tokens + (e * b.rate + b.rate))
      /\ Refilled(b, t - 1) = Least(b.capacity * Unit, b.tokens + (e * b.rate - b.rate))
      /\ Refilled(b, t) = Least(b.capacity * Unit, b.tokens + e * b.rate)
  BY <1>2, <1>3 DEF Refilled, e
<1> QED  BY <1>1, <1>4, <1>5 DEF Least

(* A new configuration takes tokens away or leaves them. *)
LEMMA ReconfiguredProperties ==
  ASSUME NEW b \in Bucket, NEW c \in Configs, NEW t \in Int
  PROVE  LET d == Reconfigured(b, c, t)
         IN  /\ d \in Bucket
             /\ d.capacity = c.burst /\ d.rate = c.rpm
             /\ Refilled(d, t) <= Refilled(b, t)
<1> DEFINE d == Reconfigured(b, c, t)
<1>0. c.burst \in Nat /\ c.rpm \in Nat /\ c.burst * Unit \in Int
  <2>1. c.burst \in Nat /\ c.rpm \in Nat
    BY ConfigsAssumption
  <2> QED  BY <2>1, MulType, UnitAssumption
<1>1. Refilled(b, t) \in Int
  BY RefilledType
<1>2. CASE b.capacity = c.burst /\ b.rate = c.rpm
  BY <1>1, <1>2 DEF Reconfigured
<1>3. CASE ~(b.capacity = c.burst /\ b.rate = c.rpm)
  <2>1. d = [tokens |-> Least(Refilled(b, t), c.burst * Unit), lastRefill |-> t,
             capacity |-> c.burst, rate |-> c.rpm]
    BY <1>3 DEF Reconfigured
  <2>2. Least(Refilled(b, t), c.burst * Unit) \in Int
    BY <1>0, <1>1 DEF Least
  <2>3. d \in Bucket /\ d.capacity = c.burst /\ d.rate = c.rpm
    BY <1>0, <2>1, <2>2 DEF Bucket
  <2>4. (t - t) * c.rpm = 0
    <3>1. t - t = 0
      OBVIOUS
    <3> QED  BY <1>0, <3>1, MulZero
  <2>5. Refilled(d, t) = Least(c.burst * Unit, Least(Refilled(b, t), c.burst * Unit) + 0)
    BY <2>1, <2>4 DEF Refilled
  <2>6. Refilled(d, t) <= Refilled(b, t)
    BY <1>0, <1>1, <2>5 DEF Least
  <2> QED  BY <2>3, <2>6
<1> QED  BY <1>2, <1>3

(* A new bucket is full and well typed. *)
LEMMA NewBucketProperties ==
  ASSUME NEW c \in Configs, NEW t \in Int
  PROVE  LET d == NewBucket(c, t)
         IN  /\ d \in Bucket
             /\ d.capacity = c.burst /\ d.rate = c.rpm
             /\ Refilled(d, t) <= c.burst * Unit
<1> DEFINE d == NewBucket(c, t)
<1>1. c.burst \in Nat /\ c.rpm \in Nat
  BY ConfigsAssumption
<1>2. c.burst * Unit \in Int
  BY <1>1, MulType, UnitAssumption
<1>3. d \in Bucket /\ d.capacity = c.burst /\ d.rate = c.rpm
  BY <1>1, <1>2 DEF NewBucket, Bucket
<1> QED  BY <1>3, RefilledType

--------------------------------------------------------------------------------
(* What a request finds. *)

(* The window of an id after a request with configuration c. *)
Wider(w, c) == Widened(w, c, 0)

(* A request widens the window it falls into and keeps what it allows. *)
LEMMA WiderProperties ==
  ASSUME TypeOK, NEW w \in Window, NEW c \in Configs, w.since <= elapsed
  PROVE  /\ Wider(w, c) \in Window
         /\ Wider(w, c).since = w.since /\ Wider(w, c).count = w.count
         /\ c.burst <= Wider(w, c).burst /\ c.rpm <= Wider(w, c).rpm
         /\ Allowed(w) <= Allowed(Wider(w, c))
         /\ c.burst * Unit <= Allowed(Wider(w, c))
<1> DEFINE v == Wider(w, c)
<1>1. c.burst \in Nat /\ c.rpm \in Nat
  BY ConfigsAssumption
<1>2. /\ v \in Window
      /\ v.since = w.since /\ v.count = w.count
      /\ c.burst <= v.burst /\ c.rpm <= v.rpm
      /\ w.burst <= v.burst /\ w.rpm <= v.rpm
  <2>2. v = [since |-> w.since, count |-> w.count + 0,
             burst |-> Greatest(w.burst, c.burst), rpm |-> Greatest(w.rpm, c.rpm)]
    BY DEF Wider, Widened
  <2>3. /\ w.burst \in Nat /\ w.rpm \in Nat /\ w.since \in Nat /\ w.count \in Nat
    BY DEF Window
  <2>4. /\ Greatest(w.burst, c.burst) \in Nat /\ Greatest(w.rpm, c.rpm) \in Nat
        /\ c.burst <= Greatest(w.burst, c.burst) /\ c.rpm <= Greatest(w.rpm, c.rpm)
        /\ w.burst <= Greatest(w.burst, c.burst) /\ w.rpm <= Greatest(w.rpm, c.rpm)
    BY <1>1, <2>3 DEF Greatest
  <2> QED  BY <2>2, <2>3, <2>4 DEF Window
<1>3. /\ w.burst \in Nat /\ w.rpm \in Nat /\ v.burst \in Nat /\ v.rpm \in Nat
      /\ elapsed - w.since \in Nat /\ Unit \in Nat
  BY <1>2, UnitAssumption DEF Window, TypeOK
<1> HIDE DEF v
<1>4. w.burst * Unit + w.rpm * (elapsed - w.since)
        <= v.burst * Unit + v.rpm * (elapsed - w.since)
  BY <1>2, <1>3, AllowedMore
<1>5. c.burst * Unit + 0 * (elapsed - w.since)
        <= v.burst * Unit + v.rpm * (elapsed - w.since)
  <2>1. 0 <= v.rpm /\ 0 \in Nat
    BY <1>3
  <2> QED  BY <1>1, <1>2, <1>3, <2>1, AllowedMore
<1>6. 0 * (elapsed - w.since) = 0 /\ c.burst * Unit \in Int
  BY <1>1, <1>3, MulZero, MulType
<1>7. c.burst * Unit <= v.burst * Unit + v.rpm * (elapsed - w.since)
  BY <1>5, <1>6
<1> QED  BY <1>2, <1>4, <1>7 DEF Allowed, AllowedAt, v

(* The bucket a request is decided on holds no more than its window still  *)
(* allows.                                                                 *)
LEMMA OfferedProperties ==
  ASSUME TypeOK, Credit, NEW id \in Ids, NEW c \in Configs
  PROVE  LET o == Offered(id, c)
             v == Wider(window[id], c)
         IN  /\ o \in Bucket
             /\ o.capacity = c.burst /\ o.rate = c.rpm
             /\ o.tokens = Refilled(o, clock)
             /\ v.count * Unit + o.tokens <= Allowed(v)
             /\ v.count * Unit <= Allowed(v)
<1> DEFINE w == window[id]
           v == Wider(w, c)
           g == GetBucket(id, c)
           o == Offered(id, c)
<1>1. w \in Window /\ w.since <= elapsed /\ clock \in Int /\ CreditOf(id)
  BY DEF TypeOK, Credit, CreditOf
<1>2. /\ v \in Window /\ v.count = w.count
      /\ Allowed(w) <= Allowed(v) /\ c.burst * Unit <= Allowed(v)
  BY <1>1, WiderProperties
<1>3. Allowed(w) \in Int /\ Allowed(v) \in Int
  BY <1>1, <1>2, MulType, UnitAssumption DEF Allowed, AllowedAt, Window, TypeOK
<1>4. w.count * Unit \in Int /\ c.burst * Unit \in Int
  BY <1>1, MulType, UnitAssumption, ConfigsAssumption DEF Window
<1>5. /\ g \in Bucket /\ g.capacity = c.burst /\ g.rate = c.rpm
      /\ w.count * Unit + Refilled(g, clock) <= Allowed(v)
  <2>1. CASE id \in known
    <3> DEFINE b == buckets[id]
    <3>1. b \in Bucket /\ g = Reconfigured(b, c, clock)
      BY <2>1 DEF TypeOK, GetBucket
    <3>2. /\ g \in Bucket /\ g.capacity = c.burst /\ g.rate = c.rpm
          /\ Refilled(g, clock) <= Refilled(b, clock)
      BY <1>1, <3>1, ReconfiguredProperties
    <3>3. w.count * Unit + Refilled(b, clock) <= Allowed(w)
      BY <1>1, <2>1 DEF CreditOf
    <3>4. Refilled(g, clock) \in Int /\ Refilled(b, clock) \in Int
      BY <1>1, <3>1, <3>2, RefilledType
    <3> HIDE DEF b, g, w, v
    <3> QED  BY <1>2, <1>3, <1>4, <3>2, <3>3, <3>4
  <2>2. CASE id \notin known
    <3>1. g = NewBucket(c, clock) /\ w.count = 0
      BY <1>1, <2>2 DEF GetBucket, CreditOf
    <3>2. /\ g \in Bucket /\ g.capacity = c.burst /\ g.rate = c.rpm
          /\ Refilled(g, clock) <= c.burst * Unit
      BY <1>1, <3>1, NewBucketProperties
    <3>3. w.count * Unit = 0
      BY <3>1, MulZero, UnitAssumption
    <3>4. Refilled(g, clock) \in Int
      BY <1>1, <3>2, RefilledType
    <3> HIDE DEF g, w, v
    <3> QED  BY <1>2, <1>3, <1>4, <3>2, <3>3, <3>4
  <2> QED  BY <2>1, <2>2
<1>6. /\ o \in Bucket /\ o.capacity = c.burst /\ o.rate = c.rpm
      /\ o.tokens = Refilled(g, clock) /\ Refilled(o, clock) = Refilled(g, clock)
  BY <1>1, <1>5, RefillTwice DEF Offered
<1>7. w.count * Unit <= Allowed(v)
  <2>1. w.count * Unit <= Allowed(w)
    BY <1>1 DEF CreditOf
  <2> HIDE DEF w, v
  <2> QED  BY <1>2, <1>3, <1>4, <2>1
<1> QED  BY <1>2, <1>5, <1>6, <1>7

(* The bucket a request is decided on is well typed. *)
LEMMA OfferedType ==
  ASSUME TypeOK, NEW id \in Ids, NEW c \in Configs
  PROVE  Offered(id, c) \in Bucket
<1>1. clock \in Int /\ buckets[id] \in Bucket
  BY DEF TypeOK
<1>2. GetBucket(id, c) \in Bucket
  BY <1>1, ReconfiguredProperties, NewBucketProperties DEF GetBucket
<1> QED  BY <1>1, <1>2, RefillTwice DEF Offered

(* Retry-After is a number of ticks. *)
LEMMA RetryAfterType ==
  ASSUME NEW c \in Configs
  PROVE  GetRetryAfter(c) \in Nat
<1>1. Unit \in Nat \ {0} /\ Second \in Nat \ {0} /\ c.rpm \in Nat \ {0}
  BY UnitAssumption, ConfigsAssumption
<1> DEFINE d == c.rpm * Second
<1>2. d \in Nat \ {0}
  BY <1>1, Z3
<1> HIDE DEF d
<1>3. (Unit + d - 1) \div d \in Nat
  BY <1>1, <1>2, Z3
<1>4. ((Unit + d - 1) \div d) * Second \in Nat
  BY <1>1, <1>3, MulNat
<1> QED  BY <1>4 DEF GetRetryAfter, CeilDiv, d

(* What the window and the limiter know after a request. *)
LEMMA AfterRequest ==
  ASSUME TypeOK, Credit, NEW id \in Ids, NEW c \in Configs, NEW n \in {0, 1},
         NEW o \in Bucket, o.capacity = c.burst, o.rate = c.rpm,
         o.tokens = Offered(id, c).tokens - n * Unit,
         o.lastRefill = Offered(id, c).lastRefill,
         n = 1 => Offered(id, c).tokens >= Unit,
         known' = known \cup {id},
         buckets' = [buckets EXCEPT ![id] = o],
         window' = [window EXCEPT ![id] = Widened(@, c, n)],
         UNCHANGED <<clock, elapsed>>
  PROVE  Credit'
<1> SUFFICES ASSUME NEW k \in Ids PROVE CreditOf(k)'
  BY DEF Credit
<1>1. CASE k # id
  BY <1>1 DEF TypeOK, Credit, CreditOf, Allowed, AllowedAt, Refilled, Least
<1>2. CASE k = id
  <2> DEFINE w == window[id]
             v == Wider(w, c)
             x == Widened(w, c, n)
             f == Offered(id, c)
  <2>1. /\ f \in Bucket /\ f.capacity = c.burst /\ f.rate = c.rpm
        /\ f.tokens = Refilled(f, clock)
        /\ v.count * Unit + f.tokens <= Allowed(v)
        /\ v.count * Unit <= Allowed(v)
    BY OfferedProperties
  <2>2. w \in Window /\ w.since <= elapsed /\ clock \in Int /\ elapsed \in Nat
    BY DEF TypeOK, Credit, CreditOf
  <2>3. /\ v \in Window /\ v.since = w.since /\ v.count = w.count
        /\ c.burst <= v.burst /\ c.rpm <= v.rpm
    BY <2>2, WiderProperties
  <2>4. /\ x.since = v.since /\ x.count = v.count + n
        /\ x.burst = v.burst /\ x.rpm = v.rpm
    BY <2>2 DEF Wider, Widened, Window
  <2>5. Allowed(x) = Allowed(v) /\ Allowed(v) \in Int
    BY <2>2, <2>3, <2>4, MulType, UnitAssumption DEF Allowed, AllowedAt, Window
  <2>6. x.count * Unit = v.count * Unit + n * Unit /\ v.count * Unit \in Int
        /\ n * Unit \in {0, Unit} /\ (n = 1 => n * Unit = Unit)
        /\ (n = 0 => n * Unit = 0)
    <3>1. v.count \in Int /\ Unit \in Int
      BY <2>3, UnitAssumption DEF Window
    <3>2. (v.count + 1) * Unit = v.count * Unit + Unit /\ v.count * Unit \in Int
          /\ 0 * Unit = 0 /\ 1 * Unit = Unit
      BY <3>1, MulSucc, MulType, MulZero
    <3>3. CASE n = 0
      BY <2>4, <3>1, <3>2, <3>3
    <3>4. CASE n = 1
      BY <2>4, <3>1, <3>2, <3>4
    <3> QED  BY <3>3, <3>4
  <2>7. Refilled(o, clock) <= o.tokens
    <3>1. Refilled(o, clock) = Least(c.burst * Unit, o.tokens + (clock - o.lastRefill) * o.rate)
      BY DEF Refilled
    <3>2. f.lastRefill = clock
      BY DEF Offered, RefillBucket
    <3>3. (clock - o.lastRefill) * o.rate = 0
      <4>1. clock - o.lastRefill = 0 /\ o.rate \in Int
        BY <2>2, <3>2 DEF Bucket
      <4> QED  BY <4>1, MulZero
    <3>4. o.tokens \in Int /\ c.burst * Unit \in Int
      BY MulType, UnitAssumption, ConfigsAssumption DEF Bucket
    <3> QED  BY <3>1, <3>3, <3>4 DEF Least
  <2>8. /\ x.count * Unit + Refilled(o, clock) <= Allowed(x)
        /\ x.count * Unit <= Allowed(x)
    <3>1. Refilled(o, clock) \in Int /\ o.tokens \in Int /\ f.tokens \in Int /\ Unit \in Nat
      BY <2>1, <2>2, RefilledType, UnitAssumption DEF Bucket
    <3> HIDE DEF x, v, w, f
    <3>2. o.tokens = f.tokens - n * Unit /\ (n = 1 => f.tokens >= Unit)
      BY DEF f
    <3>3. CASE n = 0
      BY <2>1, <2>5, <2>6, <2>7, <3>1, <3>2, <3>3
    <3>4. CASE n = 1
      BY <2>1, <2>5, <2>6, <2>7, <3>1, <3>2, <3>4
    <3> QED  BY <3>3, <3>4
  <2>9. window'[id] = x /\ buckets'[id] = o /\ id \in known'
    BY DEF TypeOK
  <2>10. /\ Allowed(window[id])' = Allowed(x)
         /\ Refilled(buckets[id], clock)' = Refilled(o, clock)
    BY <2>9 DEF Allowed, AllowedAt, Refilled, Least
  <2> HIDE DEF x, v, w, f
  <2> QED  BY <1>2, <2>2, <2>3, <2>4, <2>8, <2>9, <2>10 DEF CreditOf
<1> QED  BY <1>1, <1>2

--------------------------------------------------------------------------------
(* Without buckets and requests the invariant holds. *)
LEMMA InitInv == Init => TypeOK /\ Credit
<1> SUFFICES ASSUME Init PROVE TypeOK /\ Credit
  OBVIOUS
<1>1. TypeOK
  BY DEF Init, TypeOK, Bucket, Window, EmptyBucket, NoDenial
<1>2. Credit
  <2> SUFFICES ASSUME NEW id \in Ids PROVE CreditOf(id)
    BY DEF Credit
  <2>1. window[id] = [since |-> 0, count |-> 0, burst |-> 0, rpm |-> 0]
        /\ elapsed = 0 /\ known = {}
    BY DEF Init
  <2>2. 0 * Unit = 0 /\ 0 * (elapsed - 0) = 0
    BY <2>1, MulZero, UnitAssumption
  <2> QED  BY <2>1, <2>2 DEF CreditOf, Allowed, AllowedAt
<1> QED  BY <1>1, <1>2

(* Every operation of the limiter keeps the types. *)
LEMMA TypeStep == TypeOK /\ [Next]_vars => TypeOK'
<1> SUFFICES ASSUME TypeOK, [Next]_vars PROVE TypeOK'
  OBVIOUS
<1>1. ASSUME NEW id \in Ids, NEW c \in Configs, NEW n \in {0, 1}
      PROVE  [window EXCEPT ![id] = Widened(@, c, n)] \in [Ids -> Window]
  <2>1. c.burst \in Nat /\ c.rpm \in Nat /\ window[id] \in Window
    BY ConfigsAssumption DEF TypeOK
  <2>2. Widened(window[id], c, n) \in Window
    BY <2>1 DEF Widened, Window, Greatest
  <2> QED  BY <2>2 DEF TypeOK
<1>2. ASSUME NEW id \in Ids, NEW c \in Configs, Admit(id, c) PROVE TypeOK'
  <2>1. [Offered(id, c) EXCEPT !.tokens = @ - Unit] \in Bucket
    BY OfferedType, UnitAssumption DEF Bucket
  <2> QED  BY <1>1, <1>2, <2>1 DEF Admit, TypeOK, NoDenial
<1>3. ASSUME NEW id \in Ids, NEW c \in Configs, Deny(id, c) PROVE TypeOK'
  <2>1. [at |-> elapsed, wait |-> GetRetryAfter(c), config |-> c]
          \in [at : Nat, wait : Nat, config : [rpm : Nat, burst : Nat]]
    BY RetryAfterType, ConfigsAssumption DEF TypeOK
  <2> QED  BY <1>1, <1>3, <2>1, OfferedType DEF Deny, TypeOK
<1>4. ASSUME NEW id \in Ids, GetStatus(id) PROVE TypeOK'
  <2>1. RefillBucket(buckets[id], clock) \in Bucket
    BY RefillTwice DEF TypeOK
  <2> QED  BY <1>4, <2>1 DEF GetStatus, TypeOK
<1>5. ASSUME NEW id \in Ids, ResetBucket(id) PROVE TypeOK'
  BY <1>5 DEF ResetBucket, TypeOK, EmptyBucket, Bucket, Window, NoDenial
<1>6. ASSUME NEW id \in Ids, Observe(id) PROVE TypeOK'
  <2>1. buckets[id].capacity \in Nat /\ buckets[id].rate \in Nat
    BY DEF TypeOK, Bucket
  <2> QED  BY <1>6, <2>1 DEF Observe, TypeOK, Window
<1>7. CASE ClearAll
  BY <1>7 DEF ClearAll, TypeOK, EmptyBucket, Bucket, Window, NoDenial
<1>8. CASE Tick
  BY <1>8 DEF Tick, TypeOK
<1>9. CASE SetBack
  BY <1>9 DEF SetBack, TypeOK
<1>10. CASE UNCHANGED vars
  BY <1>10 DEF vars, TypeOK
<1> QED  BY <1>2, <1>3, <1>4, <1>5, <1>6, <1>7, <1>8, <1>9, <1>10 DEF Next

(* An id whose window starts now, without a bucket or with a full one. *)
LEMMA FreshWindow ==
  ASSUME NEW b \in Nat, NEW r \in Nat, NEW e \in Nat
  PROVE  /\ 0 * Unit = 0
         /\ b * Unit + r * (e - e) = b * Unit
         /\ 0 <= b * Unit /\ b * Unit \in Int
<1>1. e - e = 0 /\ Unit \in Nat
  BY UnitAssumption
<1>2. r * 0 = 0 /\ 0 * Unit = 0 /\ b * Unit \in Nat
  BY <1>1, MulZero, MulNat
<1> QED  BY <1>1, <1>2

(* No operation of the limiter lets a bucket hold more than its window     *)
(* still allows.                                                           *)
LEMMA CreditStep == TypeOK /\ Credit /\ [Next]_vars => Credit'
<1> SUFFICES ASSUME TypeOK, Credit, [Next]_vars PROVE Credit'
  OBVIOUS
<1>1. ASSUME NEW id \in Ids, NEW c \in Configs, Admit(id, c) PROVE Credit'
  <2> DEFINE f == Offered(id, c)
             o == [f EXCEPT !.tokens = @ - Unit]
  <2>1. f \in Bucket /\ f.capacity = c.burst /\ f.rate = c.rpm
    BY OfferedProperties
  <2>2. /\ o \in Bucket /\ o.capacity = c.burst /\ o.rate = c.rpm
        /\ o.lastRefill = f.lastRefill /\ o.tokens = f.tokens - Unit
    BY <2>1, UnitAssumption DEF Bucket
  <2>3. 1 * Unit = Unit
    BY UnitAssumption
  <2> QED  BY <1>1, <2>1, <2>2, <2>3, AfterRequest DEF Admit
<1>2. ASSUME NEW id \in Ids, NEW c \in Configs, Deny(id, c) PROVE Credit'
  <2> DEFINE f == Offered(id, c)
  <2>1. f \in Bucket /\ f.capacity = c.burst /\ f.rate = c.rpm
    BY OfferedProperties
  <2>2. f.tokens = f.tokens - 0 * Unit
    BY <2>1, MulZero, UnitAssumption DEF Bucket
  <2>3. /\ known' = known \cup {id}
        /\ buckets' = [buckets EXCEPT ![id] = f]
        /\ window' = [window EXCEPT ![id] = Widened(@, c, 0)]
        /\ UNCHANGED <<clock, elapsed>>
    BY <1>2 DEF Deny
  <2>4. f.lastRefill = Offered(id, c).lastRefill /\ f.tokens = Offered(id, c).tokens - 0 * Unit
        /\ 0 \in {0, 1} /\ ~(0 = 1)
    BY <2>2
  <2> HIDE DEF f
  <2> QED  BY <2>1, <2>3, <2>4, AfterRequest
<1>3. ASSUME NEW id \in Ids, GetStatus(id) PROVE Credit'
  <2> SUFFICES ASSUME NEW k \in Ids PROVE CreditOf(k)'
    BY DEF Credit
  <2>1. CASE k # id
    BY <1>3, <2>1 DEF GetStatus, TypeOK, Credit, CreditOf, Allowed, AllowedAt, Refilled, Least
  <2>2. CASE k = id
    <3> DEFINE b == buckets[id]
               d == RefillBucket(b, clock)
    <3>1. b \in Bucket /\ clock \in Int
      BY DEF TypeOK
    <3>2. /\ d.capacity = b.capacity /\ d.rate = b.rate
          /\ Refilled(d, clock) = Refilled(b, clock)
      BY <3>1, RefillTwice
    <3>3. buckets'[id] = d /\ UNCHANGED <<window, clock, elapsed, known>>
      BY <1>3 DEF GetStatus, TypeOK
    <3>4. Refilled(buckets[id], clock)' = Refilled(d, clock)
      BY <3>3 DEF Refilled, Least
    <3> HIDE DEF d
    <3> QED  BY <2>2, <3>2, <3>3, <3>4 DEF Credit, CreditOf, Allowed, AllowedAt
  <2> QED  BY <2>1, <2>2
<1>4. ASSUME NEW id \in Ids, ResetBucket(id) PROVE Credit'
  <2> SUFFICES ASSUME NEW k \in Ids PROVE CreditOf(k)'
    BY DEF Credit
  <2>1. CASE k # id
    BY <1>4, <2>1 DEF ResetBucket, TypeOK, Credit, CreditOf, Allowed, AllowedAt, Refilled, Least
  <2>2. CASE k = id
    <3>1. /\ window'[id] = [since |-> elapsed, count |-> 0, burst |-> 0, rpm |-> 0]
          /\ id \notin known' /\ elapsed' = elapsed /\ elapsed \in Nat
      BY <1>4 DEF ResetBucket, TypeOK
    <3>2. 0 * Unit = 0 /\ 0 * Unit + 0 * (elapsed - elapsed) = 0
      BY <3>1, FreshWindow
    <3> QED  BY <2>2, <3>1, <3>2 DEF CreditOf, Allowed, AllowedAt
  <2> QED  BY <2>1, <2>2
<1>5. ASSUME NEW id \in Ids, Observe(id) PROVE Credit'
  <2> SUFFICES ASSUME NEW k \in Ids PROVE CreditOf(k)'
    BY DEF Credit
  <2>1. CASE k # id
    BY <1>5, <2>1 DEF Observe, TypeOK, Credit, CreditOf, Allowed, AllowedAt, Refilled, Least
  <2>2. CASE k = id
    <3> DEFINE b == IF id \in known THEN buckets[id].capacity ELSE 0
               r == IF id \in known THEN buckets[id].rate ELSE 0
    <3>1. b \in Nat /\ r \in Nat /\ elapsed \in Nat
      BY DEF TypeOK, Bucket
    <3>2. /\ window'[id] = [since |-> elapsed, count |-> 0, burst |-> b, rpm |-> r]
          /\ UNCHANGED <<known, elapsed, clock, buckets>>
      BY <1>5 DEF Observe, TypeOK
    <3>3. /\ 0 * Unit = 0 /\ b * Unit + r * (elapsed - elapsed) = b * Unit
          /\ 0 <= b * Unit /\ b * Unit \in Int
      BY <3>1, FreshWindow
    <3>4. Allowed(window[id])' = b * Unit
      BY <3>2, <3>3 DEF Allowed, AllowedAt
    <3>5. id \in known => /\ b = buckets[id].capacity /\ r = buckets[id].rate
                          /\ Refilled(buckets[id], clock) <= b * Unit
                          /\ Refilled(buckets[id], clock) \in Int
      BY RefilledType DEF TypeOK
    <3>6. Refilled(buckets[id], clock)' = Refilled(buckets[id], clock)
      BY <3>2 DEF Refilled, Least
    <3> HIDE DEF b, r
    <3> QED  BY <2>2, <3>1, <3>2, <3>3, <3>4, <3>5, <3>6 DEF CreditOf
  <2> QED  BY <2>1, <2>2
<1>6. CASE ClearAll
  <2> SUFFICES ASSUME NEW k \in Ids PROVE CreditOf(k)'
    BY DEF Credit
  <2>1. /\ window'[k] = [since |-> elapsed, count |-> 0, burst |-> 0, rpm |-> 0]
        /\ k \notin known' /\ elapsed' = elapsed /\ elapsed \in Nat
    BY <1>6 DEF ClearAll, TypeOK
  <2>2. 0 * Unit = 0 /\ 0 * Unit + 0 * (elapsed - elapsed) = 0
    BY <2>1, FreshWindow
  <2> QED  BY <2>1, <2>2 DEF CreditOf, Allowed, AllowedAt
<1>7. ASSUME Tick \/ SetBack PROVE Credit'
  <2> SUFFICES ASSUME NEW k \in Ids PROVE CreditOf(k)'
    BY DEF Credit
  <2> DEFINE w == window[k]
             b == buckets[k]
             d == elapsed - w.since
  <2>1. /\ b \in Bucket /\ w \in Window /\ clock \in Int /\ CreditOf(k)
        /\ UNCHANGED <<known, buckets, window>> /\ elapsed \in Nat
    BY <1>7 DEF Tick, SetBack, TypeOK, Credit
  <2>2. /\ w.count * Unit \in Int /\ w.burst * Unit \in Int /\ w.rpm * d \in Int
        /\ w.rpm \in Nat /\ b.rate \in Nat /\ d \in Int /\ w.since \in Nat
    BY <2>1, MulType, UnitAssumption DEF Window, Bucket
  <2>3. /\ Refilled(b, clock) \in Int /\ Refilled(b, clock + 1) \in Int
        /\ Refilled(b, clock - 1) \in Int
        /\ Refilled(b, clock + 1) <= Refilled(b, clock) + b.rate
        /\ Refilled(b, clock - 1) <= Refilled(b, clock)
    BY <2>1, RefilledType, RefilledLater
  <2>4. Allowed(w) = w.burst * Unit + w.rpm * d
    BY DEF Allowed, AllowedAt
  <2>5. Refilled(buckets[k], clock)' = Refilled(b, clock')
    BY <2>1 DEF Refilled, Least
  <2>6. CASE Tick
    <3>1. elapsed' = elapsed + 1 /\ clock' = clock + 1
      BY <2>6 DEF Tick
    <3>2. w.rpm * ((elapsed + 1) - w.since) = w.rpm * d + w.rpm
      <4>1. (elapsed + 1) - w.since = d + 1
        BY <2>1, <2>2
      <4>2. (d + 1) * w.rpm = d * w.rpm + w.rpm /\ (d + 1) * w.rpm = w.rpm * (d + 1)
            /\ d * w.rpm = w.rpm * d
        BY <2>2, MulSucc, MulComm
      <4> QED  BY <4>1, <4>2
    <3>3. Allowed(window[k])' = w.burst * Unit + (w.rpm * d + w.rpm)
      <4>1. window'[k] = w
        BY <2>1
      <4>2. Allowed(window[k])' = AllowedAt(w, elapsed + 1)
        BY <3>1, <4>1, Zenon DEF Allowed
      <4> QED  BY <3>2, <4>2, Zenon DEF AllowedAt
    <3> HIDE DEF w, b, d
    <3> QED  BY <2>1, <2>2, <2>3, <2>4, <2>5, <3>1, <3>3 DEF CreditOf, w, b
  <2>7. CASE SetBack
    <3>1. elapsed' = elapsed /\ clock' = clock - 1
      BY <2>7 DEF SetBack
    <3>2. Allowed(window[k])' = Allowed(w)
      BY <2>1, <3>1 DEF Allowed, AllowedAt
    <3> QED  BY <2>1, <2>2, <2>3, <2>4, <2>5, <3>1, <3>2 DEF CreditOf
  <2> QED  BY <1>7, <2>6, <2>7
<1>8. CASE UNCHANGED vars
  BY <1>8 DEF vars, Credit, CreditOf, Allowed, AllowedAt, Refilled, Least
<1> QED  BY <1>1, <1>2, <1>3, <1>4, <1>5, <1>6, <1>7, <1>8 DEF Next

--------------------------------------------------------------------------------
(* Retrying. *)

(* While the clock was never set back, no bucket is in debt, and that of   *)
(* an id that was told to wait has the configuration it was told of, and   *)
(* since then earned what this configuration earns or filled up.           *)
Solvent(id) == back = 0 /\ id \in known => 0 <= Refilled(buckets[id], clock)

Earned(id) ==
  LET d == denial[id]
      b == buckets[id]
  IN  back = 0 /\ d # NoDenial =>
        /\ id \in known
        /\ b.capacity = d.config.burst /\ b.rate = d.config.rpm
        /\ d.wait = GetRetryAfter(d.config)
        /\ d.at <= elapsed
        /\ Least(b.capacity * Unit, (elapsed - d.at) * b.rate) <= Refilled(b, clock)

Waiting == \A id \in Ids : Solvent(id) /\ Earned(id)

(* A bucket that was refilled now holds its tokens, up to the capacity. *)
LEMMA RefilledNow ==
  ASSUME NEW b \in Bucket, NEW t \in Int, b.lastRefill = t
  PROVE  Refilled(b, t) = Least(b.capacity * Unit, b.tokens)
<1>1. (t - t) * b.rate = 0
  <2>1. t - t = 0 /\ b.rate \in Int
    BY DEF Bucket
  <2> QED  BY <2>1, MulZero
<1>2. b.tokens \in Int /\ b.tokens + 0 = b.tokens
  BY DEF Bucket
<1> QED  BY <1>1, <1>2 DEF Refilled

(* A tick earns the rate, up to the capacity. *)
LEMMA RefilledTick ==
  ASSUME NEW b \in Bucket, NEW t \in Int
  PROVE  Refilled(b, t + 1) = Least(b.capacity * Unit, Refilled(b, t) + b.rate)
<1> DEFINE e == t - b.lastRefill
<1>1. e \in Int /\ b.rate \in Nat /\ b.capacity \in Int /\ b.tokens \in Int
  BY DEF Bucket
<1>2. (t + 1) - b.lastRefill = e + 1
  BY DEF Bucket
<1>3. (e + 1) * b.rate = e * b.rate + b.rate
  BY <1>1, MulSucc
<1>4. e * b.rate \in Int /\ b.capacity * Unit \in Int
  BY <1>1, MulType, UnitAssumption
<1> HIDE DEF e
<1>5. /\ Refilled(b, t + 1) = Least(b.capacity * Unit, b.tokens + (e * b.rate + b.rate))
      /\ Refilled(b, t) = Least(b.capacity * Unit, b.tokens + e * b.rate)
  BY <1>2, <1>3 DEF Refilled, e
<1> QED  BY <1>1, <1>4, <1>5 DEF Least

(* A request finds a solvent bucket solvent, and one of its configuration  *)
(* as it is.                                                               *)
LEMMA OfferedSolvent ==
  ASSUME TypeOK, NEW id \in Ids, NEW c \in Configs, Solvent(id), back = 0
  PROVE  LET o == Offered(id, c)
         IN  /\ o \in Bucket /\ o.lastRefill = clock
             /\ o.capacity = c.burst /\ o.rate = c.rpm
             /\ 0 <= o.tokens
             /\ id \in known /\ buckets[id].capacity = c.burst
                  /\ buckets[id].rate = c.rpm
                  => o.tokens = Refilled(buckets[id], clock)
<1> DEFINE b == buckets[id]
           g == GetBucket(id, c)
<1>1. clock \in Int /\ b \in Bucket
  BY DEF TypeOK
<1>2. c.burst \in Nat /\ c.rpm \in Nat /\ c.burst * Unit \in Nat
  BY ConfigsAssumption, UnitAssumption, MulNat
<1>3. /\ g \in Bucket /\ g.capacity = c.burst /\ g.rate = c.rpm
      /\ 0 <= Refilled(g, clock)
  <2>1. CASE id \in known /\ b.capacity = c.burst /\ b.rate = c.rpm
    BY <1>1, <2>1 DEF GetBucket, Reconfigured, Solvent
  <2>2. CASE id \in known /\ ~(b.capacity = c.burst /\ b.rate = c.rpm)
    <3>1. g = [tokens |-> Least(Refilled(b, clock), c.burst * Unit), lastRefill |-> clock,
               capacity |-> c.burst, rate |-> c.rpm]
      BY <2>2 DEF GetBucket, Reconfigured
    <3>2. 0 <= Refilled(b, clock) /\ Refilled(b, clock) \in Int
      BY <1>1, <2>2, RefilledType DEF Solvent
    <3>3. Least(Refilled(b, clock), c.burst * Unit) \in Nat
      BY <1>2, <3>2 DEF Least
    <3>4. /\ g \in Bucket /\ g.lastRefill = clock /\ g.tokens \in Nat
          /\ g.capacity = c.burst /\ g.rate = c.rpm
      BY <1>1, <1>2, <3>1, <3>3 DEF Bucket
    <3>5. Refilled(g, clock) = Least(c.burst * Unit, g.tokens)
      BY <1>1, <3>4, RefilledNow
    <3> QED  BY <1>2, <3>4, <3>5 DEF Least
  <2>3. CASE id \notin known
    <3>1. g = [tokens |-> c.burst * Unit, lastRefill |-> clock,
               capacity |-> c.burst, rate |-> c.rpm]
      BY <2>3 DEF GetBucket, NewBucket
    <3>2. /\ g \in Bucket /\ g.lastRefill = clock /\ g.tokens \in Nat
          /\ g.capacity = c.burst /\ g.rate = c.rpm
      BY <1>1, <1>2, <3>1 DEF Bucket
    <3>3. Refilled(g, clock) = Least(c.burst * Unit, g.tokens)
      BY <1>1, <3>2, RefilledNow
    <3> QED  BY <1>2, <3>2, <3>3 DEF Least
  <2> QED  BY <2>1, <2>2, <2>3
<1>4. id \in known /\ b.capacity = c.burst /\ b.rate = c.rpm => g = b
  BY DEF GetBucket, Reconfigured
<1>5. Offered(id, c) = RefillBucket(g, clock)
  BY DEF Offered
<1> DEFINE r == RefillBucket(g, clock)
<1> HIDE DEF g
<1>6. /\ r \in Bucket /\ r.tokens = Refilled(g, clock)
      /\ r.capacity = g.capacity /\ r.rate = g.rate
  BY <1>1, <1>3, RefillTwice
<1>7. r.lastRefill = clock
  BY <1>3 DEF RefillBucket, Bucket
<1> HIDE DEF r
<1> QED  BY <1>3, <1>4, <1>5, <1>6, <1>7 DEF r

(* An id without a denial, and one whose bucket, denial and clock stand    *)
(* still.                                                                  *)
LEMMA SameWaiting ==
  ASSUME NEW id \in Ids, Solvent(id), Earned(id), back' = 0 => back = 0,
         clock' = clock, elapsed' = elapsed,
         id \in known' <=> id \in known, buckets'[id] = buckets[id],
         denial'[id] = denial[id]
  PROVE  (Solvent(id) /\ Earned(id))'
BY DEF Solvent, Earned, Refilled, Least, GetRetryAfter, CeilDiv

(* Every operation keeps what a denied id waits for. *)
LEMMA WaitingStep == TypeOK /\ Waiting /\ [Next]_vars => Waiting'
<1> SUFFICES ASSUME TypeOK, Waiting, [Next]_vars, NEW k \in Ids
             PROVE  (Solvent(k) /\ Earned(k))'
  BY DEF Waiting
<1>0. /\ Solvent(k) /\ Earned(k) /\ clock \in Int /\ elapsed \in Nat /\ back \in Nat
      /\ buckets[k] \in Bucket /\ denial[k].at \in Nat
  BY DEF Waiting, TypeOK
<1>1. ASSUME NEW id \in Ids, NEW c \in Configs, Admit(id, c)
      PROVE  (Solvent(k) /\ Earned(k))'
  <2>1. CASE k # id
    BY <1>0, <1>1, <2>1, SameWaiting DEF Admit, TypeOK
  <2>2. CASE k = id
    <3> DEFINE f == Offered(id, c)
               o == [f EXCEPT !.tokens = @ - Unit]
    <3>1. buckets'[k] = o /\ denial'[k] = NoDenial /\ UNCHANGED <<clock, back>>
      BY <1>1, <2>2 DEF Admit, TypeOK
    <3>2. Earned(k)'
      BY <3>1 DEF Earned
    <3>3. ASSUME back = 0  PROVE 0 <= Refilled(o, clock)
      <4>1. f \in Bucket /\ f.lastRefill = clock /\ f.capacity = c.burst
        BY <1>0, <2>2, <3>3, OfferedSolvent
      <4>2. f.tokens >= Unit
        BY <1>1 DEF Admit
      <4>3. /\ o \in Bucket /\ o.lastRefill = clock /\ o.capacity = c.burst
            /\ o.tokens \in Nat
        BY <4>1, <4>2, UnitAssumption DEF Bucket
      <4> HIDE DEF o
      <4>4. Refilled(o, clock) = Least(c.burst * Unit, o.tokens)
        BY <1>0, <4>3, RefilledNow
      <4>5. c.burst * Unit \in Nat
        BY ConfigsAssumption, UnitAssumption, MulNat
      <4> QED  BY <4>3, <4>4, <4>5 DEF Least
    <3> HIDE DEF o
    <3> QED  BY <3>1, <3>2, <3>3 DEF Solvent, Refilled, Least
  <2> QED  BY <2>1, <2>2
<1>2. ASSUME NEW id \in Ids, NEW c \in Configs, Deny(id, c)
      PROVE  (Solvent(k) /\ Earned(k))'
  <2>1. CASE k # id
    BY <1>0, <1>2, <2>1, SameWaiting DEF Deny, TypeOK
  <2>2. CASE k = id
    <3> DEFINE o == Offered(id, c)
               d == [at |-> elapsed, wait |-> GetRetryAfter(c), config |-> c]
    <3>1. buckets'[k] = o /\ denial'[k] = d /\ UNCHANGED <<clock, elapsed, back>>
          /\ k \in known'
      BY <1>2, <2>2 DEF Deny, TypeOK
    <3>2. SUFFICES ASSUME back = 0  PROVE (Solvent(k) /\ Earned(k))'
      BY <3>1 DEF Solvent, Earned
    <3>3. /\ o \in Bucket /\ o.lastRefill = clock /\ 0 <= o.tokens
          /\ o.capacity = c.burst /\ o.rate = c.rpm
      BY <1>0, <2>2, <3>2, OfferedSolvent
    <3>4. Refilled(o, clock) = Least(c.burst * Unit, o.tokens)
      BY <1>0, <3>3, RefilledNow
    <3>5. c.burst * Unit \in Nat
      BY ConfigsAssumption, UnitAssumption, MulNat
    <3>6. (elapsed - elapsed) * c.rpm = 0
      <4>1. elapsed - elapsed = 0 /\ c.rpm \in Int
        BY <1>0, ConfigsAssumption
      <4> QED  BY <4>1, MulZero
    <3>7. d.at = elapsed /\ d.wait = GetRetryAfter(c) /\ d.config = c
      OBVIOUS
    <3> HIDE DEF o, d
    <3>8. o.tokens \in Int
      BY <3>3 DEF Bucket
    <3>9. 0 <= Refilled(o, clock) /\ Least(c.burst * Unit, 0) <= Refilled(o, clock)
      BY <3>3, <3>4, <3>5, <3>8 DEF Least
    <3>10. Solvent(k)'
      BY <3>1, <3>9 DEF Solvent, Refilled, Least
    <3>11. Refilled(buckets[k], clock)' = Refilled(o, clock)
      BY <3>1 DEF Refilled, Least
    <3>12. Earned(k)'
      <4>1. /\ (buckets[k].capacity)' = c.burst /\ (buckets[k].rate)' = c.rpm
            /\ (denial[k].at)' = elapsed /\ (denial[k].config)' = c
            /\ (denial[k].wait)' = GetRetryAfter(c)
        BY <3>1, <3>3, <3>7
      <4>2. GetRetryAfter(denial[k].config)' = GetRetryAfter(c)
        BY <4>1 DEF GetRetryAfter, CeilDiv
      <4>3. Least(buckets[k].capacity * Unit, (elapsed - denial[k].at) * buckets[k].rate)'
              = Least(c.burst * Unit, 0)
        BY <3>1, <3>6, <4>1 DEF Least
      <4> QED  BY <1>0, <3>1, <3>9, <3>11, <4>1, <4>2, <4>3 DEF Earned
    <3> QED  BY <3>10, <3>12
  <2> QED  BY <2>1, <2>2
<1>3. ASSUME NEW id \in Ids, GetStatus(id)
      PROVE  (Solvent(k) /\ Earned(k))'
  <2>1. CASE k # id
    BY <1>0, <1>3, <2>1, SameWaiting DEF GetStatus, TypeOK
  <2>2. CASE k = id
    <3> DEFINE d == RefillBucket(buckets[k], clock)
    <3>1. /\ d.capacity = buckets[k].capacity /\ d.rate = buckets[k].rate
          /\ Refilled(d, clock) = Refilled(buckets[k], clock)
      BY <1>0, RefillTwice
    <3>2. /\ buckets'[k] = d
          /\ UNCHANGED <<clock, elapsed, back, known, denial>>
      BY <1>3, <2>2 DEF GetStatus, TypeOK
    <3> HIDE DEF d
    <3>3. Refilled(buckets[k], clock)' = Refilled(buckets[k], clock)
      BY <3>1, <3>2 DEF Refilled, Least
    <3>4. GetRetryAfter(denial[k].config)' = GetRetryAfter(denial[k].config)
      BY <3>2 DEF GetRetryAfter, CeilDiv
    <3> QED  BY <1>0, <3>1, <3>2, <3>3, <3>4 DEF Solvent, Earned, Least
  <2> QED  BY <2>1, <2>2
<1>4. ASSUME NEW id \in Ids, ResetBucket(id)
      PROVE  (Solvent(k) /\ Earned(k))'
  <2>1. CASE k # id
    BY <1>0, <1>4, <2>1, SameWaiting DEF ResetBucket, TypeOK
  <2>2. CASE k = id
    BY <1>4, <2>2 DEF ResetBucket, TypeOK, Solvent, Earned
  <2> QED  BY <2>1, <2>2
<1>5. CASE ClearAll
  BY <1>5 DEF ClearAll, Solvent, Earned
<1>6. ASSUME NEW id \in Ids, Observe(id)
      PROVE  (Solvent(k) /\ Earned(k))'
  BY <1>0, <1>6, SameWaiting DEF Observe
<1>7. CASE Tick
  <2> DEFINE b == buckets[k]
             d == denial[k]
             x == (elapsed - d.at) * b.rate
  <2>1. /\ clock' = clock + 1 /\ elapsed' = elapsed + 1
        /\ UNCHANGED <<back, known, buckets, denial>>
    BY <1>7 DEF Tick
  <2>2. /\ Refilled(b, clock) \in Int /\ b.rate \in Nat /\ b.capacity * Unit \in Nat
        /\ Refilled(b, clock + 1) = Least(b.capacity * Unit, Refilled(b, clock) + b.rate)
    BY <1>0, RefilledType, RefilledTick, MulNat, UnitAssumption DEF Bucket
  <2>3. /\ ((elapsed + 1) - d.at) * b.rate = x + b.rate
        /\ x \in Int
    <3>1. (elapsed + 1) - d.at = (elapsed - d.at) + 1 /\ elapsed - d.at \in Int
      BY <1>0
    <3> QED  BY <2>2, <3>1, MulSucc, MulType
  <2>4. Refilled(buckets[k], clock)' = Refilled(b, clock + 1)
    BY <2>1 DEF Refilled, Least
  <2>5. GetRetryAfter(denial[k].config)' = GetRetryAfter(denial[k].config)
    BY <2>1 DEF GetRetryAfter, CeilDiv
  <2>6. Least(buckets[k].capacity * Unit, (elapsed - denial[k].at) * buckets[k].rate)'
          = Least(b.capacity * Unit, x + b.rate)
    BY <2>1, <2>3 DEF Least
  <2>7. Solvent(k)'
    <3> HIDE DEF b
    <3>1. 0 <= Refilled(b, clock) => 0 <= Refilled(b, clock + 1)
      BY <2>2 DEF Least
    <3> QED  BY <1>0, <2>1, <2>4, <3>1 DEF Solvent, b
  <2>8. Earned(k)'
    <3> HIDE DEF x
    <3>1. Least(b.capacity * Unit, x) <= Refilled(b, clock)
            => Least(b.capacity * Unit, x + b.rate) <= Refilled(b, clock + 1)
      BY <2>2, <2>3 DEF Least
    <3>2. d.at <= elapsed => d.at <= elapsed + 1
      BY <1>0
    <3> QED  BY <1>0, <2>1, <2>4, <2>5, <2>6, <3>1, <3>2 DEF Earned, x
  <2> QED  BY <2>7, <2>8
<1>8. CASE SetBack
  BY <1>0, <1>8 DEF SetBack, Solvent, Earned
<1>9. CASE UNCHANGED vars
  BY <1>0, <1>9, SameWaiting DEF vars
<1> QED  BY <1>1, <1>2, <1>3, <1>4, <1>5, <1>6, <1>7, <1>8, <1>9 DEF Next

(* Nobody waits at the start. *)
LEMMA InitWaiting == Init => Waiting
BY DEF Init, Waiting, Solvent, Earned

(* The wait of a denial earns a whole token. *)
LEMMA WaitEarnsToken ==
  ASSUME NEW c \in Configs
  PROVE  Unit <= GetRetryAfter(c) * c.rpm
<1>1. Unit \in Nat \ {0} /\ Second \in Nat \ {0} /\ c.rpm \in Nat \ {0}
  BY UnitAssumption, ConfigsAssumption
<1> DEFINE q == c.rpm * Second
           n == (Unit + q - 1) \div q
<1>2. q \in Nat \ {0}
  BY <1>1, Z3
<1> HIDE DEF q
<1>3. n \in Nat /\ Unit <= n * q
  BY <1>1, <1>2, Z3
<1> HIDE DEF n
<1>4. n * (c.rpm * Second) = (n * Second) * c.rpm
  BY <1>1, <1>3, Z3
<1> QED  BY <1>3, <1>4 DEF GetRetryAfter, CeilDiv, n, q

(* The state of the limiter is always well typed, for every configuration  *)
(* and every movement of the clock.                                        *)
THEOREM TypeCorrect == Spec => []TypeOK
BY InitInv, TypeStep, PTL DEF Spec

(* No key is admitted more than its burst and its rate allow, however its  *)
(* configuration changes and whatever the clock does.                      *)
THEOREM AdmissionBoundCorrect == Spec => []AdmissionBound
<1>1. TypeOK /\ Credit => AdmissionBound
  BY DEF Credit, CreditOf, Allowed, AllowedAt, AdmissionBound
<1> QED  BY <1>1, InitInv, TypeStep, CreditStep, PTL DEF Spec

(* A client that waited as it was told is admitted. *)
LEMMA WaitedLemma ==
  ASSUME TypeOK, Waiting, NEW id \in Ids, NEW c \in Configs,
         back = 0, denial[id].config = c,
         elapsed >= denial[id].at + denial[id].wait
  PROVE  ~Deny(id, c)
<1> DEFINE b == buckets[id]
           d == denial[id]
<1>1. d # NoDenial
  <2>1. c.rpm # 0
    BY ConfigsAssumption
  <2> QED  BY <2>1 DEF NoDenial
<1>2. /\ id \in known /\ b.capacity = c.burst /\ b.rate = c.rpm
      /\ d.wait = GetRetryAfter(c)
      /\ Least(c.burst * Unit, (elapsed - d.at) * c.rpm) <= Refilled(b, clock)
      /\ Solvent(id)
  BY <1>1 DEF Waiting, Earned
<1>3. /\ b \in Bucket /\ clock \in Int /\ elapsed \in Nat
      /\ d.at \in Nat /\ d.wait \in Nat
      /\ Unit \in Nat /\ c.rpm \in Nat /\ c.burst \in Nat \ {0}
  BY ConfigsAssumption, UnitAssumption DEF TypeOK
<1>4. Offered(id, c).tokens = Refilled(b, clock)
  BY <1>2, OfferedSolvent
<1>5. Unit <= (elapsed - d.at) * c.rpm
  <2>1. elapsed - d.at \in Int /\ d.wait <= elapsed - d.at
    BY <1>3
  <2>2. d.wait * c.rpm <= (elapsed - d.at) * c.rpm
    BY <1>3, <2>1, MulMonotone
  <2>3. Unit <= d.wait * c.rpm
    BY <1>2, WaitEarnsToken
  <2>4. d.wait * c.rpm \in Int /\ (elapsed - d.at) * c.rpm \in Int
    <3>1. d.wait \in Int /\ c.rpm \in Int
      BY <1>3
    <3> HIDE DEF d
    <3> QED  BY <2>1, <3>1, MulType
  <2> QED  BY <1>3, <2>2, <2>3, <2>4
<1>6. Unit <= c.burst * Unit
  <2>1. 1 * Unit <= c.burst * Unit
    BY <1>3, MulMonotone
  <2>2. 1 * Unit = Unit
    BY <1>3
  <2> QED  BY <2>1, <2>2
<1>7. Unit <= Refilled(b, clock)
  <2>1. Refilled(b, clock) \in Int /\ c.burst * Unit \in Int
        /\ (elapsed - d.at) * c.rpm \in Int
    BY <1>3, RefilledType, MulType
  <2> HIDE DEF b, d
  <2> QED  BY <1>2, <1>3, <1>5, <1>6, <2>1 DEF Least
<1> QED  BY <1>3, <1>4, <1>7, RefilledType DEF Deny

(* A client that waits as long as a 429 told it, and does nothing else, is *)
(* admitted, for every configuration and any interleaving with others.     *)
THEOREM RetryIsHonestCorrect == Spec => RetryIsHonest
<1>1. TypeOK /\ Waiting /\ [Next]_vars =>
        [\A id \in Ids, c \in Configs :
           /\ back = 0
           /\ denial[id].config = c
           /\ elapsed >= denial[id].at + denial[id].wait
           => ~Deny(id, c)]_vars
  BY WaitedLemma
<1> QED  BY <1>1, InitInv, InitWaiting, TypeStep, WaitingStep, PTL DEF Spec, RetryIsHonest

================================================================================
