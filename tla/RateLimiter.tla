------------------------------ MODULE RateLimiter ------------------------------
(***************************************************************************)
(* The token buckets of src/middleware/rateLimit.ts, one per key id, with  *)
(* the configuration each request brings along: the ApiKey the             *)
(* authentication found, which an administrator may have changed since the *)
(* last request and which two keys of the same id may disagree on.         *)
(*                                                                         *)
(* Tokens are counted in fractions: Unit fractions are one token, and a    *)
(* rate of rpm requests per minute adds rpm fractions per tick.  With      *)
(* ticks of one millisecond Unit is 60000, with ticks of one second 60.    *)
(*                                                                         *)
(* The clock is Date.now(), which may be set back.  A forward step is time *)
(* that passes: "elapsed" sums up all forward movement of the clock.       *)
(***************************************************************************)
EXTENDS Integers

CONSTANTS
  Ids,          \* the ids of API keys
  Configs,      \* rate limit configurations: [rpm, burst]
  Unit,         \* fractions in a token
  Second,       \* ticks in a second
  MaxTime,      \* bound: elapsed never exceeds it
  MaxBack       \* bound: how often the clock is set back, one tick each

ASSUME UnitAssumption == Unit \in Nat \ {0} /\ Second \in Nat \ {0}
(* parseRateLimitConfig accepts integers from 1 only. *)
ASSUME ConfigsAssumption == Configs \subseteq [rpm : Nat \ {0}, burst : Nat \ {0}]
ASSUME BoundsAssumption == MaxTime \in Nat /\ MaxBack \in Nat

VARIABLES
  clock,        \* Date.now()
  elapsed,      \* forward movement of the clock so far
  back,         \* how often the clock was set back
  known,        \* the ids that have a bucket
  buckets,      \* their buckets: [tokens, lastRefill, capacity, rate]
  window,       \* observer: what each id was admitted since some moment
  denial        \* observer: the last answer to each id, if it was a 429

vars == <<clock, elapsed, back, known, buckets, window, denial>>

Least(a, b) == IF a <= b THEN a ELSE b
Greatest(a, b) == IF a <= b THEN b ELSE a
CeilDiv(a, b) == (a + b - 1) \div b

Bucket == [tokens : Int, lastRefill : Int, capacity : Nat, rate : Nat]
Window == [since : Nat, count : Nat, burst : Nat, rpm : Nat]

EmptyBucket == [tokens |-> 0, lastRefill |-> 0, capacity |-> 0, rate |-> 0]
NoDenial == [at |-> 0, wait |-> 0, config |-> [rpm |-> 0, burst |-> 0]]

--------------------------------------------------------------------------------
(* The limiter. *)

Refilled(b, t) ==
  Least(b.capacity * Unit, b.tokens + (t - b.lastRefill) * b.rate)

RefillBucket(b, t) == [b EXCEPT !.tokens = Refilled(b, t), !.lastRefill = t]

(* A mistake: a new configuration starts with a full bucket. *)
ReconfiguredFull(b, c, t) ==
  IF b.capacity = c.burst /\ b.rate = c.rpm
  THEN b
  ELSE [tokens |-> c.burst * Unit, lastRefill |-> t,
        capacity |-> c.burst, rate |-> c.rpm]

(* The old rate and capacity apply up to the first request that brings the *)
(* new ones.                                                               *)
Reconfigured(b, c, t) ==
  IF b.capacity = c.burst /\ b.rate = c.rpm
  THEN b
  ELSE [tokens |-> Least(Refilled(b, t), c.burst * Unit), lastRefill |-> t,
        capacity |-> c.burst, rate |-> c.rpm]

NewBucket(c, t) ==
  [tokens |-> c.burst * Unit, lastRefill |-> t, capacity |-> c.burst, rate |-> c.rpm]

GetBucket(id, c) ==
  IF id \in known THEN Reconfigured(buckets[id], c, clock) ELSE NewBucket(c, clock)

(* The bucket consumeToken() decides on. *)
Offered(id, c) == RefillBucket(GetBucket(id, c), clock)

(* A mistake: the wait is rounded down. *)
GetRetryAfterFloor(c) == (Unit \div (c.rpm * Second)) * Second

(* A mistake: a moment counted from the start is taken for a wait. *)
GetRetryAfterMoment(c) == CeilDiv(Unit, c.rpm * Second) * Second - clock

GetRetryAfter(c) == CeilDiv(Unit, c.rpm * Second) * Second

--------------------------------------------------------------------------------
Init ==
  /\ clock = 0 /\ elapsed = 0 /\ back = 0
  /\ known = {}
  /\ buckets = [id \in Ids |-> EmptyBucket]
  /\ window = [id \in Ids |-> [since |-> 0, count |-> 0, burst |-> 0, rpm |-> 0]]
  /\ denial = [id \in Ids |-> NoDenial]

(* The window grows with the configurations seen in it. *)
Widened(w, c, n) ==
  [since |-> w.since, count |-> w.count + n,
   burst |-> Greatest(w.burst, c.burst), rpm |-> Greatest(w.rpm, c.rpm)]

(* The middleware runs without an await up to its decision. *)
Admit(id, c) ==
  /\ Offered(id, c).tokens >= Unit
  /\ known' = known \cup {id}
  /\ buckets' = [buckets EXCEPT ![id] = [Offered(id, c) EXCEPT !.tokens = @ - Unit]]
  /\ window' = [window EXCEPT ![id] = Widened(@, c, 1)]
  /\ denial' = [denial EXCEPT ![id] = NoDenial]
  /\ UNCHANGED <<clock, elapsed, back>>

Deny(id, c) ==
  /\ Offered(id, c).tokens < Unit
  /\ known' = known \cup {id}
  /\ buckets' = [buckets EXCEPT ![id] = Offered(id, c)]
  /\ window' = [window EXCEPT ![id] = Widened(@, c, 0)]
  /\ denial' = [denial EXCEPT ![id] =
                  [at |-> elapsed, wait |-> GetRetryAfter(c), config |-> c]]
  /\ UNCHANGED <<clock, elapsed, back>>

(* getStatus(): reading a bucket refills it. *)
GetStatus(id) ==
  /\ id \in known
  /\ buckets' = [buckets EXCEPT ![id] = RefillBucket(@, clock)]
  /\ UNCHANGED <<clock, elapsed, back, known, window, denial>>

(* resetBucket(): the id starts afresh. *)
ResetBucket(id) ==
  /\ known' = known \ {id}
  /\ buckets' = [buckets EXCEPT ![id] = EmptyBucket]
  /\ window' = [window EXCEPT ![id] =
                  [since |-> elapsed, count |-> 0, burst |-> 0, rpm |-> 0]]
  /\ denial' = [denial EXCEPT ![id] = NoDenial]
  /\ UNCHANGED <<clock, elapsed, back>>

(* clearAll(), and a restart of the process: all buckets are gone. *)
ClearAll ==
  /\ known # {}
  /\ known' = {}
  /\ buckets' = [id \in Ids |-> EmptyBucket]
  /\ window' = [id \in Ids |-> [since |-> elapsed, count |-> 0, burst |-> 0, rpm |-> 0]]
  /\ denial' = [id \in Ids |-> NoDenial]
  /\ UNCHANGED <<clock, elapsed, back>>

Tick ==
  /\ elapsed < MaxTime
  /\ elapsed' = elapsed + 1 /\ clock' = clock + 1
  /\ UNCHANGED <<back, known, buckets, window, denial>>

SetBack ==
  /\ back < MaxBack
  /\ back' = back + 1 /\ clock' = clock - 1
  /\ UNCHANGED <<elapsed, known, buckets, window, denial>>

(* The observer starts to count anew, at any moment. *)
Observe(id) ==
  /\ window' = [window EXCEPT ![id] =
                  [since |-> elapsed, count |-> 0,
                   burst |-> IF id \in known THEN buckets[id].capacity ELSE 0,
                   rpm |-> IF id \in known THEN buckets[id].rate ELSE 0]]
  /\ UNCHANGED <<clock, elapsed, back, known, buckets, denial>>

Next ==
  \/ \E id \in Ids, c \in Configs : Admit(id, c) \/ Deny(id, c)
  \/ \E id \in Ids : GetStatus(id) \/ ResetBucket(id) \/ Observe(id)
  \/ ClearAll \/ Tick \/ SetBack

Spec == Init /\ [][Next]_vars

--------------------------------------------------------------------------------
(* The types; in particular every bucket has all its fields.               *)
TypeOK ==
  /\ clock \in Int /\ elapsed \in Nat /\ back \in Nat
  /\ known \subseteq Ids
  /\ buckets \in [Ids -> Bucket]
  /\ window \in [Ids -> Window]
  /\ denial \in [Ids -> [at : Nat, wait : Nat, config : [rpm : Nat, burst : Nat]]]

(* What a key may send in any stretch of time: as many requests as the     *)
(* largest burst it had plus the largest rate it had times the stretch.    *)
(* Changing the configuration back and forth, asking for the status and    *)
(* setting the clock back create no tokens.                                *)
AdmissionBound ==
  \A id \in Ids :
    LET w == window[id]
    IN  w.count * Unit <= w.burst * Unit + w.rpm * (elapsed - w.since)

(* A client that was told to retry after some seconds, and did nothing     *)
(* else since, is admitted when it does, on a clock that is not set back.  *)
RetryIsHonest ==
  [][\A id \in Ids, c \in Configs :
       /\ back = 0
       /\ denial[id].config = c
       /\ elapsed >= denial[id].at + denial[id].wait
       => ~Deny(id, c)]_vars

================================================================================
