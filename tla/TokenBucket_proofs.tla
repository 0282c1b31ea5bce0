------------------------- MODULE TokenBucket_proofs -------------------------
(***************************************************************************)
(* Facts about one token bucket's refill and Allow, for every capacity,    *)
(* rate, clock resolution and elapsed time, including a clock read that   *)
(* is behind lastRefill.                                                    *)
(***************************************************************************)
EXTENDS TokenBucket, TLAPS

\* The values of a bucket whose token count is within its capacity.
BoundedBucket == [tokens : 0..Capacity, lastRefill : Int]

(* refill keeps the token count within 0..capacity: min(capacity, tokens + *)
(* whole tokens earned) is applied only when a whole token was earned.     *)
LEMMA RefillBounded ==
  ASSUME Capacity \in Nat, RefillRate \in Nat, TicksPerSecond \in Nat \ {0},
         NEW b \in BoundedBucket, NEW t \in Int
  PROVE  refill(b, t) \in BoundedBucket
<1>1. TokensToAdd(b, t) \in Int
  BY DEF BoundedBucket, TokensToAdd
<1>2. CASE TokensToAdd(b, t) > 0
  <2>1. min(Capacity, b.tokens + TokensToAdd(b, t)) \in 0..Capacity
    BY <1>1, <1>2 DEF BoundedBucket, min
  <2> QED
    BY <1>2, <2>1 DEF refill, BoundedBucket
<1>3. CASE ~(TokensToAdd(b, t) > 0)
  BY <1>3 DEF refill
<1> QED
  BY <1>2, <1>3

(* Allow takes a token only from a refilled bucket that has one, so the    *)
(* count stays within 0..capacity and drops by exactly one when allowed.   *)
LEMMA AllowBounded ==
  ASSUME Capacity \in Nat, RefillRate \in Nat, TicksPerSecond \in Nat \ {0},
         NEW b \in BoundedBucket, NEW t \in Int
  PROVE  /\ Allow(b, t) \in BoundedBucket
         /\ Allow(b, t).tokens = IF Allowed(b, t)
                                 THEN refill(b, t).tokens - 1
                                 ELSE refill(b, t).tokens
<1>1. refill(b, t) \in BoundedBucket
  BY RefillBounded
<1> QED
  BY <1>1 DEF Allow, Allowed, BoundedBucket

(* A bucket read at a clock time no earlier than zero keeps its type:     *)
(* tokens within capacity, lastRefill a clock reading.  refill restarts   *)
(* its clock at the time it is given, or leaves the bucket alone.          *)
LEMMA AllowTyped ==
  ASSUME Capacity \in Nat, RefillRate \in Nat, TicksPerSecond \in Nat \ {0},
         NEW b \in Bucket, NEW t \in Nat
  PROVE  /\ refill(b, t) \in Bucket
         /\ Allow(b, t) \in Bucket
<1>1. b \in BoundedBucket
  BY DEF Bucket, BoundedBucket
<1>2. refill(b, t) \in BoundedBucket /\ Allow(b, t) \in BoundedBucket
  BY <1>1, RefillBounded, AllowBounded
<1>3. refill(b, t).lastRefill \in Nat
  BY DEF refill, Bucket
<1>4. Allow(b, t).lastRefill = refill(b, t).lastRefill
  BY <1>2 DEF Allow, BoundedBucket
<1> QED
  BY <1>2, <1>3, <1>4 DEF Bucket, BoundedBucket
(* A refill restarts the clock only when it pays out, so a second refill  *)
(* at the same clock reading adds nothing.  Allow therefore takes its     *)
(* token out of what a refill at that time offers: within one tick,        *)
(* repeated calls cannot earn back the tokens they took.                  *)
LEMMA AllowAvailable ==
  ASSUME Capacity \in Nat, RefillRate \in Nat, TicksPerSecond \in Nat \ {0},
         NEW b \in BoundedBucket, NEW t \in Int
  PROVE  refill(Allow(b, t), t).tokens
           = refill(b, t).tokens - (IF Allowed(b, t) THEN 1 ELSE 0)
<1>1. refill(b, t) \in BoundedBucket /\ Allow(b, t) \in BoundedBucket
  BY RefillBounded, AllowBounded
<1>2. Allow(b, t).lastRefill = refill(b, t).lastRefill
  BY <1>1 DEF Allow, BoundedBucket
<1>3. ~(TokensToAdd(Allow(b, t), t) > 0)
  <2>1. CASE TokensToAdd(b, t) > 0
    <3>1. Allow(b, t).lastRefill = t
      BY <1>2, <2>1 DEF refill
    <3> QED
      BY <3>1 DEF TokensToAdd
  <2>2. CASE ~(TokensToAdd(b, t) > 0)
    <3>1. Allow(b, t).lastRefill = b.lastRefill
      BY <1>2, <2>2 DEF refill
    <3> QED
      BY <2>2, <3>1 DEF TokensToAdd
  <2> QED
    BY <2>1, <2>2
<1>4. refill(Allow(b, t), t) = Allow(b, t)
  BY <1>3 DEF refill
<1>5. Allow(b, t).tokens = IF Allowed(b, t) THEN refill(b, t).tokens - 1
                                           ELSE refill(b, t).tokens
  BY AllowBounded
<1> QED
  BY <1>1, <1>4, <1>5 DEF BoundedBucket
=============================================================================
