---------------------------- MODULE TokenBucket ----------------------------
(***************************************************************************)
(* The token bucket of package ratelimit (TokenBucket, NewTokenBucket,     *)
(* Allow, refill).  A bucket is a record holding the two mutable fields    *)
(* of the Go struct: the token count and the time of the last refill.      *)
(* Capacity and refill rate are the immutable fields, given as constants   *)
(* so that the global bucket and the per-IP buckets are two instances of  *)
(* this module.  The bucket's mutex is not modelled here: every operator   *)
(* below is one critical section, and the modules that use them make each *)
(* call one atomic step.                                                   *)
(*                                                                         *)
(* Time is a natural number of clock ticks; TicksPerSecond ticks make one  *)
(* second, so that elapsed time can be a fraction of a second and the     *)
(* truncation int64(elapsed * refillRate) is visible.                     *)
(***************************************************************************)
EXTENDS Integers

CONSTANTS Capacity,        \* tb.capacity
          RefillRate,      \* tb.refillRate, tokens per second
          TicksPerSecond   \* resolution of the model clock

\* The values a bucket can take: tb.tokens and tb.lastRefill.
Bucket == [tokens : 0..Capacity, lastRefill : Nat]

\* NewTokenBucket: a full bucket whose refill clock starts now.
NewTokenBucket(now) == [tokens |-> Capacity, lastRefill |-> now]

\* The package's helper min.
min(a, b) == IF a < b THEN a ELSE b

\* int64(elapsed * float64(tb.refillRate)), elapsed in seconds: whole tokens
\* earned since lastRefill, the fraction truncated.
TokensToAdd(b, now) == ((now - b.lastRefill) * RefillRate) \div TicksPerSecond

\* Mutant: the refill clock is never restarted, so the same elapsed time
\* is paid out again on every call.
refillNoClock(b, now) ==
  IF TokensToAdd(b, now) > 0
  THEN [b EXCEPT !.tokens = min(Capacity, @ + TokensToAdd(b, now))]
  ELSE b

\* refill: add the whole tokens earned, capped at capacity, and restart the
\* refill clock only when at least one whole token was added.
refill(b, now) ==
  IF TokensToAdd(b, now) > 0
  THEN [tokens |-> min(Capacity, b.tokens + TokensToAdd(b, now)),
        lastRefill |-> now]
  ELSE b

\* The result of Allow: after the refill, is a token available?
Allowed(b, now) == refill(b, now).tokens > 0

\* Mutant: a token is taken without checking that one is there.
AllowUnchecked(b, now) == [refill(b, now) EXCEPT !.tokens = @ - 1]

\* The bucket after Allow: refilled, and one token consumed if allowed.
Allow(b, now) ==
  LET r == refill(b, now)
  IN  IF r.tokens > 0 THEN [r EXCEPT !.tokens = @ - 1] ELSE r
=============================================================================
