---------------------------- MODULE RateLimiter ----------------------------
(***************************************************************************)
(* TwoTierRateLimiter of package ratelimit: one global token bucket, a     *)
(* sync.Map from client IP to a per-IP token bucket, the callers of Allow  *)
(* and Wait running as concurrent goroutines, and the cleanupIPBuckets     *)
(* goroutine that evicts idle per-IP buckets.                              *)
(*                                                                         *)
(* Allow(clientIP) is not atomic: it takes a global token, then looks the  *)
(* IP's bucket up (Load, and on a miss LoadOrStore of a fresh bucket),     *)
(* then asks that bucket, then on a per-IP denial returns the global      *)
(* token.  Each of these is one step here, because each is one critical   *)
(* section (a bucket mutex) or one sync.Map operation in the code, and    *)
(* other goroutines run between them.                                     *)
(*                                                                         *)
(* Buckets live in a heap: ipBuckets maps an IP to a bucket id and a       *)
(* goroutine holds the id it loaded, so that a goroutine can keep using a *)
(* bucket that the sweep has removed from the map.                        *)
(***************************************************************************)
EXTENDS Integers, FiniteSets

CONSTANTS Procs,           \* goroutines calling the limiter
          Waiters,         \* those of Procs that call Wait rather than Allow
          IPs,             \* client IPs
          GlobalCapacity, GlobalRate, PerIPCapacity, PerIPRate,
          TicksPerSecond,  \* model clock ticks per second
          IdleTicks,       \* the sweep's idle threshold (30 minutes)
          MaxTime,         \* bound: the clock stops at MaxTime
          MaxBuckets       \* size of the bucket heap

ASSUME ConstantsAssumption ==
  /\ IsFiniteSet(Procs)
  /\ Waiters \subseteq Procs
  /\ IPs # {}
  /\ IsFiniteSet(IPs)
  /\ {GlobalCapacity, GlobalRate, PerIPCapacity, PerIPRate, IdleTicks, MaxTime}
       \subseteq Nat
  /\ TicksPerSecond \in Nat \ {0}
  \* a free heap slot always exists: at most one bucket per IP is in the map
  \* and each goroutine holds at most one more
  /\ MaxBuckets \in Nat
  /\ MaxBuckets >= Cardinality(IPs) + Cardinality(Procs)
  \* a bucket idle for IdleTicks would be full again by refill (the code's
  \* defaults: 30 minutes at 10 tokens per second against a capacity of 10)
  /\ IdleTicks * PerIPRate >= PerIPCapacity * TicksPerSecond

GB == INSTANCE TokenBucket WITH Capacity <- GlobalCapacity,
                                RefillRate <- GlobalRate
IB == INSTANCE TokenBucket WITH Capacity <- PerIPCapacity,
                                RefillRate <- PerIPRate

BucketIds == 1..MaxBuckets
NoBucket == 0

VARIABLES
  now,          \* time.Now(), in ticks
  globalBucket, \* trl.globalBucket
  buckets,      \* the heap of per-IP TokenBuckets, by id
  ipBuckets,    \* trl.ipBuckets: IP -> bucket id, NoBucket when absent
  pc,           \* where each goroutine is in Allow or Wait
  clientIP,     \* the IP of each goroutine's current call
  held,         \* the bucket id a goroutine holds (new or loaded bucket)
  sweepPc,      \* cleanupIPBuckets: "idle", "scan" or "delete"
  toVisit,      \* keys the current Range has still to visit
  cutoff,       \* the current pass's time.Now().Add(-30 * time.Minute)
  sweepKey,     \* the key the sweep found stale and is about to Delete
  admitted,     \* history: per-IP admissions in the current clock tick
  gBudget,      \* history: global capacity plus the tokens refill added to
                \* the global bucket, minus the requests admitted since start
  gDropped      \* history: give-backs that found the global bucket full

limiterVars == <<globalBucket, buckets, ipBuckets>>
procVars == <<pc, clientIP, held>>
sweepVars == <<sweepPc, toVisit, cutoff, sweepKey>>
histVars == <<admitted, gBudget, gDropped>>
vars == <<now, limiterVars, procVars, sweepVars, histVars>>

(* Heap slots no one refers to: neither the map nor a goroutine. *)
FreeIds == {b \in BucketIds : /\ \A i \in IPs : ipBuckets[i] # b
                              /\ \A p \in Procs : held[p] # b}

(* The goroutines that hold a global token they took: between the global *)
(* Allow and the end of the per-IP check or of the give-back.             *)
HoldingPcs == {"load", "store", "ipAllow", "return"}
Holders == {p \in Procs : pc[p] \in HoldingPcs}

(* Where a call goes once it is denied: Allow returns false, Wait sleeps  *)
(* until its next ticker tick.                                            *)
AfterDenial(p) == IF p \in Waiters THEN "sleep" ELSE "idle"

-----------------------------------------------------------------------------
Init ==
  /\ now = 0
  /\ globalBucket = GB!NewTokenBucket(0)
  /\ buckets = [b \in BucketIds |-> IB!NewTokenBucket(0)]
  /\ ipBuckets = [i \in IPs |-> NoBucket]
  /\ pc = [p \in Procs |-> "idle"]
  /\ clientIP = [p \in Procs |-> CHOOSE i \in IPs : TRUE]
  /\ held = [p \in Procs |-> NoBucket]
  /\ sweepPc = "idle"
  /\ toVisit = {}
  /\ cutoff = 0
  /\ sweepKey = CHOOSE i \in IPs : TRUE
  /\ admitted = [i \in IPs |-> 0]
  /\ gBudget = GlobalCapacity
  /\ gDropped = 0

(* Time passes.  The per-tick admission count starts again.               *)
Tick ==
  /\ now < MaxTime
  /\ now' = now + 1
  /\ admitted' = [i \in IPs |-> 0]
  /\ UNCHANGED <<limiterVars, procVars, sweepVars, gBudget, gDropped>>

\* Mutant: the global bucket is refilled and checked, but no token taken.
GlobalAllowNoTake(p) ==
  /\ globalBucket' = GB!refill(globalBucket, now)
  /\ gBudget' = gBudget + (GB!refill(globalBucket, now).tokens
                           - globalBucket.tokens)
  /\ pc' = [pc EXCEPT ![p] = IF GB!Allowed(globalBucket, now) THEN "load"
                                                           ELSE AfterDenial(p)]

(* trl.globalBucket.Allow(), the first step of Allow(clientIP): refill the *)
(* global bucket and take a token.  Denied, the call ends here.           *)
GlobalAllow(p) ==
  /\ globalBucket' = GB!Allow(globalBucket, now)
  /\ gBudget' = gBudget + (GB!refill(globalBucket, now).tokens
                           - globalBucket.tokens)
  /\ pc' = [pc EXCEPT ![p] = IF GB!Allowed(globalBucket, now) THEN "load"
                                                           ELSE AfterDenial(p)]

(* A goroutine calls Allow(ip).                                           *)
CallAllow(p) ==
  /\ p \notin Waiters
  /\ pc[p] = "idle"
  /\ \E i \in IPs : clientIP' = [clientIP EXCEPT ![p] = i]
  /\ GlobalAllow(p)
  /\ UNCHANGED <<now, buckets, ipBuckets, held, sweepVars, admitted,
                 gDropped>>

(* A goroutine calls Wait(ctx, ip): it starts its ticker and sleeps.      *)
CallWait(p) ==
  /\ p \in Waiters
  /\ pc[p] = "idle"
  /\ \E i \in IPs : clientIP' = [clientIP EXCEPT ![p] = i]
  /\ pc' = [pc EXCEPT ![p] = "sleep"]
  /\ UNCHANGED <<now, limiterVars, held, sweepVars, histVars>>

(* Wait's ticker fires: it calls Allow(ip) again.                         *)
WaitTick(p) ==
  /\ pc[p] = "sleep"
  /\ GlobalAllow(p)
  /\ UNCHANGED <<now, buckets, ipBuckets, clientIP, held, sweepVars,
                 admitted, gDropped>>

(* Wait's context is done first: it returns ctx.Err().                    *)
WaitCancel(p) ==
  /\ pc[p] = "sleep"
  /\ pc' = [pc EXCEPT ![p] = "idle"]
  /\ UNCHANGED <<now, limiterVars, clientIP, held, sweepVars, histVars>>

(* getOrCreateIPBucket, first half: ipBuckets.Load(clientIP).  On a miss  *)
(* the goroutine builds NewTokenBucket(perIPCapacity, perIPRate), which   *)
(* no one else can see yet.                                               *)
LoadIPBucket(p) ==
  /\ pc[p] = "load"
  /\ LET b == ipBuckets[clientIP[p]] IN
       IF b # NoBucket
       THEN /\ held' = [held EXCEPT ![p] = b]
            /\ pc' = [pc EXCEPT ![p] = "ipAllow"]
            /\ UNCHANGED buckets
       ELSE LET nb == CHOOSE x \in FreeIds : \A y \in FreeIds : x <= y IN
              /\ buckets' = [buckets EXCEPT ![nb] = IB!NewTokenBucket(now)]
              /\ held' = [held EXCEPT ![p] = nb]
              /\ pc' = [pc EXCEPT ![p] = "store"]
  /\ UNCHANGED <<now, globalBucket, ipBuckets, clientIP, sweepVars, histVars>>

\* Mutant: ipBuckets.Store instead of LoadOrStore; the last writer wins.
StoreIPBucketOverwrite(p) ==
  /\ pc[p] = "store"
  /\ ipBuckets' = [ipBuckets EXCEPT ![clientIP[p]] = held[p]]
  /\ pc' = [pc EXCEPT ![p] = "ipAllow"]
  /\ UNCHANGED <<now, globalBucket, buckets, clientIP, held, sweepVars,
                 histVars>>

(* getOrCreateIPBucket, second half: ipBuckets.LoadOrStore(clientIP, new). *)
(* If another goroutine stored a bucket first, that one is used and the    *)
(* new one is dropped.                                                     *)
StoreIPBucket(p) ==
  /\ pc[p] = "store"
  /\ LET i == clientIP[p] IN
       IF ipBuckets[i] # NoBucket
       THEN /\ held' = [held EXCEPT ![p] = ipBuckets[i]]
            /\ UNCHANGED ipBuckets
       ELSE /\ ipBuckets' = [ipBuckets EXCEPT ![i] = held[p]]
            /\ UNCHANGED held
  /\ pc' = [pc EXCEPT ![p] = "ipAllow"]
  /\ UNCHANGED <<now, globalBucket, buckets, clientIP, sweepVars, histVars>>

\* Mutant: a per-IP denial returns false at once; the global token is not
\* given back.
IPAllowNoGiveBack(p) ==
  /\ pc[p] = "ipAllow"
  /\ LET b == held[p]
         i == clientIP[p]
         ok == IB!Allowed(buckets[b], now)
     IN /\ buckets' = [buckets EXCEPT ![b] = IB!Allow(buckets[b], now)]
        /\ held' = [held EXCEPT ![p] = NoBucket]
        /\ pc' = [pc EXCEPT ![p] = IF ok THEN "idle" ELSE AfterDenial(p)]
        /\ admitted' = [admitted EXCEPT ![i] = IF ok THEN @ + 1 ELSE @]
        /\ gBudget' = IF ok THEN gBudget - 1 ELSE gBudget
  /\ UNCHANGED <<now, globalBucket, ipBuckets, clientIP, sweepVars, gDropped>>

(* ipBucket.Allow(): admitted, Allow returns true; denied, the global      *)
(* token has to be given back.                                             *)
IPAllow(p) ==
  /\ pc[p] = "ipAllow"
  /\ LET b == held[p]
         i == clientIP[p]
         ok == IB!Allowed(buckets[b], now)
     IN /\ buckets' = [buckets EXCEPT ![b] = IB!Allow(buckets[b], now)]
        /\ held' = [held EXCEPT ![p] = NoBucket]
        /\ pc' = [pc EXCEPT ![p] = IF ok THEN "idle" ELSE "return"]
        /\ admitted' = [admitted EXCEPT ![i] = IF ok THEN @ + 1 ELSE @]
        /\ gBudget' = IF ok THEN gBudget - 1 ELSE gBudget
  /\ UNCHANGED <<now, globalBucket, ipBuckets, clientIP, sweepVars, gDropped>>

\* Mutant: the give-back without the capacity check.
returnGlobalTokenUncapped(b) == [b EXCEPT !.tokens = @ + 1]

(* returnGlobalToken: under the global bucket's lock, one token back,     *)
(* unless the bucket is already full.                                     *)
returnGlobalToken(b) ==
  IF b.tokens < GlobalCapacity THEN [b EXCEPT !.tokens = @ + 1] ELSE b

ReturnGlobalToken(p) ==
  /\ pc[p] = "return"
  /\ globalBucket' = returnGlobalToken(globalBucket)
  /\ pc' = [pc EXCEPT ![p] = AfterDenial(p)]
  /\ gDropped' = IF globalBucket.tokens >= GlobalCapacity THEN gDropped + 1
                                                          ELSE gDropped
  /\ UNCHANGED <<now, buckets, ipBuckets, clientIP, held, sweepVars,
                 admitted, gBudget>>

-----------------------------------------------------------------------------
(* cleanupIPBuckets.  Its ticker fires (every 10 minutes in the code; at   *)
(* any time here): the pass fixes its cutoff and ranges over the keys     *)
(* present now.                                                           *)
SweepStart ==
  /\ sweepPc = "idle"
  /\ sweepPc' = "scan"
  /\ cutoff' = now - IdleTicks
  /\ toVisit' = {i \in IPs : ipBuckets[i] # NoBucket}
  /\ UNCHANGED <<now, limiterVars, procVars, sweepKey, histVars>>

(* The Range callback for key i: read the bucket's lastRefill under its   *)
(* mutex and compare it with the cutoff.                                  *)
SweepCheck ==
  /\ sweepPc = "scan"
  /\ \E i \in toVisit :
       /\ toVisit' = toVisit \ {i}
       /\ IF /\ ipBuckets[i] # NoBucket
             /\ buckets[ipBuckets[i]].lastRefill < cutoff
          THEN sweepPc' = "delete" /\ sweepKey' = i
          ELSE UNCHANGED <<sweepPc, sweepKey>>
  /\ UNCHANGED <<now, limiterVars, procVars, cutoff, histVars>>

(* ipBuckets.Delete(key), after the mutex was released.                    *)
SweepDelete ==
  /\ sweepPc = "delete"
  /\ ipBuckets' = [ipBuckets EXCEPT ![sweepKey] = NoBucket]
  /\ sweepPc' = "scan"
  /\ UNCHANGED <<now, globalBucket, buckets, procVars, toVisit, cutoff,
                 sweepKey, histVars>>

(* Range has visited every key: wait for the next tick.                   *)
SweepEnd ==
  /\ sweepPc = "scan"
  /\ toVisit = {}
  /\ sweepPc' = "idle"
  /\ UNCHANGED <<now, limiterVars, procVars, toVisit, cutoff, sweepKey,
                 histVars>>

-----------------------------------------------------------------------------
Next ==
  \/ Tick
  \/ \E p \in Procs :
       \/ CallAllow(p) \/ CallWait(p) \/ WaitTick(p) \/ WaitCancel(p)
       \/ LoadIPBucket(p) \/ StoreIPBucket(p) \/ IPAllow(p)
       \/ ReturnGlobalToken(p)
  \/ SweepStart \/ SweepCheck \/ SweepDelete \/ SweepEnd

Spec == Init /\ [][Next]_vars

-----------------------------------------------------------------------------
TypeOK ==
  /\ now \in 0..MaxTime
  /\ globalBucket \in GB!Bucket
  /\ buckets \in [BucketIds -> IB!Bucket]
  /\ ipBuckets \in [IPs -> BucketIds \cup {NoBucket}]
  /\ pc \in [Procs -> {"idle", "sleep", "load", "store", "ipAllow", "return"}]
  /\ clientIP \in [Procs -> IPs]
  /\ held \in [Procs -> BucketIds \cup {NoBucket}]
  /\ sweepPc \in {"idle", "scan", "delete"}
  /\ toVisit \in SUBSET IPs
  /\ cutoff \in Int
  /\ sweepKey \in IPs
  /\ admitted \in [IPs -> Nat]
  /\ gBudget \in Int
  /\ gDropped \in Nat

(* The global tier never admits more requests than its capacity plus the  *)
(* tokens refill has added: the take / deny / give-back sequence of Allow  *)
(* never manufactures a global token.                                      *)
GlobalAdmitBound == gBudget >= 0

(* A goroutine asking a per-IP bucket asks the one the map holds for its   *)
(* IP: get-or-create has one winner, so one IP is never served by two      *)
(* buckets at once (getOrCreateIPBucket, cleanupIPBuckets).                *)
OneBucketPerIP ==
  \A p \in Procs : pc[p] = "ipAllow" => held[p] = ipBuckets[clientIP[p]]

(* Spec: a per-IP denial returns exactly one token to the global bucket, *)
(* capped at its capacity.  Every global token is accounted for, however  *)
(* takes, refills, admissions and give-backs of several goroutines        *)
(* interleave: the budget (capacity plus refills minus admissions) equals  *)
(* the tokens in the bucket, plus those goroutines hold between the global *)
(* Allow and the end of Allow, plus the give-backs dropped because the    *)
(* bucket was full (Allow, returnGlobalToken).  A denial that keeps its    *)
(* token, or a give-back that is lost, breaks the equality.               *)
GlobalTokensAccounted ==
  gBudget = globalBucket.tokens + Cardinality(Holders) + gDropped

(* Spec: P+1 rapid requests from one identifier admit exactly P.  Within  *)
(* one clock tick no IP is admitted more than PerIPCapacity times.         *)
BurstBound == \A i \in IPs : admitted[i] <= PerIPCapacity
=============================================================================
