----------------------- MODULE RateLimiterBurst_proofs ----------------------
(***************************************************************************)
(* The per-IP burst bound of TwoTierRateLimiter.Allow ("P+1 rapid requests *)
(* from one identifier admit exactly P"), proved for every number of      *)
(* goroutines, IPs and heap slots when the cleanup finds no bucket idle.   *)
(*                                                                         *)
(* Within one clock tick an IP is admitted only through the bucket the map *)
(* holds for it (OneBucketPerIP), and every admission takes a token the    *)
(* refill of that tick cannot give back.  The count admitted so far this   *)
(* tick plus the tokens the bucket would have after a refill now therefore *)
(* never exceeds the capacity.  For that, a per-IP Allow must touch no     *)
(* other IP's bucket: the map never gives two IPs one bucket, and a bucket *)
(* built on a Load miss is one nobody else refers to until LoadOrStore     *)
(* publishes it.                                                           *)
(***************************************************************************)
EXTENDS RateLimiterHeap_proofs

\* The tokens a per-IP bucket would hold after a refill at the current tick.
Available(b) == IB!refill(buckets[b], now).tokens

(* Two IPs never share a bucket in the map.                                *)
MapInjective ==
  \A i, j \in IPs : ipBuckets[i] = ipBuckets[j] /\ i # j => ipBuckets[i] = NoBucket

(* A bucket built on a Load miss is unpublished and unshared until         *)
(* LoadOrStore.                                                            *)
FreshStore ==
  \A p \in Procs :
    pc[p] = "store" =>
      /\ \A i \in IPs : ipBuckets[i] # held[p]
      /\ \A q \in Procs \ {p} : held[q] # held[p]

(* This tick's admissions of an IP are paid for by its map bucket.         *)
BurstBudget ==
  \A i \in IPs :
    IF ipBuckets[i] = NoBucket
    THEN admitted[i] = 0
    ELSE admitted[i] + Available(ipBuckets[i]) <= PerIPCapacity

BInv == OInv /\ MapInjective /\ FreshStore /\ BurstBudget
-----------------------------------------------------------------------------
(* A per-IP bucket's refill offers 0..capacity tokens, and Allow takes its *)
(* token out of that offer (TokenBucket_proofs' AllowAvailable).           *)
LEMMA IBAvail ==
  ASSUME NEW b \in IB!Bucket, NEW t \in Nat
  PROVE  /\ IB!refill(b, t).tokens \in 0..PerIPCapacity
         /\ IB!refill(IB!Allow(b, t), t).tokens
              = IB!refill(b, t).tokens - (IF IB!Allowed(b, t) THEN 1 ELSE 0)
<1>1. b \in IBP!BoundedBucket /\ t \in Int
  BY DEF IB!Bucket, IBP!BoundedBucket
<1>2. IBP!refill(b, t) \in IBP!BoundedBucket
  BY <1>1, BucketConstants, IBP!RefillBounded
<1>3. IBP!refill(IBP!Allow(b, t), t).tokens
        = IBP!refill(b, t).tokens - (IF IBP!Allowed(b, t) THEN 1 ELSE 0)
  BY <1>1, BucketConstants, IBP!AllowAvailable
<1> QED
  BY <1>2, <1>3, SameBuckets DEF IBP!BoundedBucket

LEMMA InitBInv == Init => BInv
<1> SUFFICES ASSUME Init PROVE BInv
  OBVIOUS
<1>1. OInv
  BY InitOInv
<1> QED
  BY <1>1 DEF Init, BInv, MapInjective, FreshStore, BurstBudget

(* Steps that touch neither the per-IP buckets, the map, the held buckets *)
(* nor the clock, and send no goroutine to LoadOrStore.                   *)
LEMMA FrameBInv ==
  ASSUME BInv, OInv',
         UNCHANGED <<now, buckets, ipBuckets, held, admitted>>,
         \A q \in Procs : pc'[q] = "store" => pc[q] = "store"
  PROVE  BInv'
BY DEF BInv, MapInjective, FreshStore, BurstBudget, Available

(* The clock ticks: the admission counts start again, and any refill      *)
(* offers at most the capacity.                                           *)
LEMMA TickBInv ==
  ASSUME BInv, OInv', Tick
  PROVE  BInv'
<1>1. /\ now' \in Nat
      /\ admitted' = [i \in IPs |-> 0]
      /\ UNCHANGED <<buckets, ipBuckets, pc, held>>
  BY DEF Tick, limiterVars, procVars, BInv, OInv, THeap, TypeOK
<1>2. ASSUME NEW i \in IPs, ipBuckets'[i] # NoBucket
      PROVE  Available(ipBuckets[i])' \in 0..PerIPCapacity
  <2>1. buckets[ipBuckets[i]] \in IB!Bucket
    BY <1>2, <1>1 DEF BInv, OInv, THeap, TypeOK
  <2> QED
    BY <1>1, <2>1, IBAvail DEF Available
<1> QED
  BY <1>1, <1>2 DEF BInv, MapInjective, FreshStore, BurstBudget
(* Load: a hit takes the map's bucket, which no bucket being stored is;   *)
(* a miss builds its bucket in a free slot, one the map and every other   *)
(* goroutine leave alone.                                                 *)
LEMMA LoadBInv ==
  ASSUME BInv, OInv', NEW p \in Procs, LoadIPBucket(p)
  PROVE  BInv'
<1> DEFINE b == ipBuckets[clientIP[p]]
           nb == CHOOSE x \in FreeIds : \A y \in FreeIds : x <= y
<1>1. /\ pc[p] = "load"
      /\ UNCHANGED <<now, ipBuckets, clientIP, admitted>>
  BY DEF LoadIPBucket, histVars
<1>2. THeap
  BY DEF BInv, OInv
<1>3. CASE b # NoBucket
  <2>1. held' = [held EXCEPT ![p] = b] /\ pc' = [pc EXCEPT ![p] = "ipAllow"]
        /\ UNCHANGED buckets
    BY <1>3 DEF LoadIPBucket
  <2>2. FreshStore'
    BY <1>1, <1>2, <2>1 DEF BInv, FreshStore, THeap, TypeOK
  <2> QED
    BY <1>1, <2>1, <2>2 DEF BInv, MapInjective, BurstBudget, Available
<1>4. CASE b = NoBucket
  <2>1. /\ buckets' = [buckets EXCEPT ![nb] = IB!NewTokenBucket(now)]
        /\ held' = [held EXCEPT ![p] = nb]
        /\ pc' = [pc EXCEPT ![p] = "store"]
    BY <1>4 DEF LoadIPBucket
  <2>2. nb \in FreeIds
    <3>1. FreeIds # {} /\ FreeIds \subseteq Nat
      BY <1>1, <1>2, FreeNonEmpty DEF FreeIds, BucketIds
    <3> QED
      BY <3>1, LeastFree
  <2>3. FreshStore'
    BY <1>1, <1>2, <2>1, <2>2 DEF BInv, FreshStore, FreeIds, THeap, TypeOK
  <2>4. \A i \in IPs : ipBuckets[i] # NoBucket =>
                         buckets'[ipBuckets[i]] = buckets[ipBuckets[i]]
    BY <1>2, <2>1, <2>2 DEF FreeIds, THeap, TypeOK
  <2> QED
    BY <1>1, <2>3, <2>4 DEF BInv, MapInjective, BurstBudget, Available
<1> QED
  BY <1>3, <1>4

(* LoadOrStore: finding the key set, the goroutine takes the map's bucket *)
(* and drops its own; finding it empty, it publishes its fresh bucket,    *)
(* which no IP had, for an IP that nothing was admitted for.              *)
LEMMA StoreBInv ==
  ASSUME BInv, OInv', NEW p \in Procs, StoreIPBucket(p)
  PROVE  BInv'
<1> DEFINE i == clientIP[p]
<1>1. /\ pc[p] = "store" /\ pc' = [pc EXCEPT ![p] = "ipAllow"]
      /\ UNCHANGED <<now, buckets, clientIP, admitted>>
  BY DEF StoreIPBucket, histVars
<1>2. /\ THeap
      /\ held[p] \in BucketIds /\ i \in IPs /\ now \in Nat
      /\ buckets \in [BucketIds -> IB!Bucket]
  BY <1>1 DEF BInv, OInv, THeap, TypeOK, HeldPcs
<1>3. CASE ipBuckets[i] # NoBucket
  <2>1. held' = [held EXCEPT ![p] = ipBuckets[i]] /\ UNCHANGED ipBuckets
    BY <1>3 DEF StoreIPBucket
  <2>2. FreshStore'
    BY <1>1, <1>2, <2>1 DEF BInv, FreshStore, THeap, TypeOK
  <2> QED
    BY <1>1, <2>1, <2>2 DEF BInv, MapInjective, BurstBudget, Available
<1>4. CASE ipBuckets[i] = NoBucket
  <2>1. ipBuckets' = [ipBuckets EXCEPT ![i] = held[p]] /\ UNCHANGED held
    BY <1>4 DEF StoreIPBucket
  <2>2. \A j \in IPs : ipBuckets[j] # held[p]
    BY <1>1 DEF BInv, FreshStore
  <2>3. MapInjective'
    BY <1>2, <2>1, <2>2 DEF BInv, MapInjective, THeap, TypeOK, NoBucket,
                            BucketIds
  <2>4. FreshStore'
    BY <1>1, <1>2, <2>1 DEF BInv, FreshStore, THeap, TypeOK
  <2>5. /\ IB!refill(buckets[held[p]], now).tokens \in 0..PerIPCapacity
        /\ admitted[i] = 0
    BY <1>2, <1>4, IBAvail DEF BInv, BurstBudget
  <2>6. BurstBudget'
    BY <1>1, <1>2, <2>1, <2>5 DEF BInv, BurstBudget, Available, THeap, TypeOK
  <2> QED
    BY <2>3, <2>4, <2>6 DEF BInv
<1> QED
  BY <1>3, <1>4

(* The per-IP Allow draws on the map's bucket for its IP alone: admitted  *)
(* rises by one exactly when a token, not to be refilled this tick, is     *)
(* taken.                                                                  *)
LEMMA IPAllowBInv ==
  ASSUME BInv, OInv', NEW p \in Procs, IPAllow(p)
  PROVE  BInv'
<1> DEFINE b == held[p]
           i == clientIP[p]
           ok == IB!Allowed(buckets[b], now)
<1>1. /\ pc[p] = "ipAllow"
      /\ buckets' = [buckets EXCEPT ![b] = IB!Allow(buckets[b], now)]
      /\ held' = [held EXCEPT ![p] = NoBucket]
      /\ pc' = [pc EXCEPT ![p] = IF ok THEN "idle" ELSE "return"]
      /\ admitted' = [admitted EXCEPT ![i] = IF ok THEN @ + 1 ELSE @]
      /\ UNCHANGED <<now, ipBuckets, clientIP>>
  BY DEF IPAllow
<1>2. /\ b \in BucketIds /\ b = ipBuckets[i] /\ i \in IPs
      /\ buckets[b] \in IB!Bucket /\ now \in Nat
      /\ NoBucket \notin BucketIds
      /\ buckets \in [BucketIds -> IB!Bucket]
      /\ admitted \in [IPs -> Nat]
  BY <1>1 DEF BInv, OInv, THeap, TypeOK, HeldPcs, OneBucketPerIP, NoBucket,
              BucketIds
<1>3. FreshStore'
  <2>1. \A q \in Procs : pc[q] = "store" => held[q] \in BucketIds
    BY DEF BInv, OInv, THeap, HeldPcs
  <2> QED
    BY <1>1, <1>2, <2>1 DEF BInv, FreshStore
<1>4. ASSUME NEW j \in IPs
      PROVE  IF ipBuckets'[j] = NoBucket
             THEN admitted'[j] = 0
             ELSE admitted'[j] + IB!refill(buckets'[ipBuckets'[j]], now').tokens
                    <= PerIPCapacity
  <2>1. CASE j = i
    <3>1. IB!refill(buckets'[b], now).tokens
            = IB!refill(buckets[b], now).tokens - (IF ok THEN 1 ELSE 0)
      BY <1>1, <1>2, IBAvail
    <3>2. admitted[i] + IB!refill(buckets[b], now).tokens <= PerIPCapacity
      BY <1>2 DEF BInv, BurstBudget, Available
    <3>3. admitted'[i] = admitted[i] + (IF ok THEN 1 ELSE 0)
      BY <1>1, <1>2
    <3>4. IB!refill(buckets[b], now).tokens \in Int
      BY <1>2, IBAvail
    <3> QED
      BY <1>1, <1>2, <2>1, <3>1, <3>2, <3>3, <3>4
  <2>2. CASE j # i
    <3>1. admitted'[j] = admitted[j]
      BY <1>1, <1>2, <2>2
    <3>2. ipBuckets[j] # NoBucket => ipBuckets[j] # b
      BY <1>2, <2>2 DEF BInv, MapInjective
    <3>3. ipBuckets[j] # NoBucket => buckets'[ipBuckets[j]] = buckets[ipBuckets[j]]
      BY <1>1, <3>2
    <3> QED
      BY <1>1, <3>1, <3>3 DEF BInv, BurstBudget, Available
  <2> QED
    BY <2>1, <2>2
<1> QED
  BY <1>1, <1>3, <1>4 DEF BInv, MapInjective, BurstBudget, Available
LEMMA NextBInv ==
  ASSUME MaxTime < IdleTicks
  PROVE  BInv /\ [Next]_vars => BInv'
<1> SUFFICES ASSUME BInv, [Next]_vars PROVE BInv'
  OBVIOUS
<1>1. OInv'
  BY NextOInv DEF BInv
<1>2. CASE \E p \in Procs : CallAllow(p) \/ WaitTick(p)
  <2>1. PICK p \in Procs : CallAllow(p) \/ WaitTick(p)
    BY <1>2
  <2>2. pc' = [pc EXCEPT ![p] = IF GB!Allowed(globalBucket, now) THEN "load"
                                                          ELSE AfterDenial(p)]
    BY <2>1 DEF CallAllow, WaitTick, GlobalAllow
  <2>3. \A q \in Procs : pc'[q] = "store" => pc[q] = "store"
    BY <2>2 DEF AfterDenial, BInv, OInv, THeap, TypeOK
  <2> QED
    BY <1>1, <2>1, <2>3, FrameBInv DEF CallAllow, WaitTick
<1>3. CASE \E p \in Procs : CallWait(p) \/ WaitCancel(p) \/ ReturnGlobalToken(p)
  <2>1. PICK p \in Procs : CallWait(p) \/ WaitCancel(p) \/ ReturnGlobalToken(p)
    BY <1>3
  <2>2. \A q \in Procs : pc'[q] = "store" => pc[q] = "store"
    BY <2>1 DEF CallWait, WaitCancel, ReturnGlobalToken, AfterDenial, BInv,
                OInv, THeap, TypeOK
  <2> QED
    BY <1>1, <2>1, <2>2, FrameBInv DEF CallWait, WaitCancel,
                                       ReturnGlobalToken, limiterVars, histVars
<1>4. CASE \E p \in Procs : LoadIPBucket(p)
  BY <1>1, <1>4, LoadBInv
<1>5. CASE \E p \in Procs : StoreIPBucket(p)
  BY <1>1, <1>5, StoreBInv
<1>6. CASE \E p \in Procs : IPAllow(p)
  BY <1>1, <1>6, IPAllowBInv
<1>7. CASE Tick
  BY <1>1, <1>7, TickBInv
<1>8. CASE SweepStart \/ SweepCheck \/ SweepEnd \/ UNCHANGED vars
  BY <1>1, <1>8, FrameBInv DEF SweepStart, SweepCheck, SweepEnd, vars,
                               limiterVars, procVars, histVars
<1>9. CASE SweepDelete
  BY <1>9 DEF SweepDelete, BInv, OInv
<1> QED
  BY <1>2, <1>3, <1>4, <1>5, <1>6, <1>7, <1>8, <1>9 DEF Next

-----------------------------------------------------------------------------
(* Spec: "P+1 rapid requests from one identifier admit exactly P".  Within *)
(* one clock tick, TwoTierRateLimiter.Allow admits no IP more than         *)
(* PerIPCapacity times, whatever the interleaving of first requests racing *)
(* through Load / LoadOrStore, Wait callers and global give-backs, for     *)
(* every number of goroutines, IPs and heap slots, as long as the cleanup  *)
(* finds no bucket idle (the noeviction run's MaxTime < IdleTicks; with     *)
(* eviction the bound fails, run ratelimit_eviction_burst).                *)
THEOREM BurstBoundHolds ==
  ASSUME MaxTime < IdleTicks
  PROVE  Spec => []BurstBound
<1>1. Init => BInv
  BY InitBInv
<1>2. BInv /\ [Next]_vars => BInv'
  BY NextBInv
<1>3. BInv => BurstBound
  <2> SUFFICES ASSUME BInv, NEW i \in IPs PROVE admitted[i] <= PerIPCapacity
    BY DEF BurstBound
  <2>1. admitted[i] \in Nat /\ now \in Nat
    BY DEF BInv, OInv, THeap, TypeOK
  <2>2. CASE ipBuckets[i] = NoBucket
    BY <2>2, ConstantsAssumption DEF BInv, BurstBudget
  <2>3. CASE ipBuckets[i] # NoBucket
    <3>1. buckets[ipBuckets[i]] \in IB!Bucket
      BY <2>3 DEF BInv, OInv, THeap, TypeOK
    <3>2. Available(ipBuckets[i]) \in 0..PerIPCapacity
      BY <2>1, <3>1, IBAvail DEF Available
    <3>3. admitted[i] + Available(ipBuckets[i]) <= PerIPCapacity
      BY <2>3 DEF BInv, BurstBudget
    <3> QED
      BY <2>1, <3>2, <3>3, ConstantsAssumption
  <2> QED
    BY <2>2, <2>3
<1> QED
  BY <1>1, <1>2, <1>3, PTL DEF Spec
=============================================================================
