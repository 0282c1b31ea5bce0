----------------------- MODULE RateLimiterHeap_proofs -----------------------
(***************************************************************************)
(* Proofs about the per-IP bucket map of TwoTierRateLimiter: the type of  *)
(* every variable, for every number of goroutines and IPs and every heap  *)
(* size the constants allow, and the single-winner property of            *)
(* getOrCreateIPBucket's Load / LoadOrStore.                               *)
(*                                                                         *)
(* The type rests on a counting argument: a goroutine in Load holds no    *)
(* bucket, so at most |IPs| + |Procs| - 1 heap slots are referred to and, *)
(* with MaxBuckets >= |IPs| + |Procs|, a free slot exists for the new      *)
(* bucket it builds on a miss.                                             *)
(***************************************************************************)
EXTENDS RateLimiter_proofs

\* Where a goroutine holds a per-IP bucket: after Load, until IPAllow.
HeldPcs == {"store", "ipAllow"}

(* The inductive invariant for the type: a goroutine holds a bucket of the *)
(* heap exactly between Load and the per-IP Allow.                         *)
THeap ==
  /\ TypeOK
  /\ \A p \in Procs : (pc[p] \in HeldPcs) <=> (held[p] \in BucketIds)

-----------------------------------------------------------------------------
(* Counting the referred slots: the map's values and the buckets the other *)
(* goroutines hold cannot fill the heap.                                   *)
LEMMA FreeNonEmpty ==
  ASSUME THeap, NEW p \in Procs, pc[p] = "load"
  PROVE  FreeIds # {}
<1> DEFINE A == {ipBuckets[i] : i \in IPs}
           Others == Procs \ {p}
           H == {held[q] : q \in Others}
<1>1. held[p] = NoBucket
  BY DEF THeap, TypeOK, HeldPcs, BucketIds, NoBucket
<1>2. IsFiniteSet(A) /\ Cardinality(A) <= Cardinality(IPs)
  <2>1. ipBuckets \in Surjection(IPs, A)
    BY DEF THeap, TypeOK, Surjection
  <2> QED
    BY <2>1, ConstantsAssumption, FS_Surjection
<1>3. IsFiniteSet(Others) /\ Cardinality(Others) = Cardinality(Procs) - 1
  BY ConstantsAssumption, FS_RemoveElement
<1>4. IsFiniteSet(H) /\ Cardinality(H) <= Cardinality(Others)
  <2>1. [q \in Others |-> held[q]] \in Surjection(Others, H)
    BY DEF Surjection
  <2> QED
    BY <2>1, <1>3, FS_Surjection
<1>5. IsFiniteSet(A \cup H)
      /\ Cardinality(A \cup H) <= Cardinality(A) + Cardinality(H)
  <2>1. IsFiniteSet(A \cap H) /\ Cardinality(A \cap H) \in Nat
    BY <1>2, FS_Intersection, FS_CardinalityType
  <2>2. Cardinality(A) \in Nat /\ Cardinality(H) \in Nat
    BY <1>2, <1>4, FS_CardinalityType
  <2>3. Cardinality(A \cup H) =
          Cardinality(A) + Cardinality(H) - Cardinality(A \cap H)
    BY <1>2, <1>4, FS_Union
  <2>4. IsFiniteSet(A \cup H)
    BY <1>2, <1>4, FS_Union
  <2> QED
    BY <2>1, <2>2, <2>3, <2>4
<1>6. SUFFICES ASSUME FreeIds = {} PROVE FALSE
  OBVIOUS
<1>7. BucketIds \subseteq A \cup H
  BY <1>1, <1>6 DEF FreeIds, BucketIds, NoBucket
<1>8. Cardinality(BucketIds) = MaxBuckets
  BY ConstantsAssumption, FS_Interval DEF BucketIds
<1>9. MaxBuckets <= Cardinality(A \cup H)
  BY <1>5, <1>7, <1>8, FS_Subset
<1>10. /\ Cardinality(IPs) \in Nat /\ Cardinality(Procs) \in Nat
       /\ Cardinality(A) \in Nat /\ Cardinality(H) \in Nat
       /\ Cardinality(A \cup H) \in Nat
  BY <1>2, <1>4, <1>5, ConstantsAssumption, FS_CardinalityType
<1> QED
  BY <1>2, <1>3, <1>4, <1>5, <1>9, <1>10, ConstantsAssumption

(* The slot LoadIPBucket picks, the least free one, exists: a non-empty    *)
(* set of naturals has a least element.                                     *)
LEMMA LeastFree ==
  ASSUME NEW S \in SUBSET Nat, S # {}
  PROVE  (CHOOSE x \in S : \A y \in S : x <= y) \in S
<1> DEFINE R == OpToRel(<, Nat)
<1>1. PICK x \in S : \A y \in S : ~(<<y, x>> \in R)
  BY NatLessThanWellFounded, WFMin
<1>2. ASSUME NEW y \in S PROVE x <= y
  <2>1. y \in Nat /\ x \in Nat
    OBVIOUS
  <2>2. y < x => <<y, x>> \in R
    BY <2>1 DEF OpToRel
  <2>3. ~(<<y, x>> \in R)
    BY <1>1
  <2>4. ~(y < x)
    BY <2>2, <2>3, Zenon
  <2> QED
    BY <2>1, <2>4
<1>3. \E y \in S : \A z \in S : y <= z
  BY <1>2
<1> QED
  BY <1>3, Zenon
-----------------------------------------------------------------------------
\* The limiter's buckets and the lemmas' instances have the same type.
LEMMA BucketTyped ==
  ASSUME NEW t \in Nat
  PROVE  /\ \A b \in GB!Bucket : /\ GB!Allow(b, t) \in GB!Bucket
                                 /\ GB!refill(b, t).tokens \in Int
         /\ \A b \in IB!Bucket : IB!Allow(b, t) \in IB!Bucket
         /\ GB!NewTokenBucket(t) \in GB!Bucket
         /\ IB!NewTokenBucket(t) \in IB!Bucket
<1>1. GB!Bucket = GBP!Bucket /\ IB!Bucket = IBP!Bucket
  BY DEF GB!Bucket, GBP!Bucket, IB!Bucket, IBP!Bucket
<1>2. /\ \A b \in GBP!Bucket : /\ GBP!Allow(b, t) \in GBP!Bucket
                               /\ GBP!refill(b, t) \in GBP!Bucket
      /\ \A b \in IBP!Bucket : IBP!Allow(b, t) \in IBP!Bucket
  BY BucketConstants, GBP!AllowTyped, IBP!AllowTyped
<1>3. \A b \in GBP!Bucket : GBP!refill(b, t).tokens \in Int
  BY <1>2 DEF GBP!Bucket
<1>4. GB!NewTokenBucket(t) \in GB!Bucket /\ IB!NewTokenBucket(t) \in IB!Bucket
  BY BucketConstants DEF GB!NewTokenBucket, GB!Bucket, IB!NewTokenBucket,
                         IB!Bucket
<1> QED
  BY <1>1, <1>2, <1>3, <1>4, SameBuckets

(* One goroutine moves and its held bucket changes with it; the others    *)
(* keep both.                                                              *)
LEMMA MoveHeld ==
  ASSUME THeap, NEW p \in Procs, NEW v, NEW h,
         pc' = [pc EXCEPT ![p] = v], held' = [held EXCEPT ![p] = h],
         (v \in HeldPcs) <=> (h \in BucketIds)
  PROVE  \A q \in Procs : (pc'[q] \in HeldPcs) <=> (held'[q] \in BucketIds)
BY DEF THeap, TypeOK

LEMMA InitTHeap == Init => THeap
<1> SUFFICES ASSUME Init PROVE THeap
  OBVIOUS
<1>1. GB!NewTokenBucket(0) \in GB!Bucket /\ IB!NewTokenBucket(0) \in IB!Bucket
  BY BucketTyped
<1>2. NoBucket \notin BucketIds
  BY DEF NoBucket, BucketIds
<1> QED
  BY <1>1, <1>2, ConstantsAssumption
     DEF Init, THeap, TypeOK, HeldPcs
(* The first step of Allow, from Allow or from Wait's ticker: the global  *)
(* bucket is refilled and maybe drawn from; the goroutine holds no per-IP *)
(* bucket before or after.                                                 *)
LEMMA GlobalAllowTHeap ==
  ASSUME THeap, NEW p \in Procs, pc[p] \in {"idle", "sleep"},
         GlobalAllow(p), clientIP' \in [Procs -> IPs],
         UNCHANGED <<now, buckets, ipBuckets, held, sweepVars, admitted,
                     gDropped>>
  PROVE  THeap'
<1>1. globalBucket' \in GB!Bucket /\ gBudget' \in Int
  BY BucketTyped DEF THeap, TypeOK, GlobalAllow
<1>2. pc' = [pc EXCEPT ![p] = IF GB!Allowed(globalBucket, now) THEN "load"
                                                           ELSE AfterDenial(p)]
  BY DEF GlobalAllow
<1>3. \A q \in Procs : (pc'[q] \in HeldPcs) <=> (held'[q] \in BucketIds)
  BY <1>2, MoveHeld DEF THeap, HeldPcs, AfterDenial
<1> QED
  BY <1>1, <1>2, <1>3 DEF THeap, TypeOK, AfterDenial, sweepVars

(* getOrCreateIPBucket's Load: a hit takes the map's bucket, a miss puts  *)
(* a new bucket in the least free slot, which exists by FreeNonEmpty.      *)
LEMMA LoadTHeap ==
  ASSUME THeap, NEW p \in Procs, LoadIPBucket(p)
  PROVE  THeap'
<1> DEFINE b == ipBuckets[clientIP[p]]
           nb == CHOOSE x \in FreeIds : \A y \in FreeIds : x <= y
<1>1. pc[p] = "load"
  BY DEF LoadIPBucket
<1>2. UNCHANGED <<now, globalBucket, ipBuckets, clientIP, sweepVars, histVars>>
  BY DEF LoadIPBucket
<1>3. CASE b # NoBucket
  <2>1. held' = [held EXCEPT ![p] = b] /\ pc' = [pc EXCEPT ![p] = "ipAllow"]
        /\ UNCHANGED buckets
    BY <1>3 DEF LoadIPBucket
  <2>2. b \in BucketIds
    BY <1>3 DEF THeap, TypeOK
  <2> QED
    BY <1>2, <2>1, <2>2, MoveHeld DEF THeap, TypeOK, HeldPcs, sweepVars,
                                      histVars
<1>4. CASE b = NoBucket
  <2>1. /\ buckets' = [buckets EXCEPT ![nb] = IB!NewTokenBucket(now)]
        /\ held' = [held EXCEPT ![p] = nb]
        /\ pc' = [pc EXCEPT ![p] = "store"]
    BY <1>4 DEF LoadIPBucket
  <2>2. nb \in BucketIds
    <3>1. FreeIds # {} /\ FreeIds \subseteq Nat
      BY <1>1, FreeNonEmpty DEF FreeIds, BucketIds
    <3>2. nb \in FreeIds
      BY <3>1, LeastFree
    <3> QED
      BY <3>2 DEF FreeIds
  <2>3. IB!NewTokenBucket(now) \in IB!Bucket
    BY BucketTyped DEF THeap, TypeOK
  <2> QED
    BY <1>2, <2>1, <2>2, <2>3, MoveHeld DEF THeap, TypeOK, HeldPcs,
       sweepVars, histVars
<1> QED
  BY <1>3, <1>4

(* LoadOrStore: the goroutine ends up holding the map's bucket or stores  *)
(* its own, a bucket of the heap either way.                               *)
LEMMA StoreTHeap ==
  ASSUME THeap, NEW p \in Procs, StoreIPBucket(p)
  PROVE  THeap'
<1> DEFINE i == clientIP[p]
<1>1. pc[p] = "store" /\ pc' = [pc EXCEPT ![p] = "ipAllow"]
      /\ UNCHANGED <<now, globalBucket, buckets, clientIP, sweepVars, histVars>>
  BY DEF StoreIPBucket
<1>2. held[p] \in BucketIds /\ i \in IPs
  BY <1>1 DEF THeap, TypeOK, HeldPcs
<1>3. CASE ipBuckets[i] # NoBucket
  <2>1. held' = [held EXCEPT ![p] = ipBuckets[i]] /\ UNCHANGED ipBuckets
    BY <1>3 DEF StoreIPBucket
  <2>2. ipBuckets[i] \in BucketIds
    BY <1>2, <1>3 DEF THeap, TypeOK
  <2> QED
    BY <1>1, <2>1, <2>2, MoveHeld DEF THeap, TypeOK, HeldPcs, sweepVars,
                                      histVars
<1>4. CASE ipBuckets[i] = NoBucket
  <2>1. ipBuckets' = [ipBuckets EXCEPT ![i] = held[p]] /\ UNCHANGED held
    BY <1>4 DEF StoreIPBucket
  <2>2. held' = [held EXCEPT ![p] = held[p]]
    BY <2>1 DEF THeap, TypeOK
  <2> QED
    BY <1>1, <1>2, <2>1, <2>2, MoveHeld DEF THeap, TypeOK, HeldPcs,
       sweepVars, histVars
<1> QED
  BY <1>3, <1>4

(* The per-IP Allow: the held bucket is refilled and maybe drawn from,    *)
(* and let go.                                                             *)
LEMMA IPAllowTHeap ==
  ASSUME THeap, NEW p \in Procs, IPAllow(p)
  PROVE  THeap'
<1> DEFINE b == held[p]
           ok == IB!Allowed(buckets[b], now)
<1>1. /\ pc[p] = "ipAllow"
      /\ buckets' = [buckets EXCEPT ![b] = IB!Allow(buckets[b], now)]
      /\ held' = [held EXCEPT ![p] = NoBucket]
      /\ pc' = [pc EXCEPT ![p] = IF ok THEN "idle" ELSE "return"]
      /\ admitted' = [admitted EXCEPT ![clientIP[p]] = IF ok THEN @ + 1 ELSE @]
      /\ gBudget' = IF ok THEN gBudget - 1 ELSE gBudget
      /\ UNCHANGED <<now, globalBucket, ipBuckets, clientIP, sweepVars,
                     gDropped>>
  BY DEF IPAllow
<1>2. b \in BucketIds
  BY <1>1 DEF THeap, HeldPcs
<1>3. IB!Allow(buckets[b], now) \in IB!Bucket
  BY <1>2, BucketTyped DEF THeap, TypeOK
<1>4. \A q \in Procs : (pc'[q] \in HeldPcs) <=> (held'[q] \in BucketIds)
  <2>1. /\ (IF ok THEN "idle" ELSE "return") \notin HeldPcs
        /\ NoBucket \notin BucketIds
    BY DEF HeldPcs, NoBucket, BucketIds
  <2> QED
    BY <1>1, <2>1, MoveHeld
<1> QED
  BY <1>1, <1>2, <1>3, <1>4 DEF THeap, TypeOK, sweepVars

(* The give-back adds a token only below capacity.                         *)
LEMMA ReturnTHeap ==
  ASSUME THeap, NEW p \in Procs, ReturnGlobalToken(p)
  PROVE  THeap'
<1>1. /\ pc[p] = "return" /\ pc' = [pc EXCEPT ![p] = AfterDenial(p)]
      /\ globalBucket' = returnGlobalToken(globalBucket)
      /\ gDropped' \in {gDropped, gDropped + 1}
      /\ UNCHANGED <<now, buckets, ipBuckets, clientIP, held, sweepVars,
                     admitted, gBudget>>
  BY DEF ReturnGlobalToken
<1>2. globalBucket' \in GB!Bucket
  BY <1>1, BucketConstants DEF THeap, TypeOK, returnGlobalToken, GB!Bucket
<1>3. held' = [held EXCEPT ![p] = held[p]]
  BY <1>1 DEF THeap, TypeOK
<1>4. \A q \in Procs : (pc'[q] \in HeldPcs) <=> (held'[q] \in BucketIds)
  BY <1>1, <1>3, MoveHeld DEF THeap, HeldPcs, AfterDenial
<1> QED
  BY <1>1, <1>2, <1>4 DEF THeap, TypeOK, AfterDenial, sweepVars
(* Wait's start and cancellation, the clock and the sweep: no bucket is    *)
(* taken or drawn from; the sweep deletes keys, writing NoBucket.          *)
LEMMA QuietTHeap ==
  ASSUME THeap,
         \/ \E p \in Procs : CallWait(p) \/ WaitCancel(p)
         \/ Tick \/ SweepStart \/ SweepCheck \/ SweepDelete \/ SweepEnd
         \/ UNCHANGED vars
  PROVE  THeap'
<1>1. CASE \E p \in Procs : CallWait(p) \/ WaitCancel(p)
  <2>1. PICK p \in Procs : CallWait(p) \/ WaitCancel(p)
    BY <1>1
  <2>2. /\ \/ pc[p] = "idle" /\ pc' = [pc EXCEPT ![p] = "sleep"]
           \/ pc[p] = "sleep" /\ pc' = [pc EXCEPT ![p] = "idle"]
        /\ clientIP' \in [Procs -> IPs]
        /\ UNCHANGED <<now, limiterVars, held, sweepVars, histVars>>
    BY <2>1 DEF CallWait, WaitCancel, THeap, TypeOK
  <2>3. held' = [held EXCEPT ![p] = held[p]]
    BY <2>2 DEF THeap, TypeOK
  <2>4. \A q \in Procs : (pc'[q] \in HeldPcs) <=> (held'[q] \in BucketIds)
    <3>1. held[p] \notin BucketIds
      BY <2>2 DEF THeap, HeldPcs
    <3>2. CASE pc' = [pc EXCEPT ![p] = "sleep"]
      BY <2>3, <3>1, <3>2, MoveHeld DEF HeldPcs
    <3>3. CASE pc' = [pc EXCEPT ![p] = "idle"]
      BY <2>3, <3>1, <3>3, MoveHeld DEF HeldPcs
    <3> QED
      BY <2>2, <3>2, <3>3
  <2> QED
    BY <2>2, <2>4 DEF THeap, TypeOK, limiterVars, sweepVars, histVars
<1>2. CASE Tick
  BY <1>2, ConstantsAssumption
     DEF Tick, THeap, TypeOK, limiterVars, procVars, sweepVars
<1>3. CASE SweepStart \/ SweepEnd
  BY <1>3, ConstantsAssumption DEF SweepStart, SweepEnd, THeap, TypeOK, limiterVars, procVars,
              histVars
<1>4. CASE SweepCheck
  BY <1>4 DEF SweepCheck, THeap, TypeOK, limiterVars, procVars, histVars
<1>5. CASE SweepDelete
  BY <1>5 DEF SweepDelete, THeap, TypeOK, procVars, histVars
<1>6. CASE UNCHANGED vars
  BY <1>6 DEF vars, THeap, TypeOK, limiterVars, procVars, sweepVars,
              histVars
<1> QED
  BY <1>1, <1>2, <1>3, <1>4, <1>5, <1>6

LEMMA NextTHeap == THeap /\ [Next]_vars => THeap'
<1> SUFFICES ASSUME THeap, [Next]_vars PROVE THeap'
  OBVIOUS
<1>1. CASE \E p \in Procs : CallAllow(p) \/ WaitTick(p)
  <2>1. PICK p \in Procs : CallAllow(p) \/ WaitTick(p)
    BY <1>1
  <2>2. /\ pc[p] \in {"idle", "sleep"} /\ GlobalAllow(p)
        /\ clientIP' \in [Procs -> IPs]
        /\ UNCHANGED <<now, buckets, ipBuckets, held, sweepVars, admitted,
                       gDropped>>
    BY <2>1 DEF CallAllow, WaitTick, THeap, TypeOK
  <2> QED
    BY <2>2, GlobalAllowTHeap
<1>2. CASE \E p \in Procs : LoadIPBucket(p)
  BY <1>2, LoadTHeap
<1>3. CASE \E p \in Procs : StoreIPBucket(p)
  BY <1>3, StoreTHeap
<1>4. CASE \E p \in Procs : IPAllow(p)
  BY <1>4, IPAllowTHeap
<1>5. CASE \E p \in Procs : ReturnGlobalToken(p)
  BY <1>5, ReturnTHeap
<1> QED
  BY <1>1, <1>2, <1>3, <1>4, <1>5, QuietTHeap DEF Next

-----------------------------------------------------------------------------
(* Every variable of the limiter keeps its type, for every number of       *)
(* goroutines and IPs: in particular a goroutine that misses in Load       *)
(* always finds a free heap slot for NewTokenBucket, and the map holds     *)
(* only buckets of the heap.                                               *)
THEOREM TypeOKHolds == Spec => []TypeOK
<1>1. Spec => []THeap
  BY InitTHeap, NextTHeap, PTL DEF Spec
<1> QED
  BY <1>1, PTL DEF THeap
-----------------------------------------------------------------------------
(* The single winner of getOrCreateIPBucket.  The sweep never evicts when  *)
(* no bucket can stay idle past the threshold (IdleTicks beyond the last   *)
(* clock tick): every lastRefill is a clock reading, no earlier than 0,   *)
(* and the cutoff is negative.  Then a goroutine asking a per-IP bucket    *)
(* asks the one the map holds: a LoadOrStore that finds the key set takes *)
(* the stored bucket, and one that finds it empty cannot leave a goroutine *)
(* at its per-IP Allow with another bucket, because such a goroutine holds *)
(* a bucket of the heap, which the map then holds for that IP.             *)
OInv ==
  /\ THeap
  /\ sweepPc # "delete"
  /\ sweepPc = "scan" => cutoff < 0
  /\ OneBucketPerIP

LEMMA InitOInv == Init => OInv
BY InitTHeap DEF Init, OInv, OneBucketPerIP

\* No step of the sweep starts a deletion.
LEMMA SweepOInv ==
  ASSUME MaxTime < IdleTicks, OInv, [Next]_vars
  PROVE  /\ sweepPc' # "delete"
         /\ sweepPc' = "scan" => cutoff' < 0
<1>1. CASE SweepStart
  BY <1>1, ConstantsAssumption DEF SweepStart, OInv, THeap, TypeOK
<1>2. CASE SweepCheck
  <2>1. PICK i \in toVisit : /\ toVisit' = toVisit \ {i}
                             /\ IF /\ ipBuckets[i] # NoBucket
                                   /\ buckets[ipBuckets[i]].lastRefill < cutoff
                                THEN sweepPc' = "delete" /\ sweepKey' = i
                                ELSE UNCHANGED <<sweepPc, sweepKey>>
    BY <1>2 DEF SweepCheck
  <2>2. sweepPc = "scan" /\ cutoff < 0 /\ UNCHANGED cutoff
    BY <1>2 DEF SweepCheck, OInv
  <2>3. ipBuckets[i] # NoBucket => buckets[ipBuckets[i]].lastRefill \in Nat
    BY <2>1 DEF OInv, THeap, TypeOK, IB!Bucket
  <2>4. ~(/\ ipBuckets[i] # NoBucket
          /\ buckets[ipBuckets[i]].lastRefill < cutoff)
    BY <2>2, <2>3 DEF OInv, THeap, TypeOK
  <2>5. UNCHANGED <<sweepPc, sweepKey>>
    BY <2>1, <2>4
  <2> QED
    BY <2>2, <2>5
<1>3. CASE SweepDelete
  BY <1>3 DEF SweepDelete, OInv
<1>4. CASE SweepEnd
  BY <1>4 DEF SweepEnd
<1>5. CASE ~(SweepStart \/ SweepCheck \/ SweepDelete \/ SweepEnd)
  <2>1. UNCHANGED <<sweepPc, cutoff>>
    BY <1>5 DEF Next, vars, sweepVars, Tick, CallAllow, CallWait, WaitTick,
                WaitCancel, LoadIPBucket, StoreIPBucket, IPAllow,
                ReturnGlobalToken
  <2> QED
    BY <2>1 DEF OInv
<1> QED
  BY <1>1, <1>2, <1>3, <1>4, <1>5
\* A step that moves no goroutine into its per-IP Allow, and leaves the map
\* and the other goroutines alone, keeps each goroutine's bucket the map's.
LEMMA OthersStill ==
  ASSUME OInv, NEW p \in Procs,
         pc'[p] # "ipAllow",
         \A q \in Procs \ {p} : /\ pc'[q] = pc[q] /\ held'[q] = held[q]
                                /\ clientIP'[q] = clientIP[q],
         ipBuckets' = ipBuckets
  PROVE  OneBucketPerIP'
BY DEF OInv, OneBucketPerIP

\* The map's entries change only in a LoadOrStore that finds the key empty
\* (the sweep deletes none, by SweepOInv), and no goroutine is at its
\* per-IP Allow for that key then: it would hold a bucket the map lacks.
LEMMA MapOInv ==
  ASSUME OInv, [Next]_vars
  PROVE  OneBucketPerIP'
<1> USE DEF OInv, THeap, TypeOK
<1>1. CASE \E p \in Procs : CallAllow(p) \/ WaitTick(p)
  <2>1. PICK p \in Procs : CallAllow(p) \/ WaitTick(p)
    BY <1>1
  <2>2. pc' = [pc EXCEPT ![p] = IF GB!Allowed(globalBucket, now) THEN "load"
                                                          ELSE AfterDenial(p)]
    BY <2>1 DEF CallAllow, WaitTick, GlobalAllow
  <2>3. AfterDenial(p) \in {"idle", "sleep"}
    BY DEF AfterDenial
  <2>4. \A q \in Procs \ {p} : clientIP'[q] = clientIP[q]
    BY <2>1 DEF CallAllow, WaitTick
  <2> QED
    BY <2>1, <2>2, <2>3, <2>4, OthersStill DEF CallAllow, WaitTick
<1>2. CASE \E p \in Procs : CallWait(p) \/ WaitCancel(p) \/ ReturnGlobalToken(p)
  <2>1. PICK p \in Procs : CallWait(p) \/ WaitCancel(p) \/ ReturnGlobalToken(p)
    BY <1>2
  <2>2. AfterDenial(p) \in {"idle", "sleep"}
    BY DEF AfterDenial
  <2> QED
    BY <2>1, <2>2, OthersStill DEF CallWait, WaitCancel, ReturnGlobalToken,
                                   limiterVars
<1>3. CASE \E p \in Procs : IPAllow(p)
  <2>1. PICK p \in Procs : IPAllow(p)
    BY <1>3
  <2> QED
    BY <2>1, OthersStill DEF IPAllow
<1>4. CASE \E p \in Procs : LoadIPBucket(p)
  <2>1. PICK p \in Procs : LoadIPBucket(p)
    BY <1>4
  <2> QED
    BY <2>1 DEF LoadIPBucket, OneBucketPerIP
<1>5. CASE \E p \in Procs : StoreIPBucket(p)
  <2>1. PICK p \in Procs : StoreIPBucket(p)
    BY <1>5
  <2> DEFINE i == clientIP[p]
  <2>2. CASE ipBuckets[i] # NoBucket
    BY <2>1, <2>2 DEF StoreIPBucket, OneBucketPerIP
  <2>3. CASE ipBuckets[i] = NoBucket
    <3>1. ipBuckets' = [ipBuckets EXCEPT ![i] = held[p]] /\ held' = held
      BY <2>1, <2>3 DEF StoreIPBucket
    <3>2. \A q \in Procs : pc[q] = "ipAllow" => clientIP[q] # i
      BY <2>3 DEF OneBucketPerIP, HeldPcs, NoBucket, BucketIds
    <3> QED
      BY <2>1, <3>1, <3>2 DEF StoreIPBucket, OneBucketPerIP
  <2> QED
    BY <2>2, <2>3
<1>6. CASE Tick \/ SweepStart \/ SweepCheck \/ SweepEnd \/ UNCHANGED vars
  BY <1>6 DEF Tick, SweepStart, SweepCheck, SweepEnd, vars, limiterVars,
              procVars, OneBucketPerIP
<1>7. CASE SweepDelete
  BY <1>7 DEF SweepDelete
<1> QED
  BY <1>1, <1>2, <1>3, <1>4, <1>5, <1>6, <1>7 DEF Next

LEMMA NextOInv ==
  ASSUME MaxTime < IdleTicks
  PROVE  OInv /\ [Next]_vars => OInv'
BY SweepOInv, MapOInv, NextTHeap DEF OInv

(* The map's bucket for an IP is the only one that serves it: whenever a   *)
(* goroutine is at ipBucket.Allow() in Allow(clientIP), the bucket it took *)
(* from getOrCreateIPBucket is the one ipBuckets holds for clientIP, for  *)
(* every number of goroutines, IPs and heap slots, as long as the cleanup *)
(* finds no bucket idle (the noeviction run's bound MaxTime < IdleTicks).  *)
THEOREM OneBucketPerIPHolds ==
  ASSUME MaxTime < IdleTicks
  PROVE  Spec => []OneBucketPerIP
<1>1. Init => OInv
  BY InitOInv
<1>2. OInv /\ [Next]_vars => OInv'
  BY NextOInv
<1>3. OInv => OneBucketPerIP
  BY DEF OInv
<1> QED
  BY <1>1, <1>2, <1>3, PTL DEF Spec
=============================================================================
