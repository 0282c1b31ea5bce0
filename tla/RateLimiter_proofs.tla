------------------------- MODULE RateLimiter_proofs -------------------------
(***************************************************************************)
(* Proofs about TwoTierRateLimiter, for every capacity, rate, number of    *)
(* goroutines and IPs, and every interleaving of Allow, Wait and the       *)
(* eviction sweep.                                                          *)
(*                                                                         *)
(* The global tier's accounting: a goroutine between taking a global token *)
(* and finishing Allow (loading, storing, asking its IP bucket, or giving  *)
(* the token back) still owns that token.  The budget of admissions left, *)
(* gBudget, is the tokens in the bucket plus the tokens owned plus the    *)
(* give-backs that returnGlobalToken's capacity check dropped (gDropped).  *)
(***************************************************************************)
EXTENDS RateLimiter, FiniteSetTheorems, TLAPS

GBP == INSTANCE TokenBucket_proofs WITH Capacity <- GlobalCapacity,
                                        RefillRate <- GlobalRate
IBP == INSTANCE TokenBucket_proofs WITH Capacity <- PerIPCapacity,
                                        RefillRate <- PerIPRate

PcValues == {"idle", "sleep", "load", "store", "ipAllow", "return"}

(* The inductive invariant: buckets within their bounds, and the budget    *)
(* is the bucket's tokens, the tokens goroutines hold and those dropped.   *)
IInv ==
  /\ now \in Nat
  /\ globalBucket \in GBP!BoundedBucket
  /\ buckets \in [BucketIds -> IBP!BoundedBucket]
  /\ pc \in [Procs -> PcValues]
  /\ gBudget \in Int
  /\ gDropped \in Nat
  /\ GlobalTokensAccounted

LEMMA HoldersFinite == IsFiniteSet(Holders) /\ Cardinality(Holders) \in Nat
<1>1. IsFiniteSet(Holders)
  BY ConstantsAssumption, FS_Subset DEF Holders
<1> QED
  BY <1>1, FS_CardinalityType

\* The constants as the token bucket lemmas need them.
LEMMA BucketConstants ==
  /\ GlobalCapacity \in Nat /\ GlobalRate \in Nat
  /\ PerIPCapacity \in Nat /\ PerIPRate \in Nat
  /\ TicksPerSecond \in Nat \ {0}
BY ConstantsAssumption

\* The limiter's two buckets and the lemmas' instances are the same operators.
LEMMA SameBuckets ==
  ASSUME NEW b, NEW t
  PROVE  /\ GB!refill(b, t) = GBP!refill(b, t)
         /\ GB!Allow(b, t) = GBP!Allow(b, t)
         /\ GB!Allowed(b, t) = GBP!Allowed(b, t)
         /\ IB!refill(b, t) = IBP!refill(b, t)
         /\ IB!Allow(b, t) = IBP!Allow(b, t)
         /\ IB!Allowed(b, t) = IBP!Allowed(b, t)
BY DEF GB!refill, GBP!refill, GB!Allow, GBP!Allow, GB!Allowed, GBP!Allowed,
       GB!TokensToAdd, GBP!TokensToAdd, GB!min, GBP!min,
       IB!refill, IBP!refill, IB!Allow, IBP!Allow, IB!Allowed, IBP!Allowed,
       IB!TokensToAdd, IBP!TokensToAdd, IB!min, IBP!min

LEMMA InitIInv == Init => IInv
<1> SUFFICES ASSUME Init PROVE IInv
  OBVIOUS
<1>1. Holders = {}
  BY DEF Init, Holders, HoldingPcs
<1>2. Cardinality(Holders) = 0
  BY <1>1, FS_EmptySet
<1> QED
  BY <1>2, BucketConstants
     DEF Init, IInv, GlobalTokensAccounted, GB!NewTokenBucket, IB!NewTokenBucket, GBP!BoundedBucket,
         IBP!BoundedBucket, PcValues

(* The first step of Allow: the goroutine refills the global bucket and    *)
(* takes a token, which it then holds; or finds none and holds nothing.    *)
LEMMA GlobalAllowIInv ==
  ASSUME IInv, NEW p \in Procs, pc[p] \in {"idle", "sleep"},
         GlobalAllow(p), UNCHANGED <<now, buckets, gDropped>>
  PROVE  IInv'
<1> DEFINE r == GB!refill(globalBucket, now)
<1>1. /\ r \in GBP!BoundedBucket
      /\ GB!Allow(globalBucket, now) \in GBP!BoundedBucket
      /\ GB!Allow(globalBucket, now).tokens =
           IF GB!Allowed(globalBucket, now) THEN r.tokens - 1 ELSE r.tokens
  <2>1. globalBucket \in GBP!BoundedBucket /\ now \in Int
    BY DEF IInv
  <2>2. /\ GBP!refill(globalBucket, now) \in GBP!BoundedBucket
        /\ GBP!Allow(globalBucket, now) \in GBP!BoundedBucket
        /\ GBP!Allow(globalBucket, now).tokens =
             IF GBP!Allowed(globalBucket, now)
             THEN GBP!refill(globalBucket, now).tokens - 1
             ELSE GBP!refill(globalBucket, now).tokens
    BY <2>1, BucketConstants, GBP!RefillBounded, GBP!AllowBounded
  <2> QED
    BY <2>2, SameBuckets
<1>2. p \notin Holders
  BY DEF Holders, HoldingPcs
<1>3. CASE GB!Allowed(globalBucket, now)
  <2>0. pc' = [pc EXCEPT ![p] = "load"]
    BY <1>3 DEF GlobalAllow
  <2>1. Holders' = Holders \cup {p}
    BY <2>0 DEF IInv, Holders, HoldingPcs
  <2>2. Cardinality(Holders') = Cardinality(Holders) + 1
    BY <1>2, <2>1, HoldersFinite, FS_AddElement
  <2> QED
    BY <1>1, <1>3, <2>2, HoldersFinite DEF GlobalAllow, IInv, GlobalTokensAccounted, PcValues,
       GBP!BoundedBucket
<1>4. CASE ~GB!Allowed(globalBucket, now)
  <2>0. pc' = [pc EXCEPT ![p] = AfterDenial(p)]
    BY <1>4 DEF GlobalAllow
  <2>1. Holders' = Holders
    BY <2>0, <1>2 DEF IInv, Holders, HoldingPcs, AfterDenial
  <2> QED
    BY <1>1, <1>4, <2>1, HoldersFinite DEF GlobalAllow, IInv, GlobalTokensAccounted, PcValues,
       GBP!BoundedBucket, AfterDenial
<1> QED
  BY <1>3, <1>4

(* A goroutine that moves within the holding stretch, or outside it, does  *)
(* not change who holds a global token.                                    *)
LEMMA HoldersSame ==
  ASSUME IInv, NEW p \in Procs, NEW v \in PcValues,
         pc' = [pc EXCEPT ![p] = v],
         (pc[p] \in HoldingPcs) <=> (v \in HoldingPcs)
  PROVE  Holders' = Holders /\ pc' \in [Procs -> PcValues]
BY DEF IInv, Holders

(* The bucket heap stays within bounds when one slot is given a bucket     *)
(* within bounds (EXCEPT at an id outside the heap changes nothing).       *)
LEMMA HeapUpdate ==
  ASSUME IInv, NEW b, NEW nb \in IBP!BoundedBucket,
         buckets' = [buckets EXCEPT ![b] = nb]
  PROVE  buckets' \in [BucketIds -> IBP!BoundedBucket]
BY DEF IInv

(* getOrCreateIPBucket's Load: a hit takes the map's bucket; a miss puts a *)
(* full NewTokenBucket in a free slot.  The goroutine keeps its token.     *)
LEMMA LoadIInv ==
  ASSUME IInv, NEW p \in Procs, LoadIPBucket(p)
  PROVE  IInv'
<1>1. \E v \in {"ipAllow", "store"} : pc' = [pc EXCEPT ![p] = v]
  BY Zenon DEF LoadIPBucket
<1>2. pc[p] = "load"
  BY DEF LoadIPBucket
<1>3. Holders' = Holders /\ pc' \in [Procs -> PcValues]
  BY <1>1, <1>2, HoldersSame DEF PcValues, HoldingPcs
<1>4. IB!NewTokenBucket(now) \in IBP!BoundedBucket
  BY BucketConstants DEF IInv, IB!NewTokenBucket, IBP!BoundedBucket
<1>5. buckets' \in [BucketIds -> IBP!BoundedBucket]
  <2>1. CASE buckets' = buckets
    BY <2>1 DEF IInv
  <2>2. CASE buckets' # buckets
    <3>1. \E b : buckets' = [buckets EXCEPT ![b] = IB!NewTokenBucket(now)]
      BY <2>2, Zenon DEF LoadIPBucket
    <3> QED
      BY <1>4, <3>1, HeapUpdate
  <2> QED
    BY <2>1, <2>2
<1>6. UNCHANGED <<now, globalBucket, gBudget, gDropped>>
  BY DEF LoadIPBucket, histVars
<1> QED
  BY <1>3, <1>5, <1>6 DEF IInv, GlobalTokensAccounted

(* ipBucket.Allow(): admitted, the goroutine's token is spent and the      *)
(* budget drops by one; denied, the goroutine still holds it.              *)
LEMMA IPAllowIInv ==
  ASSUME IInv, NEW p \in Procs, IPAllow(p)
  PROVE  IInv'
<1> DEFINE b == held[p]
           ok == IB!Allowed(buckets[b], now)
<1>1. /\ pc[p] = "ipAllow"
      /\ buckets' = [buckets EXCEPT ![b] = IB!Allow(buckets[b], now)]
      /\ pc' = [pc EXCEPT ![p] = IF ok THEN "idle" ELSE "return"]
      /\ gBudget' = IF ok THEN gBudget - 1 ELSE gBudget
      /\ UNCHANGED <<now, globalBucket, gDropped>>
  BY DEF IPAllow
<1>2. buckets' \in [BucketIds -> IBP!BoundedBucket]
  <2>1. CASE b \in BucketIds
    <3>1. IBP!Allow(buckets[b], now) \in IBP!BoundedBucket
      BY <2>1, BucketConstants, IBP!AllowBounded DEF IInv
    <3> QED
      BY <1>1, <3>1, SameBuckets, HeapUpdate
  <2>2. CASE b \notin BucketIds
    BY <1>1, <2>2 DEF IInv
  <2> QED
    BY <2>1, <2>2
<1>3. p \in Holders
  BY <1>1 DEF Holders, HoldingPcs
<1>4. CASE ok
  <2>1. Holders' = Holders \ {p} /\ pc' \in [Procs -> PcValues]
    BY <1>1, <1>4 DEF IInv, Holders, HoldingPcs, PcValues
  <2>2. Cardinality(Holders') = Cardinality(Holders) - 1
    BY <1>3, <2>1, HoldersFinite, FS_RemoveElement
  <2>3. gBudget' = gBudget - 1 /\ UNCHANGED <<now, globalBucket, gDropped>>
    BY <1>1, <1>4
  <2>4. globalBucket.tokens \in Int /\ gBudget \in Int
    BY DEF IInv, GBP!BoundedBucket
  <2> QED
    BY <1>2, <2>1, <2>2, <2>3, <2>4, HoldersFinite
       DEF IInv, GlobalTokensAccounted
<1>5. CASE ~ok
  <2>1. Holders' = Holders /\ pc' \in [Procs -> PcValues]
    BY <1>1, <1>5, HoldersSame DEF PcValues, HoldingPcs
  <2> QED
    BY <1>1, <1>2, <1>5, <2>1 DEF IInv, GlobalTokensAccounted
<1> QED
  BY <1>4, <1>5

(* returnGlobalToken gives back the goroutine's token, or drops it when  *)
(* the bucket is full; either way the goroutine no longer holds one.      *)
LEMMA ReturnIInv ==
  ASSUME IInv, NEW p \in Procs, ReturnGlobalToken(p)
  PROVE  IInv'
<1>1. /\ pc[p] = "return"
      /\ globalBucket' = returnGlobalToken(globalBucket)
      /\ pc' = [pc EXCEPT ![p] = AfterDenial(p)]
      /\ gDropped' = IF globalBucket.tokens >= GlobalCapacity THEN gDropped + 1
                                                              ELSE gDropped
      /\ UNCHANGED <<now, buckets, gBudget>>
  BY DEF ReturnGlobalToken
<1>2. /\ globalBucket' \in GBP!BoundedBucket
      /\ globalBucket'.tokens + gDropped' = globalBucket.tokens + gDropped + 1
      /\ gDropped' \in Nat
  BY <1>1, BucketConstants DEF IInv, returnGlobalToken, GBP!BoundedBucket
<1>3. Holders' = Holders \ {p} /\ p \in Holders
      /\ pc' \in [Procs -> PcValues]
  BY <1>1 DEF IInv, Holders, HoldingPcs, PcValues, AfterDenial
<1>4. Cardinality(Holders') = Cardinality(Holders) - 1
  BY <1>3, HoldersFinite, FS_RemoveElement
<1> QED
  BY <1>1, <1>2, <1>3, <1>4, HoldersFinite
     DEF IInv, GlobalTokensAccounted, GBP!BoundedBucket

(* Steps that move no goroutine into or out of the holding stretch and     *)
(* touch neither bucket nor budget: Wait's start and cancellation, the     *)
(* LoadOrStore, the clock and the sweep.                                    *)
LEMMA QuietIInv ==
  ASSUME IInv,
         \/ \E p \in Procs : CallWait(p) \/ WaitCancel(p) \/ StoreIPBucket(p)
         \/ Tick \/ SweepStart \/ SweepCheck \/ SweepDelete \/ SweepEnd
         \/ UNCHANGED vars
  PROVE  IInv'
<1>1. UNCHANGED <<globalBucket, buckets, gBudget, gDropped>> /\ now' \in Nat
  BY DEF IInv, CallWait, WaitCancel, StoreIPBucket, Tick, SweepStart,
         SweepCheck, SweepDelete, SweepEnd, vars, limiterVars, histVars
<1>2. Holders' = Holders /\ pc' \in [Procs -> PcValues]
  <2>1. CASE \E p \in Procs : CallWait(p) \/ WaitCancel(p) \/ StoreIPBucket(p)
    <3>1. PICK p \in Procs : CallWait(p) \/ WaitCancel(p) \/ StoreIPBucket(p)
      BY <2>1
    <3>2. \/ pc[p] = "idle" /\ pc' = [pc EXCEPT ![p] = "sleep"]
          \/ pc[p] = "sleep" /\ pc' = [pc EXCEPT ![p] = "idle"]
          \/ pc[p] = "store" /\ pc' = [pc EXCEPT ![p] = "ipAllow"]
      BY <3>1 DEF CallWait, WaitCancel, StoreIPBucket
    <3> QED
      BY <3>2, HoldersSame DEF PcValues, HoldingPcs
  <2>2. CASE Tick \/ SweepStart \/ SweepCheck \/ SweepDelete \/ SweepEnd
             \/ UNCHANGED vars
    <3>1. UNCHANGED pc
      BY <2>2 DEF Tick, SweepStart, SweepCheck, SweepDelete, SweepEnd, vars,
                  procVars
    <3> QED
      BY <3>1 DEF IInv, Holders
  <2> QED
    BY <2>1, <2>2
<1> QED
  BY <1>1, <1>2 DEF IInv, GlobalTokensAccounted

LEMMA NextIInv == IInv /\ [Next]_vars => IInv'
<1> SUFFICES ASSUME IInv, [Next]_vars PROVE IInv'
  OBVIOUS
<1>1. CASE \E p \in Procs : CallAllow(p) \/ WaitTick(p)
  <2>1. PICK p \in Procs : CallAllow(p) \/ WaitTick(p)
    BY <1>1
  <2>2. pc[p] \in {"idle", "sleep"} /\ GlobalAllow(p)
        /\ UNCHANGED <<now, buckets, gDropped>>
    BY <2>1 DEF CallAllow, WaitTick
  <2> QED
    BY <2>2, GlobalAllowIInv
<1>2. CASE \E p \in Procs : LoadIPBucket(p)
  BY <1>2, LoadIInv
<1>3. CASE \E p \in Procs : IPAllow(p)
  BY <1>3, IPAllowIInv
<1>4. CASE \E p \in Procs : ReturnGlobalToken(p)
  BY <1>4, ReturnIInv
<1> QED
  BY <1>1, <1>2, <1>3, <1>4, QuietIInv DEF Next

-----------------------------------------------------------------------------
(* The accounting invariant holds in every reachable state.                *)
THEOREM Invariance == Spec => []IInv
BY InitIInv, NextIInv, PTL DEF Spec

(* Spec: a per-IP denial gives exactly one token back, capped at the     *)
(* capacity.  For every capacity, rate and number of goroutines, every    *)
(* global token is in the bucket, held by a goroutine inside Allow, spent  *)
(* on an admission or dropped by a give-back into a full bucket            *)
(* (Allow, returnGlobalToken).                                             *)
THEOREM GlobalTokensAccountedHolds == Spec => []GlobalTokensAccounted
<1>1. IInv => GlobalTokensAccounted
  BY DEF IInv
<1> QED
  BY Invariance, <1>1, PTL

(* The take / deny / give-back sequence of Allow never manufactures a     *)
(* global token: admissions never exceed the global capacity plus the     *)
(* tokens refill added.                                                    *)
THEOREM GlobalAdmitBoundHolds == Spec => []GlobalAdmitBound
<1>1. IInv => GlobalAdmitBound
  BY HoldersFinite DEF IInv, GlobalTokensAccounted, GlobalAdmitBound,
                        GBP!BoundedBucket
<1> QED
  BY Invariance, <1>1, PTL
=============================================================================
