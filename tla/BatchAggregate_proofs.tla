----------------------- MODULE BatchAggregate_proofs -----------------------
(***************************************************************************)
(* Proofs about the advertiser totals of AnalyzeDomains.  buildAnalysis    *)
(* sums a count map (SumCounts), and the aggregator sums the count maps of *)
(* the successful results into its advertiserCounts table, whose sum is    *)
(* the response's totalAdvertisers.  Both sums are recursive functions    *)
(* over 0..n.  Their values are reached here without an induction theorem *)
(* over an operator: the least natural number at which a claim fails      *)
(* (well-foundedness of < on Nat, a fact about a concrete set) cannot      *)
(* exist, and a recursive function is equal to the one prefix-sum table    *)
(* that satisfies its defining equation.                                   *)
(***************************************************************************)
EXTENDS BatchAnalysis_proofs, WellFoundedInduction

-----------------------------------------------------------------------------
(* Every non-empty set of naturals has a least element.                    *)
LEMMA NatMin ==
  ASSUME NEW T \in SUBSET Nat, T # {}
  PROVE  \E m \in T : \A y \in T : m <= y
<1>1. PICK x \in T : \A y \in T : ~(<<y, x>> \in OpToRel(<, Nat))
  BY NatLessThanWellFounded, WFMin
<1>2. \A y \in T : (y < x) => <<y, x>> \in OpToRel(<, Nat)
  BY DEF OpToRel
<1>3. \A y \in T : ~(y < x)
  BY <1>1, <1>2, Zenon
<1> QED
  BY <1>3

(* g is the table of prefix sums of v[1], ..., v[n]: the defining equation *)
(* of the recursive functions of SumCounts and SumTotals.                  *)
IsPS(g, v, n) == g = [k \in 0..n |-> IF k = 0 THEN 0 ELSE g[k - 1] + v[k]]

LEMMA PSIntro ==
  ASSUME NEW n \in Nat, NEW v, NEW g, g \in [0..n -> Int], g[0] = 0,
         \A k \in 1..n : g[k] = g[k - 1] + v[k]
  PROVE  IsPS(g, v, n)
BY DEF IsPS

LEMMA PSElim ==
  ASSUME NEW n \in Nat, NEW v, NEW g, IsPS(g, v, n)
  PROVE  /\ DOMAIN g = 0..n /\ g[0] = 0
         /\ \A k \in 1..n : g[k] = g[k - 1] + v[k]
BY DEF IsPS

(* The sums of naturals are naturals.                                      *)
LEMMA PSNat ==
  ASSUME NEW n \in Nat, NEW v, \A k \in 1..n : v[k] \in Nat,
         NEW g, IsPS(g, v, n)
  PROVE  g \in [0..n -> Nat]
<1>1. DOMAIN g = 0..n /\ g[0] = 0 /\ \A k \in 1..n : g[k] = g[k - 1] + v[k]
  BY PSElim
<1> DEFINE T == {k \in 0..n : g[k] \notin Nat}
<1>2. T = {}
  <2> SUFFICES ASSUME T # {} PROVE FALSE
    OBVIOUS
  <2>0. T \in SUBSET Nat
    OBVIOUS
  <2>1. PICK m \in T : \A y \in T : m <= y
    BY <2>0, NatMin
  <2>2. m # 0
    BY <1>1, <2>1
  <2>3. m \in 1..n /\ m - 1 \in 0..n /\ m - 1 \notin T
    BY <2>0, <2>1, <2>2
  <2>4. g[m - 1] \in Nat /\ v[m] \in Nat /\ g[m] = g[m - 1] + v[m]
    BY <1>1, <2>3
  <2> QED
    BY <2>1, <2>4
<1>3. \A k \in 0..n : g[k] \in Nat
  BY <1>2
<1> QED
  BY <1>1, <1>3 DEF IsPS

(* Two tables satisfying the equation are equal.                           *)
LEMMA PSUnique ==
  ASSUME NEW n \in Nat, NEW v, NEW g, NEW h, IsPS(g, v, n), IsPS(h, v, n)
  PROVE  g = h
<1>1. /\ DOMAIN g = 0..n /\ g[0] = 0 /\ \A k \in 1..n : g[k] = g[k - 1] + v[k]
      /\ DOMAIN h = 0..n /\ h[0] = 0 /\ \A k \in 1..n : h[k] = h[k - 1] + v[k]
  BY PSElim
<1> DEFINE T == {k \in 0..n : g[k] # h[k]}
<1>2. T = {}
  <2> SUFFICES ASSUME T # {} PROVE FALSE
    OBVIOUS
  <2>0. T \in SUBSET Nat
    OBVIOUS
  <2>1. PICK m \in T : \A y \in T : m <= y
    BY <2>0, NatMin
  <2>2. m # 0
    BY <1>1, <2>1
  <2>3. m \in 1..n /\ m - 1 \in 0..n /\ m - 1 \notin T
    BY <2>0, <2>1, <2>2
  <2>4. g[m] = g[m - 1] + v[m] /\ h[m] = h[m - 1] + v[m] /\ g[m - 1] = h[m - 1]
    BY <1>1, <2>3
  <2> QED
    BY <2>1, <2>4
<1>3. \A k \in 0..n : g[k] = h[k]
  BY <1>2
<1> QED
  BY <1>1, <1>3 DEF IsPS

(* One more term extends the table by one entry.                           *)
LEMMA PSExtend ==
  ASSUME NEW n \in Nat, NEW v, \A k \in 1..n + 1 : v[k] \in Nat,
         NEW g, IsPS(g, v, n)
  PROVE  IsPS([k \in 0..n + 1 |-> IF k <= n THEN g[k] ELSE g[n] + v[n + 1]],
              v, n + 1)
<1>1. g \in [0..n -> Nat] /\ g[0] = 0 /\ \A k \in 1..n : g[k] = g[k - 1] + v[k]
  BY PSNat, PSElim
<1> DEFINE g1 == [k \in 0..n + 1 |-> IF k <= n THEN g[k] ELSE g[n] + v[n + 1]]
<1>2. g1 \in [0..n + 1 -> Int] /\ g1[0] = 0
  BY <1>1
<1>3. \A k \in 1..n + 1 : g1[k] = g1[k - 1] + v[k]
  BY <1>1
<1>4. n + 1 \in Nat
  OBVIOUS
<1> QED
  BY <1>2, <1>3, <1>4, PSIntro

(* A table exists for every length.                                        *)
LEMMA PSExists ==
  ASSUME NEW n \in Nat, NEW v, \A k \in 1..n : v[k] \in Nat
  PROVE  \E g : IsPS(g, v, n)
<1> DEFINE T == {m \in 0..n : ~\E g : IsPS(g, v, m)}
<1>1. T = {}
  <2> SUFFICES ASSUME T # {} PROVE FALSE
    OBVIOUS
  <2>0. T \in SUBSET Nat
    OBVIOUS
  <2>1. PICK m \in T : \A y \in T : m <= y
    BY <2>0, NatMin
  <2>2. CASE m = 0
    <3>1. IsPS([k \in 0..0 |-> 0], v, 0)
      BY DEF IsPS
    <3> QED
      BY <2>1, <2>2, <3>1
  <2>3. CASE m # 0
    <3>1. m - 1 \in Nat /\ m - 1 \notin T
      BY <2>1, <2>3
    <3>2. PICK g : IsPS(g, v, m - 1)
      BY <2>1, <3>1
    <3>3. \A k \in 1..(m - 1) + 1 : v[k] \in Nat
      BY <2>1
    <3>4. IsPS([k \in 0..(m - 1) + 1 |->
                 IF k <= m - 1 THEN g[k] ELSE g[m - 1] + v[(m - 1) + 1]],
               v, (m - 1) + 1)
      BY <3>1, <3>2, <3>3, PSExtend
    <3> QED
      BY <2>1, <3>4
  <2> QED
    BY <2>2, <2>3
<1> QED
  BY <1>1

(* Two tables that agree on the terms they use are tables of both.        *)
LEMMA PSCongr ==
  ASSUME NEW n \in Nat, NEW v, NEW w, \A k \in 1..n : v[k] = w[k],
         NEW g, IsPS(g, v, n)
  PROVE  IsPS(g, w, n)
BY DEF IsPS

-----------------------------------------------------------------------------
(* SumCounts(c) is the last entry of the table of prefix sums of c.        *)
LEMMA SumCountsPS ==
  ASSUME NEW c, NEW g, IsPS(g, c, NumAdvertisers)
  PROVE  SumCounts(c) = g[NumAdvertisers]
<1>1. \A h : IsPS(h, c, NumAdvertisers) => h = g
  BY BatchAssumption, PSUnique
<1> QED
  BY <1>1 DEF SumCounts, IsPS

\* The term a result adds to SumTotals.
Gain(s) == [k \in 1..Len(s) |-> IF s[k].success THEN s[k].total ELSE 0]

LEMMA SumTotalsPS ==
  ASSUME NEW s, Len(s) \in Nat, NEW g, IsPS(g, Gain(s), Len(s))
  PROVE  SumTotals(s) = g[Len(s)]
<1>1. \A h : (h = [k \in 0..Len(s) |->
                    IF k = 0 THEN 0
                    ELSE h[k - 1] + (IF s[k].success THEN s[k].total ELSE 0)])
             <=> IsPS(h, Gain(s), Len(s))
  <2> SUFFICES ASSUME NEW h
               PROVE  (h = [k \in 0..Len(s) |->
                         IF k = 0 THEN 0
                         ELSE h[k - 1] + (IF s[k].success THEN s[k].total ELSE 0)])
                      <=> IsPS(h, Gain(s), Len(s))
    OBVIOUS
  <2>1. \A k \in 1..Len(s) : Gain(s)[k] = IF s[k].success THEN s[k].total ELSE 0
    BY DEF Gain
  <2>2. [k \in 0..Len(s) |->
           IF k = 0 THEN 0
           ELSE h[k - 1] + (IF s[k].success THEN s[k].total ELSE 0)]
        = [k \in 0..Len(s) |-> IF k = 0 THEN 0 ELSE h[k - 1] + Gain(s)[k]]
    BY <2>1
  <2> QED
    BY <2>2 DEF IsPS
<1>2. \A h : IsPS(h, Gain(s), Len(s)) => h = g
  BY PSUnique
<1> QED
  BY <1>1, <1>2 DEF SumTotals

(* What buildAnalysis sums is a natural number.                            *)
LEMMA SumCountsNat ==
  ASSUME NEW c \in Counts
  PROVE  SumCounts(c) \in Nat
<1>1. NumAdvertisers \in Nat /\ \A k \in 1..NumAdvertisers : c[k] \in Nat
  BY BatchAssumption DEF Counts, Advertisers
<1>2. PICK g : IsPS(g, c, NumAdvertisers)
  BY <1>1, PSExists
<1>3. g \in [0..NumAdvertisers -> Nat]
  BY <1>1, <1>2, PSNat
<1> QED
  BY <1>1, <1>2, <1>3, SumCountsPS

(* An all-zero count map sums to 0: a failed result's total.               *)
LEMMA SumCountsZero ==
  SumCounts([a \in Advertisers |-> 0]) = 0
<1>1. IsPS([k \in 0..NumAdvertisers |-> 0], [a \in Advertisers |-> 0],
           NumAdvertisers)
  BY BatchAssumption DEF IsPS, Advertisers
<1> QED
  BY <1>1, BatchAssumption, SumCountsPS

(* The aggregator's advertiserCounts[d] += count, summed over the table.  *)
LEMMA SumCountsAdd ==
  ASSUME NEW c \in Counts, NEW d \in Counts
  PROVE  SumCounts([a \in Advertisers |-> c[a] + d[a]])
           = SumCounts(c) + SumCounts(d)
<1> DEFINE N == NumAdvertisers
           u == [a \in Advertisers |-> c[a] + d[a]]
<1>1. N \in Nat /\ \A k \in 1..N : c[k] \in Nat /\ d[k] \in Nat
  BY BatchAssumption DEF Counts, Advertisers
<1>2. PICK g : IsPS(g, c, N)
  BY <1>1, PSExists
<1>3. PICK h : IsPS(h, d, N)
  BY <1>1, PSExists
<1>4. /\ g \in [0..N -> Nat] /\ g[0] = 0 /\ \A k \in 1..N : g[k] = g[k - 1] + c[k]
      /\ h \in [0..N -> Nat] /\ h[0] = 0 /\ \A k \in 1..N : h[k] = h[k - 1] + d[k]
  BY <1>1, <1>2, <1>3, PSNat, PSElim
<1> DEFINE gh == [k \in 0..N |-> g[k] + h[k]]
<1>5. gh \in [0..N -> Int] /\ gh[0] = 0 /\ \A k \in 1..N : gh[k] = gh[k - 1] + u[k]
  <2>1. gh \in [0..N -> Int] /\ gh[0] = 0
    BY <1>1, <1>4
  <2>2. ASSUME NEW k \in 1..N PROVE gh[k] = gh[k - 1] + u[k]
    <3>1. u[k] = c[k] + d[k] /\ c[k] \in Nat /\ d[k] \in Nat
      BY <1>1 DEF Advertisers
    <3>2. gh[k] = g[k] + h[k] /\ gh[k - 1] = g[k - 1] + h[k - 1]
      BY <1>1
    <3>3. g[k] = g[k - 1] + c[k] /\ h[k] = h[k - 1] + d[k]
          /\ g[k - 1] \in Nat /\ h[k - 1] \in Nat
      BY <1>1, <1>4
    <3> QED
      BY <3>1, <3>2, <3>3
  <2> QED
    BY <2>1, <2>2
<1>6. IsPS(gh, u, N)
  BY <1>1, <1>5, PSIntro
<1>7. SumCounts(u) = gh[N]
  BY <1>6, SumCountsPS
<1>8. SumCounts(c) = g[N] /\ SumCounts(d) = h[N]
  BY <1>2, <1>3, SumCountsPS
<1> QED
  BY <1>1, <1>7, <1>8

(* No results, no total.                                                   *)
LEMMA SumTotalsEmpty == SumTotals(<< >>) = 0
<1>1. Len(<< >>) = 0
  OBVIOUS
<1>2. IsPS([k \in 0..0 |-> 0], Gain(<< >>), 0)
  BY DEF IsPS
<1> QED
  BY <1>1, <1>2, SumTotalsPS

(* Appending a result adds its total if it succeeded.                     *)
LEMMA SumTotalsAppend ==
  ASSUME NEW s \in Seq(DomainResult), NEW r \in DomainResult
  PROVE  SumTotals(Append(s, r))
           = SumTotals(s) + (IF r.success THEN r.total ELSE 0)
<1> DEFINE L == Len(s)
           t == Append(s, r)
<1>1. L \in Nat /\ t \in Seq(DomainResult) /\ Len(t) = L + 1
      /\ \A k \in 1..L : t[k] = s[k]
      /\ t[L + 1] = r
  BY AppendProperties
<1>2. /\ \A k \in 1..L : Gain(s)[k] = Gain(t)[k] /\ Gain(s)[k] \in Nat
      /\ \A k \in 1..L + 1 : Gain(t)[k] \in Nat
      /\ Gain(t)[L + 1] = IF r.success THEN r.total ELSE 0
  <2>1. \A k \in 1..L + 1 : t[k] \in DomainResult /\ t[k].total \in Nat
    <3> SUFFICES ASSUME NEW k \in 1..L + 1
                 PROVE  t[k] \in DomainResult /\ t[k].total \in Nat
      OBVIOUS
    <3>1. t[k] \in DomainResult
      BY <1>1, ElementOfSeq
    <3> QED
      BY <3>1 DEF DomainResult
  <2>2. \A k \in 1..L + 1 : Gain(t)[k] = IF t[k].success THEN t[k].total ELSE 0
    BY <1>1 DEF Gain
  <2>3. \A k \in 1..L : Gain(s)[k] = IF s[k].success THEN s[k].total ELSE 0
    BY DEF Gain
  <2> QED
    BY <1>1, <2>1, <2>2, <2>3
<1>3. PICK g : IsPS(g, Gain(s), L)
  BY <1>1, <1>2, PSExists
<1>4. IsPS(g, Gain(t), L)
  BY <1>1, <1>2, <1>3, PSCongr
<1>5. IsPS([k \in 0..L + 1 |-> IF k <= L THEN g[k] ELSE g[L] + Gain(t)[L + 1]],
           Gain(t), L + 1)
  BY <1>1, <1>2, <1>4, PSExtend
<1>6. SumTotals(s) = g[L]
  BY <1>1, <1>3, SumTotalsPS
<1>7. SumTotals(t) = g[L] + Gain(t)[L + 1]
  BY <1>1, <1>5, SumTotalsPS
<1> QED
  BY <1>2, <1>6, <1>7

-----------------------------------------------------------------------------
(* Aggregation correctness.  Every analysis object's total is the sum of  *)
(* its counts: buildAnalysis computes it so, a cache hit only sets Cached, *)
(* and a failed result has no counts and total 0.  The aggregator adds a  *)
(* successful result's counts to its table, so the table's sum grows by   *)
(* that result's total, which is what SumTotals adds for the result.       *)

\* A result as the workers build it, its total the sum of its counts.
GoodResult(r) == r \in DomainResult /\ r.total = SumCounts(r.counts)

\* An analysis object, its total the sum of its counts.
ObjOK(x) == x \in DomainAnalysis /\ x.total = SumCounts(x.counts)

\* A worker about to read an object holds one; a built result is good.
WorkerOK(w) ==
  /\ pc[w] \in {"store", "result"} => analysis[w] \in ObjIds
  /\ pc[w] \in BuiltPcs => GoodResult(result[w])

\* The heap holds good objects, and the cache refers to objects.
HeapOK ==
  /\ DOMAIN objs = ObjIds /\ \A o \in ObjIds : ObjOK(objs[o])
  /\ cache \in [Domains -> ObjIds \cup {NoObj}]

WorkersOK ==
  /\ DOMAIN analysis = Workers /\ DOMAIN result = Workers
  /\ \A w \in Workers : WorkerOK(w)

\* The aggregator's table sums to the totals of the successful results in
\* its slice.
AggOK ==
  /\ aggResults \in Seq(DomainResult)
  /\ advCounts \in Counts
  /\ SumCounts(advCounts) = SumTotals(aggResults)
  /\ AggregateConsistent

AInv == HeapOK /\ WorkersOK /\ AggOK

LEMMA InitAInv == Init => AInv
<1> SUFFICES ASSUME Init PROVE AInv
  OBVIOUS
<1>1. PICK held \in SUBSET Domains :
        /\ cache = [d \in Domains |-> IF d \in held THEN d ELSE NoObj]
        /\ \E pre \in [held -> CountChoices], mark \in [held -> StoredCachedFlags] :
             objs = [o \in ObjIds |->
                       IF o \in held
                       THEN [counts |-> pre[o], total |-> SumCounts(pre[o]),
                             cached |-> mark[o]]
                       ELSE NoAnalysis]
  BY DEF Init
<1>2. PICK pre \in [held -> CountChoices], mark \in [held -> StoredCachedFlags] :
        objs = [o \in ObjIds |->
                  IF o \in held
                  THEN [counts |-> pre[o], total |-> SumCounts(pre[o]),
                        cached |-> mark[o]]
                  ELSE NoAnalysis]
  BY <1>1
<1>3. ASSUME NEW o \in ObjIds
      PROVE  ObjOK(objs[o])
  <2> SUFFICES objs[o] \in DomainAnalysis /\ objs[o].total = SumCounts(objs[o].counts)
    BY DEF ObjOK
  <2>1. CASE o \in held
    <3>1. pre[o] \in Counts /\ mark[o] \in BOOLEAN
      BY <2>1, BatchAssumption DEF StoredCachedFlags
    <3>2. SumCounts(pre[o]) \in Nat
      BY <3>1, SumCountsNat
    <3> QED
      BY <1>2, <2>1, <3>1, <3>2 DEF DomainAnalysis
  <2>2. CASE o \notin held
    <3>1. objs[o] = NoAnalysis
      BY <1>2, <2>2
    <3>2. NoAnalysis.counts = [a \in Advertisers |-> 0]
      BY DEF NoAnalysis, Advertisers
    <3>3. [a \in Advertisers |-> 0] \in Counts
      BY DEF Counts
    <3>4. NoAnalysis \in DomainAnalysis
      BY <3>2, <3>3 DEF NoAnalysis, DomainAnalysis
    <3>5. NoAnalysis.total = SumCounts(NoAnalysis.counts)
      BY <3>2, SumCountsZero DEF NoAnalysis
    <3> QED
      BY <3>1, <3>4, <3>5
  <2> QED
    BY <2>1, <2>2
<1>4. DOMAIN objs = ObjIds
  BY <1>2
<1>5. cache \in [Domains -> ObjIds \cup {NoObj}]
  BY <1>1 DEF ObjIds
<1>6. /\ pc = [w \in Workers |-> "none"] /\ mainPc = "start"
      /\ DOMAIN analysis = Workers /\ DOMAIN result = Workers
      /\ aggResults = << >> /\ advCounts = [a \in Advertisers |-> 0]
  BY DEF Init
<1>7. aggResults \in Seq(DomainResult) /\ advCounts \in Counts
  BY <1>6, EmptySeq DEF Counts
<1>8. SumCounts(advCounts) = SumTotals(aggResults)
  BY <1>6, SumCountsZero, SumTotalsEmpty
<1> QED
  BY <1>3, <1>4, <1>5, <1>6, <1>7, <1>8 DEF AInv, HeapOK, WorkersOK, AggOK,
                                          WorkerOK, BuiltPcs, AggregateConsistent


\* A started worker's domain is one of the request's.
LEMMA InputDomain ==
  ASSUME IInv, NEW w \in Workers, pc[w] # "none"
  PROVE  input[w] \in Domains
<1>1. w \in 1..Len(input)
  BY BatchAssumption DEF IInv, Workers
<1>2. input \in Seq(Domains)
  BY BatchAssumption DEF IInv
<1> QED
  BY <1>1, <1>2, ElementOfSeq

\* A step that leaves the aggregator's state alone keeps AggOK.
LEMMA AggStill ==
  ASSUME AggOK, UNCHANGED <<mainPc, response, aggResults, advCounts>>
  PROVE  AggOK'
BY DEF AggOK, AggregateConsistent

(* A worker step: the heap, the cache and the worker's own result stay   *)
(* good.  A hit marks a good object cached, a fetch builds one from a     *)
(* count map, a failure builds the zero result, and MakeResult copies the *)
(* object the worker holds.                                                *)
LEMMA WorkerAInv ==
  ASSUME IInv, AInv, NEW w \in Workers, Worker(w)
  PROVE  AInv'
<1>0. /\ pc \in [Workers -> PcValues] /\ HeapOK /\ WorkersOK /\ AggOK
      /\ WorkerOK(w)
  BY DEF IInv, AInv, WorkersOK
<1>1. UNCHANGED <<mainPc, response, aggResults, advCounts>>
  BY DEF Worker, Acquire, CacheLookup, FetchAndParse, CacheStore, MakeResult,
         Send, Exit, mainVars, aggVars
<1>2. AggOK'
  BY <1>0, <1>1, AggStill
<1>3. /\ DOMAIN pc' = Workers
      /\ \A v \in Workers \ {w} : /\ pc'[v] = pc[v]
                                  /\ analysis'[v] = analysis[v]
                                  /\ result'[v] = result[v]
      /\ DOMAIN analysis' = Workers /\ DOMAIN result' = Workers
  BY <1>0 DEF Worker, Acquire, CacheLookup, FetchAndParse, CacheStore,
              MakeResult, Send, Exit, WorkersOK
<1>4. \A v \in Workers \ {w} : WorkerOK(v)'
  BY <1>0, <1>3 DEF WorkersOK, WorkerOK
<1>5. HeapOK' /\ WorkerOK(w)'
  <2>1. CASE Acquire(w) \/ Send(w) \/ Exit(w)
    <3>1. /\ UNCHANGED <<objs, cache, analysis, result>>
          /\ pc'[w] \in {"lookup", "exit", "done"}
          /\ pc'[w] \in BuiltPcs => pc[w] \in BuiltPcs
      BY <1>0, <2>1 DEF Acquire, Send, Exit, cacheVars, BuiltPcs
    <3> QED
      BY <1>0, <3>1 DEF HeapOK, WorkerOK
  <2>2. CASE CacheLookup(w)
    <3> DEFINE o == cache[input[w]]
               h == HitObject(w, o)
    <3>1. pc[w] = "lookup" /\ UNCHANGED <<cache, result>>
      BY <2>2 DEF CacheLookup
    <3>2. input[w] \in Domains
      BY <3>1, InputDomain
    <3>3. CASE /\ o # NoObj
               /\ objs' = [objs EXCEPT ![h] = [objs[o] EXCEPT !.cached = TRUE]]
               /\ analysis' = [analysis EXCEPT ![w] = h]
               /\ pc' = [pc EXCEPT ![w] = "result"]
      <4>1. o \in ObjIds
        BY <1>0, <3>2, <3>3 DEF HeapOK
      <4>2. h \in ObjIds
        BY <4>1 DEF HitObject, ObjIds, Copies
      <4>3. ObjOK([objs[o] EXCEPT !.cached = TRUE])
        <5>1. ObjOK(objs[o])
          BY <1>0, <4>1 DEF HeapOK
        <5> QED
          BY <5>1 DEF ObjOK, DomainAnalysis
      <4>4. HeapOK'
        BY <1>0, <3>1, <3>3, <4>2, <4>3 DEF HeapOK
      <4>5. WorkerOK(w)'
        BY <1>0, <3>3, <4>2 DEF WorkerOK, WorkersOK, BuiltPcs
      <4> QED
        BY <4>4, <4>5
    <3>4. CASE /\ pc' = [pc EXCEPT ![w] = "fetch"]
               /\ UNCHANGED <<objs, analysis>>
      BY <1>0, <3>1, <3>4 DEF HeapOK, WorkerOK, BuiltPcs
    <3> QED
      BY <2>2, <3>3, <3>4 DEF CacheLookup
  <2>3. CASE FetchAndParse(w)
    <3>1. pc[w] = "fetch" /\ UNCHANGED cache
      BY <2>3 DEF FetchAndParse
    <3>2. input[w] \in Domains
      BY <3>1, InputDomain
    <3>3. CASE /\ result' = [result EXCEPT ![w] = FailedResult(input[w])]
               /\ pc' = [pc EXCEPT ![w] = "send"]
               /\ UNCHANGED <<objs, analysis>>
      <4>1. [a \in Advertisers |-> 0] \in Counts
        BY DEF Counts
      <4>2. GoodResult(FailedResult(input[w]))
        BY <3>2, <4>1, SumCountsZero DEF GoodResult, FailedResult, DomainResult
      <4> QED
        BY <1>0, <3>1, <3>3, <4>2 DEF HeapOK, WorkerOK, WorkersOK, BuiltPcs
    <3>4. CASE \E c \in CountChoices :
                 /\ objs' = [objs EXCEPT ![w] = buildAnalysis(c)]
                 /\ analysis' = [analysis EXCEPT ![w] = w]
                 /\ pc' = [pc EXCEPT ![w] = "store"]
                 /\ UNCHANGED result
      <4>1. PICK c \in CountChoices :
                 /\ objs' = [objs EXCEPT ![w] = buildAnalysis(c)]
                 /\ analysis' = [analysis EXCEPT ![w] = w]
                 /\ pc' = [pc EXCEPT ![w] = "store"]
                 /\ UNCHANGED result
        BY <3>4
      <4>2. c \in Counts /\ SumCounts(c) \in Nat
        BY BatchAssumption, SumCountsNat
      <4>3. ObjOK(buildAnalysis(c)) /\ w \in ObjIds
        BY <4>2 DEF ObjOK, buildAnalysis, DomainAnalysis, ObjIds
      <4> QED
        BY <1>0, <3>1, <4>1, <4>3 DEF HeapOK, WorkerOK, WorkersOK, BuiltPcs
    <3> QED
      BY <2>3, <3>3, <3>4 DEF FetchAndParse
  <2>4. CASE CacheStore(w)
    <3>1. /\ pc[w] = "store" /\ pc' = [pc EXCEPT ![w] = "result"]
          /\ UNCHANGED <<objs, analysis, result>>
          /\ \/ cache' = [cache EXCEPT ![input[w]] = w]
             \/ cache' = cache
      BY <2>4 DEF CacheStore
    <3>2. input[w] \in Domains /\ analysis[w] \in ObjIds /\ w \in ObjIds
      BY <1>0, <3>1, InputDomain DEF WorkerOK, ObjIds
    <3> QED
      BY <1>0, <3>1, <3>2 DEF HeapOK, WorkerOK, WorkersOK, BuiltPcs
  <2>5. CASE MakeResult(w)
    <3> DEFINE a == objs[analysis[w]]
               r == [domain |-> input[w], success |-> TRUE,
                     cached |-> a.cached, counts |-> a.counts, total |-> a.total]
    <3>1. /\ pc[w] = "result" /\ pc' = [pc EXCEPT ![w] = "send"]
          /\ result' = [result EXCEPT ![w] = r]
          /\ UNCHANGED <<objs, cache, analysis>>
      BY <2>5 DEF MakeResult, cacheVars
    <3>2. input[w] \in Domains /\ analysis[w] \in ObjIds
      BY <1>0, <3>1, InputDomain DEF WorkerOK
    <3>3. ObjOK(a)
      BY <1>0, <3>2 DEF HeapOK
    <3>4. GoodResult(r)
      BY <3>2, <3>3 DEF ObjOK, GoodResult, DomainAnalysis, DomainResult
    <3> QED
      BY <1>0, <3>1, <3>4 DEF HeapOK, WorkerOK, WorkersOK, BuiltPcs
  <2> QED
    BY <2>1, <2>2, <2>3, <2>4, <2>5 DEF Worker
<1> QED
  BY <1>2, <1>3, <1>4, <1>5 DEF AInv, WorkersOK

\* The entry at the head of the buffer is a good result some worker built.
LEMMA HeadGood ==
  ASSUME ChanInv, RQueue, AInv, resultsChan # << >>
  PROVE  GoodResult(Head(resultsChan))
<1>1. PICK f : QueueMap(f)
  BY DEF RQueue
<1>2. Len(aggResults) \in Nat /\ Len(resultsChan) \in Nat \ {0}
  <2>1. PICK S : resultsChan \in Seq(S)
    BY DEF ChanInv, IsSeq
  <2> QED
    BY <2>1, EmptySeq, SeqLen DEF ChanInv
<1>3. Len(aggResults) + 1 \in 1..QLen /\ QAt(Len(aggResults) + 1) = Head(resultsChan)
  BY <1>2, TailAt DEF ChanInv, QLen, QAt
<1>4. /\ f[Len(aggResults) + 1] \in Sent
      /\ QAt(Len(aggResults) + 1) = result[f[Len(aggResults) + 1]]
  BY <1>1, <1>3 DEF QueueMap, Bijection, Injection
<1>5. WorkerOK(f[Len(aggResults) + 1])
  BY <1>4 DEF Sent, AInv, WorkersOK
<1> QED
  BY <1>3, <1>4, <1>5 DEF WorkerOK, Sent, SentPcs, BuiltPcs

\* A step that moves no worker and touches no object keeps the invariant,
\* whatever it does to the aggregator, as long as AggOK holds after it.
LEMMA AInvFrame ==
  ASSUME AInv, UNCHANGED <<pc, analysis, result, objs>>,
         cache' \in [Domains -> ObjIds \cup {NoObj}], AggOK'
  PROVE  AInv'
BY DEF AInv, HeapOK, WorkersOK, WorkerOK

LEMMA NextAInv ==
  ASSUME IInv, ChanInv, RInv, AInv, [Next]_vars
  PROVE  AInv'
<1>0. /\ pc \in [Workers -> PcValues] /\ next \in Nat \ {0}
      /\ HeapOK /\ WorkersOK /\ AggOK /\ RQueue
  BY DEF IInv, AInv, RInv
<1>1. CASE \E w \in Workers : Worker(w)
  BY <1>1, WorkerAInv
<1>2. CASE Start
  <2>1. UNCHANGED <<pc, analysis, result, objs, cache, aggResults, advCounts>>
    BY <1>2 DEF Start, workerVars, cacheVars
  <2>2. CASE Len(input) = 0
    <3>1. /\ mainPc' = "done"
          /\ response'.totalAdvertisers = 0 /\ response'.results = << >>
      BY <1>2, <2>2 DEF Start
    <3>2. AggOK'
      BY <1>0, <2>1, <3>1, SumTotalsEmpty DEF AggOK, AggregateConsistent
    <3> QED
      BY <1>0, <2>1, <3>2, AInvFrame DEF HeapOK
  <2>3. CASE Len(input) # 0
    <3>1. mainPc' = "dispatch"
      BY <1>2, <2>3 DEF Start
    <3>2. AggOK'
      BY <1>0, <2>1, <3>1 DEF AggOK, AggregateConsistent
    <3> QED
      BY <1>0, <2>1, <3>2, AInvFrame DEF HeapOK
  <2> QED
    BY <2>2, <2>3
<1>3. CASE Dispatch
  <2>1. /\ next \in Workers /\ pc[next] = "none"
        /\ pc' = [pc EXCEPT ![next] = "acquire"]
        /\ UNCHANGED <<analysis, result, objs, cache, mainPc, response,
                       aggResults, advCounts>>
    BY <1>0, <1>3, BatchAssumption DEF Dispatch, Workers, IInv, cacheVars,
                                       aggVars
  <2>2. WorkersOK'
    BY <1>0, <2>1 DEF WorkersOK, WorkerOK, BuiltPcs
  <2> QED
    BY <1>0, <2>1, <2>2, AggStill DEF AInv, HeapOK
<1>4. CASE DispatchEnd \/ CloseResults \/ (\E d \in Domains : Expire(d))
           \/ UNCHANGED vars
  <2>1. /\ UNCHANGED <<pc, analysis, result, objs, response, aggResults,
                      advCounts>>
        /\ mainPc' = mainPc \/ mainPc' = "wait"
    <3>1. CASE \E d \in Domains : Expire(d)
      BY <3>1 DEF Expire, mainVars, workerVars, aggVars
    <3>2. CASE DispatchEnd
      BY <3>2 DEF DispatchEnd, workerVars, cacheVars, aggVars
    <3>3. CASE CloseResults
      BY <3>3 DEF CloseResults, mainVars, workerVars, cacheVars, aggVars
    <3>4. CASE UNCHANGED vars
      BY <3>4 DEF vars, mainVars, workerVars, cacheVars, aggVars
    <3> QED
      BY <1>4, <3>1, <3>2, <3>3, <3>4
  <2>2. cache' \in [Domains -> ObjIds \cup {NoObj}]
    BY <1>0, <1>4 DEF DispatchEnd, CloseResults, Expire, vars, cacheVars,
                      HeapOK
  <2>3. AggOK'
    BY <1>0, <2>1 DEF AggOK, AggregateConsistent
  <2> QED
    BY <1>0, <2>1, <2>2, <2>3, AInvFrame
<1>5. CASE AggregateOne
  <2> DEFINE r == Head(resultsChan)
  <2>1. /\ resultsChan # << >>
        /\ aggResults' = Append(aggResults, r)
        /\ IF r.success
           THEN advCounts' = [a \in Advertisers |-> advCounts[a] + r.counts[a]]
           ELSE advCounts' = advCounts
        /\ UNCHANGED <<pc, analysis, result, objs, cache, mainPc, response>>
    BY <1>5 DEF AggregateOne, mainVars, workerVars, cacheVars
  <2>2. GoodResult(r)
    BY <1>0, <2>1, HeadGood
  <2>3. aggResults' \in Seq(DomainResult)
    BY <1>0, <2>1, <2>2, AppendProperties DEF AggOK, GoodResult
  <2>4. SumTotals(aggResults')
          = SumTotals(aggResults) + (IF r.success THEN r.total ELSE 0)
    BY <1>0, <2>1, <2>2, SumTotalsAppend DEF AggOK, GoodResult
  <2>5. CASE r.success
    <3> SUFFICES AggOK'
      BY <1>0, <2>1, AInvFrame DEF HeapOK
    <3>1. r.counts \in Counts /\ advCounts \in Counts
      BY <1>0, <2>2 DEF GoodResult, DomainResult, AggOK
    <3>2. advCounts' \in Counts
      BY <2>1, <2>5, <3>1 DEF Counts
    <3>3. SumCounts(advCounts') = SumCounts(advCounts) + SumCounts(r.counts)
      BY <2>1, <2>5, <3>1, SumCountsAdd
    <3>4. SumCounts(advCounts') = SumTotals(aggResults')
      BY <1>0, <2>2, <2>4, <2>5, <3>3 DEF AggOK, GoodResult
    <3> QED
      BY <1>0, <2>1, <2>3, <3>2, <3>4 DEF AggOK, AggregateConsistent
  <2>6. CASE ~r.success
    <3> SUFFICES AggOK'
      BY <1>0, <2>1, AInvFrame DEF HeapOK
    <3>1. advCounts' = advCounts
      BY <2>1, <2>6, Zenon
    <3>2. SumTotals(aggResults) \in Nat
      BY <1>0, SumCountsNat DEF AggOK
    <3>3. SumTotals(aggResults') = SumTotals(aggResults)
      BY <2>4, <2>6, <3>2
    <3> QED
      BY <1>0, <2>1, <2>3, <3>1, <3>3 DEF AggOK, AggregateConsistent
  <2> QED
    BY <2>5, <2>6
<1>6. CASE AggregateFinish
  <2>1. /\ mainPc' = "done"
        /\ response'.totalAdvertisers = SumCounts(advCounts)
        /\ response'.results = aggResults
        /\ UNCHANGED <<pc, analysis, result, objs, cache, aggResults, advCounts>>
    BY <1>6 DEF AggregateFinish, workerVars, cacheVars
  <2>2. AggOK'
    BY <1>0, <2>1 DEF AggOK, AggregateConsistent
  <2> QED
    BY <1>0, <2>1, <2>2, AInvFrame DEF HeapOK
<1> QED
  BY <1>1, <1>2, <1>3, <1>4, <1>5, <1>6 DEF Next

(* Spec: the response's totalAdvertisers is the sum of the totals of its  *)
(* successful results, for every batch, every cache backend and state,    *)
(* every count map the parser returns and every interleaving.  Each       *)
(* result's total is the sum of its counts (buildAnalysis, kept by a cache *)
(* hit and copied by the worker), and the aggregator adds exactly the     *)
(* counts of each successful result it receives to advertiserCounts.      *)
THEOREM AggregateConsistentHolds == Spec => []AggregateConsistent
<1>1. Init => IInv /\ ChanInv /\ RInv /\ AInv
  BY InitIInv, InitChanInv, InitRInv, InitAInv
<1>2. IInv /\ ChanInv /\ RInv /\ AInv /\ [Next]_vars
        => IInv' /\ ChanInv' /\ RInv' /\ AInv'
  BY NextIInv, NextChanInv, NextRInv, NextAInv
<1>3. AInv => AggregateConsistent
  BY DEF AInv, AggOK
<1> QED
  BY <1>1, <1>2, <1>3, PTL DEF Spec

-----------------------------------------------------------------------------
(* Type correctness.  The rest of TypeOK's conjuncts are facts of the      *)
(* invariants above; TInv adds the types of the values the workers and    *)
(* the channel pass around.  A worker's result starts as a placeholder     *)
(* for some domain, so the type needs a domain name to exist.              *)
TInv ==
  /\ analysis \in [Workers -> ObjIds \cup {NoObj}]
  /\ result \in [Workers -> DomainResult]
  /\ resultsChan \in Seq(DomainResult)
  /\ objs \in [ObjIds -> DomainAnalysis]
  /\ aggPc \in {"none", "recv", "done"}

LEMMA InitTInv ==
  ASSUME Domains # {}, Init
  PROVE  TInv
<1>1. (CHOOSE d \in Domains : TRUE) \in Domains
  OBVIOUS
<1>2. [a \in Advertisers |-> 0] \in Counts
  BY DEF Counts
<1>3. FailedResult(CHOOSE d \in Domains : TRUE) \in DomainResult
  BY <1>1, <1>2 DEF FailedResult, DomainResult
<1>4. objs \in [ObjIds -> DomainAnalysis]
  <2>1. HeapOK
    BY InitAInv DEF AInv
  <2> QED
    BY <2>1 DEF Init, HeapOK, ObjOK
<1> QED
  BY <1>3, <1>4, EmptySeq DEF Init, TInv

(* A worker step keeps the types: a hit names an object in the heap, a    *)
(* fetch builds the worker's own object, a result is built from a domain  *)
(* of the request, and a send appends a typed result.                     *)
LEMMA WorkerTInv ==
  ASSUME IInv, AInv, TInv, NEW w \in Workers, Worker(w)
  PROVE  TInv'
<1>0. /\ pc \in [Workers -> PcValues] /\ HeapOK /\ WorkerOK(w) /\ TInv
      /\ aggPc' = aggPc
  BY DEF IInv, AInv, WorkersOK, Worker, Acquire, CacheLookup, FetchAndParse,
         CacheStore, MakeResult, Send, Exit, aggVars
<1>1. CASE Acquire(w) \/ CacheStore(w) \/ Exit(w)
  BY <1>0, <1>1 DEF Acquire, CacheStore, Exit, chanVars, cacheVars, TInv
<1>2. CASE Send(w)
  <2>1. /\ resultsChan' = Append(resultsChan, result[w])
        /\ UNCHANGED <<analysis, result, objs>>
    BY <1>2 DEF Send, cacheVars
  <2>2. resultsChan' \in Seq(DomainResult)
    BY <1>0, <2>1, AppendProperties DEF TInv
  <2> QED
    BY <1>0, <2>1, <2>2 DEF TInv
<1>3. CASE CacheLookup(w)
  <2> DEFINE o == cache[input[w]]
             h == HitObject(w, o)
  <2>1. pc[w] = "lookup" /\ UNCHANGED <<result, resultsChan>>
    BY <1>3 DEF CacheLookup, chanVars
  <2>2. input[w] \in Domains
    BY <2>1, InputDomain
  <2>3. CASE /\ o # NoObj
             /\ objs' = [objs EXCEPT ![h] = [objs[o] EXCEPT !.cached = TRUE]]
             /\ analysis' = [analysis EXCEPT ![w] = h]
    <3>1. o \in ObjIds
      BY <1>0, <2>2, <2>3 DEF HeapOK
    <3>2. h \in ObjIds
      BY <3>1 DEF HitObject, ObjIds, Copies
    <3>3. [objs[o] EXCEPT !.cached = TRUE] \in DomainAnalysis
      BY <1>0, <3>1 DEF TInv, DomainAnalysis
    <3> QED
      BY <1>0, <2>1, <2>3, <3>2, <3>3 DEF TInv
  <2>4. CASE UNCHANGED <<objs, analysis>>
    BY <1>0, <2>1, <2>4 DEF TInv
  <2> QED
    BY <1>3, <2>3, <2>4 DEF CacheLookup
<1>4. CASE FetchAndParse(w)
  <2>1. pc[w] = "fetch" /\ UNCHANGED resultsChan
    BY <1>4 DEF FetchAndParse, chanVars
  <2>2. input[w] \in Domains
    BY <2>1, InputDomain
  <2>3. CASE /\ result' = [result EXCEPT ![w] = FailedResult(input[w])]
             /\ UNCHANGED <<objs, analysis>>
    <3>1. [a \in Advertisers |-> 0] \in Counts
      BY DEF Counts
    <3>2. FailedResult(input[w]) \in DomainResult
      BY <2>2, <3>1 DEF FailedResult, DomainResult
    <3> QED
      BY <1>0, <2>1, <2>3, <3>2 DEF TInv
  <2>4. CASE \E c \in CountChoices :
               /\ objs' = [objs EXCEPT ![w] = buildAnalysis(c)]
               /\ analysis' = [analysis EXCEPT ![w] = w]
               /\ UNCHANGED result
    <3>1. PICK c \in CountChoices :
               /\ objs' = [objs EXCEPT ![w] = buildAnalysis(c)]
               /\ analysis' = [analysis EXCEPT ![w] = w]
               /\ UNCHANGED result
      BY <2>4
    <3>2. c \in Counts /\ SumCounts(c) \in Nat
      BY BatchAssumption, SumCountsNat
    <3>3. buildAnalysis(c) \in DomainAnalysis /\ w \in ObjIds
      BY <3>2 DEF buildAnalysis, DomainAnalysis, ObjIds
    <3> QED
      BY <1>0, <2>1, <3>1, <3>3 DEF TInv
  <2> QED
    BY <1>4, <2>3, <2>4 DEF FetchAndParse
<1>5. CASE MakeResult(w)
  <2> DEFINE a == objs[analysis[w]]
             r == [domain |-> input[w], success |-> TRUE,
                   cached |-> a.cached, counts |-> a.counts, total |-> a.total]
  <2>1. /\ pc[w] = "result" /\ result' = [result EXCEPT ![w] = r]
        /\ UNCHANGED <<objs, analysis, resultsChan>>
    BY <1>5 DEF MakeResult, cacheVars, chanVars
  <2>2. input[w] \in Domains /\ analysis[w] \in ObjIds
    BY <1>0, <2>1, InputDomain DEF WorkerOK
  <2>3. r \in DomainResult
    BY <1>0, <2>2 DEF TInv, DomainAnalysis, DomainResult
  <2> QED
    BY <1>0, <2>1, <2>3 DEF TInv
<1> QED
  BY <1>1, <1>2, <1>3, <1>4, <1>5 DEF Worker

LEMMA NextTInv ==
  ASSUME IInv, AInv, TInv, [Next]_vars
  PROVE  TInv'
<1>1. CASE \E w \in Workers : Worker(w)
  BY <1>1, WorkerTInv
<1>2. CASE AggregateOne
  <2>1. /\ resultsChan # << >> /\ resultsChan' = Tail(resultsChan)
        /\ UNCHANGED <<analysis, result, objs, aggPc>>
    BY <1>2 DEF AggregateOne, workerVars, cacheVars
  <2>2. resultsChan' \in Seq(DomainResult)
    BY <2>1, HeadTailProperties DEF TInv
  <2> QED
    BY <2>1, <2>2 DEF TInv
<1>3. CASE Start \/ AggregateFinish
  <2>1. /\ UNCHANGED <<analysis, result, objs, resultsChan>>
        /\ aggPc' \in {aggPc, "recv", "done"}
    BY <1>3 DEF Start, AggregateFinish, workerVars, cacheVars, chanVars
  <2> QED
    BY <2>1 DEF TInv
<1>4. CASE Dispatch \/ DispatchEnd \/ CloseResults
           \/ (\E d \in Domains : Expire(d)) \/ UNCHANGED vars
  <2>1. UNCHANGED <<analysis, result, objs, resultsChan, aggPc>>
    BY <1>4 DEF Dispatch, DispatchEnd, CloseResults, Expire, vars, workerVars,
                cacheVars, chanVars, aggVars, mainVars
  <2> QED
    BY <2>1 DEF TInv
<1> QED
  BY <1>1, <1>2, <1>3, <1>4 DEF Next

\* TypeOK follows from the invariants: the counters are cardinalities of
\* sets of workers, and the dispatch cursor stops one past the batch.
LEMMA TypeOKFromInv ==
  ASSUME IInv, ChanInv, RInv, AInv, TInv
  PROVE  TypeOK
<1>1. MaxBatch \in Nat /\ Len(input) <= MaxBatch
  BY BatchAssumption DEF IInv
<1>2. next \in 1..MaxBatch + 1
  BY <1>1 DEF IInv
<1>3. wg \in 0..MaxBatch
  <2>1. IsFiniteSet(Active) /\ Active \subseteq Workers
    BY CountsFinite DEF Active
  <2>2. IsFiniteSet(Workers) /\ Cardinality(Workers) = MaxBatch
    <3>1. IsFiniteSet(1..MaxBatch)
          /\ Cardinality(1..MaxBatch) = IF 1 > MaxBatch THEN 0 ELSE MaxBatch - 1 + 1
      BY <1>1, FS_Interval
    <3> QED
      BY <1>1, <3>1 DEF Workers
  <2>3. Cardinality(Active) \in Nat /\ Cardinality(Active) <= MaxBatch
    BY <2>1, <2>2, FS_Subset, FS_CardinalityType
  <2> QED
    BY <1>1, <2>3 DEF IInv
<1>4. sem \in 0..MaxConcurrent
  <2>1. Cardinality(InPipeline) \in Nat
    BY CountsFinite, FS_CardinalityType
  <2> QED
    BY <2>1, BatchAssumption DEF IInv
<1>5. /\ succeeded \in Nat /\ failed \in Nat
      /\ aggResults \in Seq(DomainResult) /\ advCounts \in Counts
      /\ cache \in [Domains -> ObjIds \cup {NoObj}]
  BY DEF RInv, RCount, AInv, AggOK, HeapOK
<1> QED
  BY <1>2, <1>3, <1>4, <1>5 DEF TypeOK, IInv, TInv, PcValues

(* Type correctness of the batch model for every batch, cache and         *)
(* interleaving: every worker's analysis names an object of the heap or   *)
(* none, every result, buffered entry and slice entry is a well-formed     *)
(* DomainResult, and the WaitGroup and semaphore stay within the batch    *)
(* and MAX_CONCURRENT_FETCHES.  Domain names are strings, so some exist.  *)
THEOREM TypeOKHolds ==
  ASSUME Domains # {}
  PROVE  Spec => []TypeOK
<1>1. Init => IInv /\ ChanInv /\ RInv /\ AInv /\ TInv
  BY InitIInv, InitChanInv, InitRInv, InitAInv, InitTInv
<1>2. IInv /\ ChanInv /\ RInv /\ AInv /\ TInv /\ [Next]_vars
        => IInv' /\ ChanInv' /\ RInv' /\ AInv' /\ TInv'
  BY NextIInv, NextChanInv, NextRInv, NextAInv, NextTInv
<1>3. IInv /\ ChanInv /\ RInv /\ AInv /\ TInv => TypeOK
  BY TypeOKFromInv
<1> QED
  BY <1>1, <1>2, <1>3, PTL DEF Spec

=============================================================================
