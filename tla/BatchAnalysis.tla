--------------------------- MODULE BatchAnalysis ---------------------------
(***************************************************************************)
(* Service.AnalyzeDomains of package domainAnalysis: one goroutine per     *)
(* input domain, a semaphore channel bounding how many run AnalyzeDomain   *)
(* at once, a results channel buffered to the batch length, a WaitGroup   *)
(* and a goroutine that closes the channel once every worker is done, and *)
(* the aggregateResults goroutine, sole owner of the summary and the      *)
(* advertiser table, which drains the channel and sends the response.     *)
(*                                                                         *)
(* Each worker runs AnalyzeDomain: a cache lookup, and on a miss a fetch   *)
(* and parse (one step: both are private to the worker, and either may    *)
(* fail), buildAnalysis, and a best-effort cache store.  The cache is    *)
(* the one initializeCache builds for CACHE_TYPE.  The in-memory cache    *)
(* stores and returns the *DomainAnalysis pointer itself, so objects are  *)
(* kept in a heap and the cache, the workers and the results refer to     *)
(* them by id.  Worker w's freshly built analysis is object w; an object  *)
(* already in the cache when the batch starts is object d, for its domain *)
(* d.  Redis returns JSON, which domainCache.Get unmarshals into a new     *)
(* object, -w for worker w.                                                *)
(***************************************************************************)
EXTENDS Integers, Sequences, FiniteSets

CONSTANTS Domains,         \* domain names (model values)
          Inputs,          \* the domain lists a request may carry
          MaxBatch,        \* the longest list the batch handler accepts
          MaxConcurrent,   \* s.maxConcurrent (MAX_CONCURRENT_FETCHES)
          NumAdvertisers,  \* advertiser domains are 1..NumAdvertisers,
                           \* numbered in lexicographic order
          CountChoices,    \* what parser.CountAdvertisers may return
          CacheType,       \* CACHE_TYPE: "memory" or "redis"
          CacheTTL         \* CACHE_TTL, the domain cache's default TTL

Advertisers == 1..NumAdvertisers
\* An advertiser count map; 0 stands for a key that is absent.
Counts == [Advertisers -> Nat]

\* The backends initializeCache can build; any other CACHE_TYPE stops main.
CacheKinds == {"memory", "redis"}

ASSUME BatchAssumption ==
  /\ Inputs \subseteq Seq(Domains)
  /\ Inputs # {}
  /\ MaxBatch \in Nat
  /\ \A s \in Inputs : Len(s) <= MaxBatch
  /\ MaxConcurrent \in Nat
  /\ NumAdvertisers \in Nat
  /\ CountChoices \subseteq Counts
  /\ CountChoices # {}
  /\ CacheType \in CacheKinds
  /\ CacheTTL \in Int

Workers == 1..MaxBatch
\* Object -w is the copy that domainCache.Get unmarshals for worker w from
\* the JSON string the Redis cache returns.
Copies == {-w : w \in Workers}
ObjIds == Workers \cup Copies \cup Domains
NoObj == 0
NoResponse == [total |-> -1]
\* The contents of a heap slot no analysis has been built in.
NoAnalysis == [counts |-> [a \in 1..NumAdvertisers |-> 0], total |-> 0,
               cached |-> FALSE]

\* The sum of the counts of a count map.
SumCounts(c) ==
  LET s[k \in 0..NumAdvertisers] == IF k = 0 THEN 0 ELSE s[k - 1] + c[k]
  IN  s[NumAdvertisers]

\* What AnalyzeDomains records of a failed domain.
FailedResult(d) ==
  [domain |-> d, success |-> FALSE, cached |-> FALSE,
   counts |-> [a \in Advertisers |-> 0], total |-> 0]

VARIABLES
  input,         \* the request's domain list
  mainPc,        \* the calling goroutine: "start", "dispatch", "wait", "done"
  next,          \* index of the next domain the dispatch loop starts
  wg,            \* the WaitGroup counter
  sem,           \* tokens in the semaphore channel
  pc,            \* each worker goroutine's place
  analysis,      \* the *DomainAnalysis AnalyzeDomain returned to a worker
  result,        \* the DomainResult a worker built
  resultsChan,   \* the results channel's buffer
  closed,        \* the results channel is closed
  closerPc,      \* the wg.Wait(); close(resultsChan) goroutine
  cache,         \* the memory cache: domain -> object id, NoObj if absent
  objs,          \* the heap of DomainAnalysis objects
  aggPc,         \* the aggregateResults goroutine
  aggResults,    \* its results slice
  succeeded, failed,
  advCounts,     \* its advertiserCounts map
  response       \* the BatchAnalysisResponse it sent

mainVars == <<input, mainPc, next, wg, closerPc>>
workerVars == <<sem, pc, analysis, result>>
chanVars == <<resultsChan, closed>>
cacheVars == <<cache, objs>>
aggVars == <<aggPc, aggResults, succeeded, failed, advCounts, response>>
vars == <<mainVars, workerVars, chanVars, cacheVars, aggVars>>

\* Mutant: a results buffer one short of the batch.
ResultsCapShort == Len(input) - 1

\* make(chan models.DomainResult, len(domains))
ResultsCap == Len(input)

\* The workers between acquiring and releasing a semaphore slot.
InPipeline == {w \in Workers : pc[w] \in {"lookup", "fetch", "store",
                                          "result", "send", "exit"}}

DomainAnalysis == [counts : Counts, total : Nat, cached : BOOLEAN]
DomainResult == [domain : Domains, success : BOOLEAN, cached : BOOLEAN,
                 counts : Counts, total : Nat]

-----------------------------------------------------------------------------
(* The batch starts with whatever the process-wide cache holds: nothing,   *)
(* or an analysis stored by an earlier request.  The memory cache holds    *)
(* the object itself, which an earlier hit may have marked cached; Redis   *)
(* holds the JSON that Set marshalled right after buildAnalysis, whose     *)
(* cached field is false.                                                  *)
StoredCachedFlags == IF CacheType = "memory" THEN BOOLEAN ELSE {FALSE}

Init ==
  /\ input \in Inputs
  /\ mainPc = "start"
  /\ next = 1
  /\ wg = 0
  /\ sem = 0
  /\ pc = [w \in Workers |-> "none"]
  /\ analysis = [w \in Workers |-> NoObj]
  /\ result = [w \in Workers |-> FailedResult(CHOOSE d \in Domains : TRUE)]
  /\ resultsChan = <<>>
  /\ closed = FALSE
  /\ closerPc = "none"
  /\ \E held \in SUBSET Domains :
       /\ cache = [d \in Domains |-> IF d \in held THEN d ELSE NoObj]
       /\ \E pre \in [held -> CountChoices], mark \in [held -> StoredCachedFlags] :
            objs = [o \in ObjIds |->
                      IF o \in held
                      THEN [counts |-> pre[o], total |-> SumCounts(pre[o]),
                            cached |-> mark[o]]
                      ELSE NoAnalysis]
  /\ aggPc = "none"
  /\ aggResults = <<>>
  /\ succeeded = 0
  /\ failed = 0
  /\ advCounts = [a \in Advertisers |-> 0]
  /\ response = NoResponse

(* AnalyzeDomains is called.  An empty list gets the zero response at once; *)
(* otherwise the aggregator goroutine is started.                           *)
Start ==
  /\ mainPc = "start"
  /\ IF Len(input) = 0
     THEN /\ response' = [results |-> <<>>, total |-> 0, succeeded |-> 0,
                          failed |-> 0, advertisers |-> <<>>,
                          totalAdvertisers |-> 0]
          /\ mainPc' = "done"
          /\ UNCHANGED aggPc
     ELSE /\ aggPc' = "recv"
          /\ mainPc' = "dispatch"
          /\ UNCHANGED response
  /\ UNCHANGED <<input, next, wg, closerPc, workerVars, chanVars, cacheVars,
                 aggResults, succeeded, failed, advCounts>>

\* Mutant: wg.Add(1) moved into the goroutine, too late for the closer.
DispatchNoAdd ==
  /\ mainPc = "dispatch"
  /\ next <= Len(input)
  /\ pc' = [pc EXCEPT ![next] = "acquire"]
  /\ next' = next + 1
  /\ UNCHANGED <<input, mainPc, closerPc, wg, sem, analysis, result, chanVars,
                 cacheVars, aggVars>>

\* Mutant: a dispatch loop that does not stop at the end of the list.
DispatchUnbounded ==
  /\ mainPc = "dispatch"
  /\ wg' = wg + 1
  /\ pc' = [pc EXCEPT ![next] = "acquire"]
  /\ next' = next + 1
  /\ UNCHANGED <<input, mainPc, closerPc, sem, analysis, result, chanVars,
                 cacheVars, aggVars>>

(* One turn of the dispatch loop: wg.Add(1) and go func(dom).              *)
Dispatch ==
  /\ mainPc = "dispatch"
  /\ next <= Len(input)
  /\ wg' = wg + 1
  /\ pc' = [pc EXCEPT ![next] = "acquire"]
  /\ next' = next + 1
  /\ UNCHANGED <<input, mainPc, closerPc, sem, analysis, result, chanVars,
                 cacheVars, aggVars>>

\* Mutant: the closer goroutine is never started.
DispatchEndNoCloser ==
  /\ mainPc = "dispatch"
  /\ next > Len(input)
  /\ mainPc' = "wait"
  /\ UNCHANGED <<input, next, wg, closerPc, workerVars, chanVars, cacheVars,
                 aggVars>>

(* The loop is over: start the closer goroutine and wait on responseChan.  *)
DispatchEnd ==
  /\ mainPc = "dispatch"
  /\ next > Len(input)
  /\ closerPc' = "wait"
  /\ mainPc' = "wait"
  /\ UNCHANGED <<input, next, wg, workerVars, chanVars, cacheVars, aggVars>>

\* Mutant: an off-by-one admission test on the semaphore.
AcquireOffByOne(w) ==
  /\ pc[w] = "acquire"
  /\ sem <= MaxConcurrent
  /\ sem' = sem + 1
  /\ pc' = [pc EXCEPT ![w] = "lookup"]
  /\ UNCHANGED <<mainVars, analysis, result, chanVars, cacheVars, aggVars>>

(* sem <- struct{}{}: blocks while all MaxConcurrent slots are taken.      *)
Acquire(w) ==
  /\ pc[w] = "acquire"
  /\ sem < MaxConcurrent
  /\ sem' = sem + 1
  /\ pc' = [pc EXCEPT ![w] = "lookup"]
  /\ UNCHANGED <<mainVars, analysis, result, chanVars, cacheVars, aggVars>>

\* Mutant: the Redis path hands out the stored object as the memory cache does.
HitObjectShared(w, o) == o

(* What domainCache.Get returns on a hit: the memory cache's stored        *)
(* *DomainAnalysis itself, or a new DomainAnalysis unmarshalled from the   *)
(* JSON string Redis returns (initializeCache picks the backend).          *)
HitObject(w, o) == IF CacheType = "memory" THEN o ELSE -w

(* AnalyzeDomain: domainCache.Get.  A hit sets Cached = true on the object *)
(* Get returned (cached.Cached = true) and returns it.  A miss, or a Redis *)
(* error other than a missing key, goes on to fetch.                       *)
CacheLookup(w) ==
  /\ pc[w] = "lookup"
  /\ LET o == cache[input[w]]
         h == HitObject(w, o)
     IN \/ /\ o # NoObj
           /\ objs' = [objs EXCEPT ![h] = [objs[o] EXCEPT !.cached = TRUE]]
           /\ analysis' = [analysis EXCEPT ![w] = h]
           /\ pc' = [pc EXCEPT ![w] = "result"]
        \/ /\ o = NoObj \/ CacheType = "redis"
           /\ pc' = [pc EXCEPT ![w] = "fetch"]
           /\ UNCHANGED <<objs, analysis>>
  /\ UNCHANGED <<mainVars, sem, result, chanVars, cache, aggVars>>

(* buildAnalysis: the counts, their sum, and Cached = false.               *)
buildAnalysis(c) == [counts |-> c, total |-> SumCounts(c), cached |-> FALSE]

(* Fetch, then Parse.  Either failure returns a DomainError, which the     *)
(* worker turns into a failed DomainResult.  Success builds the analysis.  *)
FetchAndParse(w) ==
  /\ pc[w] = "fetch"
  /\ \/ /\ result' = [result EXCEPT ![w] = FailedResult(input[w])]
        /\ pc' = [pc EXCEPT ![w] = "send"]
        /\ UNCHANGED <<objs, analysis>>
     \/ \E c \in CountChoices :
          /\ objs' = [objs EXCEPT ![w] = buildAnalysis(c)]
          /\ analysis' = [analysis EXCEPT ![w] = w]
          /\ pc' = [pc EXCEPT ![w] = "store"]
          /\ UNCHANGED result
  /\ UNCHANGED <<mainVars, sem, chanVars, cache, aggVars>>

\* domainCache.Set: the TTL 0 that AnalyzeDomain passes means the default.
SetTTL == CacheTTL
\* MemoryCache.Set (and RedisCache.Set alike) refuse a TTL <= 0.
TTLAccepted(ttl) == ttl > 0

(* AnalyzeDomain: domainCache.Set(ctx, domain, analysis, 0).  Redis may   *)
(* also fail to store.  A stored entry refers to the worker's object: the  *)
(* memory cache keeps the pointer, Redis a JSON snapshot of an object no   *)
(* one writes again.  A failure is logged and ignored.                      *)
CacheStore(w) ==
  /\ pc[w] = "store"
  /\ \/ /\ TTLAccepted(SetTTL)
        /\ cache' = [cache EXCEPT ![input[w]] = w]
     \/ /\ ~TTLAccepted(SetTTL) \/ CacheType = "redis"
        /\ UNCHANGED cache
  /\ pc' = [pc EXCEPT ![w] = "result"]
  /\ UNCHANGED <<mainVars, sem, analysis, result, chanVars, objs, aggVars>>

(* Back in the worker: the DomainResult is built from the returned object, *)
(* reading its Cached field now.                                           *)
MakeResult(w) ==
  /\ pc[w] = "result"
  /\ LET a == objs[analysis[w]] IN
       result' = [result EXCEPT ![w] =
                    [domain |-> input[w], success |-> TRUE,
                     cached |-> a.cached, counts |-> a.counts,
                     total |-> a.total]]
  /\ pc' = [pc EXCEPT ![w] = "send"]
  /\ UNCHANGED <<mainVars, sem, analysis, chanVars, cacheVars, aggVars>>

(* resultsChan <- result: blocks while the buffer is full.                 *)
Send(w) ==
  /\ pc[w] = "send"
  /\ Len(resultsChan) < ResultsCap
  /\ resultsChan' = Append(resultsChan, result[w])
  /\ pc' = [pc EXCEPT ![w] = "exit"]
  /\ UNCHANGED <<mainVars, sem, analysis, result, closed, cacheVars, aggVars>>

(* The deferred calls: cancel(), <-sem, wg.Done().                         *)
Exit(w) ==
  /\ pc[w] = "exit"
  /\ sem' = sem - 1
  /\ wg' = wg - 1
  /\ pc' = [pc EXCEPT ![w] = "done"]
  /\ UNCHANGED <<input, mainPc, next, closerPc, analysis, result, chanVars,
                 cacheVars, aggVars>>

(* The closer goroutine: wg.Wait(), then close(resultsChan).               *)
CloseResults ==
  /\ closerPc = "wait"
  /\ wg = 0
  /\ closed' = TRUE
  /\ closerPc' = "done"
  /\ UNCHANGED <<input, mainPc, next, wg, workerVars, resultsChan, cacheVars,
                 aggVars>>

\* Mutant: advertiserCounts[d] = count instead of += count.
AggregateOneOverwrite ==
  /\ aggPc = "recv"
  /\ resultsChan # <<>>
  /\ LET r == Head(resultsChan) IN
       /\ aggResults' = Append(aggResults, r)
       /\ IF r.success
          THEN /\ succeeded' = succeeded + 1
               /\ advCounts' = [a \in Advertisers |->
                                 IF r.counts[a] > 0 THEN r.counts[a]
                                 ELSE advCounts[a]]
               /\ UNCHANGED failed
          ELSE /\ failed' = failed + 1
               /\ UNCHANGED <<succeeded, advCounts>>
  /\ resultsChan' = Tail(resultsChan)
  /\ UNCHANGED <<mainVars, workerVars, closed, cacheVars, aggPc, response>>

(* One iteration of for result := range resultsChan.                       *)
AggregateOne ==
  /\ aggPc = "recv"
  /\ resultsChan # <<>>
  /\ LET r == Head(resultsChan) IN
       /\ aggResults' = Append(aggResults, r)
       /\ IF r.success
          THEN /\ succeeded' = succeeded + 1
               /\ advCounts' = [a \in Advertisers |-> advCounts[a] + r.counts[a]]
               /\ UNCHANGED failed
          ELSE /\ failed' = failed + 1
               /\ UNCHANGED <<succeeded, advCounts>>
  /\ resultsChan' = Tail(resultsChan)
  /\ UNCHANGED <<mainVars, workerVars, closed, cacheVars, aggPc, response>>

(* The advertiser list of the response: count descending, then domain     *)
(* ascending.  Keys are unique, so the order is total and an entry's      *)
(* place is one more than the number of entries before it.                *)
Before(x, y) == \/ x.count > y.count
                \/ x.count = y.count /\ x.domain < y.domain
SortedAdvertisers(c) ==
  LET S == {[domain |-> a, count |-> c[a]] : a \in {b \in Advertisers : c[b] > 0}}
  IN  [k \in 1..Cardinality(S) |->
         CHOOSE x \in S : Cardinality({y \in S : Before(y, x)}) = k - 1]

\* Mutant: the aggregator stops at the first empty buffer, closed or not.
AggregateFinishUnclosed ==
  /\ aggPc = "recv"
  /\ resultsChan = <<>>
  /\ response' = [results |-> aggResults, total |-> Len(input),
                  succeeded |-> succeeded, failed |-> failed,
                  advertisers |-> SortedAdvertisers(advCounts),
                  totalAdvertisers |-> SumCounts(advCounts)]
  /\ aggPc' = "done"
  /\ mainPc' = "done"
  /\ UNCHANGED <<input, next, wg, closerPc, workerVars, chanVars, cacheVars,
                 aggResults, succeeded, failed, advCounts>>

(* The channel is closed and drained: build the response and send it on   *)
(* responseChan, where the caller is waiting; AnalyzeDomains returns it.  *)
AggregateFinish ==
  /\ aggPc = "recv"
  /\ resultsChan = <<>>
  /\ closed
  /\ response' = [results |-> aggResults, total |-> Len(input),
                  succeeded |-> succeeded, failed |-> failed,
                  advertisers |-> SortedAdvertisers(advCounts),
                  totalAdvertisers |-> SumCounts(advCounts)]
  /\ aggPc' = "done"
  /\ mainPc' = "done"
  /\ UNCHANGED <<input, next, wg, closerPc, workerVars, chanVars, cacheVars,
                 aggResults, succeeded, failed, advCounts>>

(* The cache entry's TTL runs out: Get misses from now on.                 *)
Expire(d) ==
  /\ cache[d] # NoObj
  /\ cache' = [cache EXCEPT ![d] = NoObj]
  /\ UNCHANGED <<mainVars, workerVars, chanVars, objs, aggVars>>

-----------------------------------------------------------------------------
Worker(w) ==
  \/ Acquire(w) \/ CacheLookup(w) \/ FetchAndParse(w) \/ CacheStore(w)
  \/ MakeResult(w) \/ Send(w) \/ Exit(w)

Next ==
  \/ Start \/ Dispatch \/ DispatchEnd
  \/ \E w \in Workers : Worker(w)
  \/ CloseResults \/ AggregateOne \/ AggregateFinish
  \/ \E d \in Domains : Expire(d)

(* Every goroutine that can run eventually runs (Go's scheduler), and a   *)
(* fetch ends: the worker's context times out after 30 seconds.  The      *)
(* cache's expiry is the environment's and gets no fairness.               *)
Fairness ==
  /\ WF_vars(Start) /\ WF_vars(Dispatch) /\ WF_vars(DispatchEnd)
  /\ \A w \in Workers : WF_vars(Worker(w))
  /\ WF_vars(CloseResults) /\ WF_vars(AggregateOne) /\ WF_vars(AggregateFinish)

Spec == Init /\ [][Next]_vars /\ Fairness

-----------------------------------------------------------------------------
TypeOK ==
  /\ input \in Inputs
  /\ mainPc \in {"start", "dispatch", "wait", "done"}
  /\ next \in 1..MaxBatch + 1
  /\ wg \in 0..MaxBatch
  /\ sem \in 0..MaxConcurrent
  /\ pc \in [Workers -> {"none", "acquire", "lookup", "fetch", "store",
                         "result", "send", "exit", "done"}]
  /\ analysis \in [Workers -> ObjIds \cup {NoObj}]
  /\ result \in [Workers -> DomainResult]
  /\ resultsChan \in Seq(DomainResult)
  /\ closed \in BOOLEAN
  /\ closerPc \in {"none", "wait", "done"}
  /\ cache \in [Domains -> ObjIds \cup {NoObj}]
  /\ objs \in [ObjIds -> DomainAnalysis]
  /\ aggPc \in {"none", "recv", "done"}
  /\ aggResults \in Seq(DomainResult)
  /\ succeeded \in Nat /\ failed \in Nat
  /\ advCounts \in Counts

(* Spec: no more than the configured number of domain pipelines run at    *)
(* once (the semaphore of AnalyzeDomains).                                 *)
ConcurrencyBound == Cardinality(InPipeline) <= MaxConcurrent

(* Spec: "a result queue sized to exactly len(domains) so no worker ever   *)
(* blocks attempting to publish its result".                               *)
SendNeverBlocks ==
  \A w \in Workers : pc[w] = "send" => Len(resultsChan) < ResultsCap

(* No worker sends on the closed results channel (a panic in Go): the     *)
(* closer waits for every worker because wg.Add runs before each go.       *)
NoSendOnClosed == \A w \in Workers : pc[w] = "send" => ~closed

(* The number of positions of a sequence holding domain d.                  *)
Occurrences(s, d) == Cardinality({k \in 1..Len(s) : s[k] = d})

(* Spec: batch completeness.  The response holds one result per requested  *)
(* domain, duplicates included, and the summary counts them: total = N,    *)
(* succeeded + failed = N, succeeded = the successful results.             *)
ResponseComplete ==
  mainPc = "done" =>
    /\ response.total = Len(input)
    /\ response.succeeded + response.failed = response.total
    /\ Len(response.results) = Len(input)
    /\ \A d \in Domains :
         Occurrences([k \in 1..Len(response.results) |->
                        response.results[k].domain], d) = Occurrences(input, d)
    /\ response.succeeded =
         Cardinality({k \in 1..Len(response.results) :
                        response.results[k].success})

(* The total of the advertiser counts of the successful results of a       *)
(* results slice.                                                          *)
SumTotals(s) ==
  LET f[k \in 0..Len(s)] ==
        IF k = 0 THEN 0
        ELSE f[k - 1] + (IF s[k].success THEN s[k].total ELSE 0)
  IN  f[Len(s)]

(* Spec: aggregation correctness.  The response's advertiser total, summed *)
(* by the aggregator over its table, equals the sum of the successful      *)
(* results' totalAdvertisers, each summed by buildAnalysis.                *)
AggregateConsistent ==
  mainPc = "done" =>
    response.totalAdvertisers = SumTotals(response.results)

(* Spec: AnalyzeDomains returns: the caller receives the response.         *)
Termination == <>(mainPc = "done")

(* Test: a result freshly fetched (not from the cache) has Cached = false  *)
(* (analysis_test.go).  The worker's own object is object w.               *)
FreshResultNotCached ==
  \A w \in Workers :
    pc[w] \in {"send", "exit", "done"} /\ result[w].success /\ analysis[w] = w
      => ~result[w].cached
=============================================================================
