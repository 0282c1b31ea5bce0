# TLA+ models of the ads.txt analysis service

This directory holds TLA+ models of the concurrent parts of the service in
`src/`, TLC configurations that model-check them on small instances, and TLAPS
proofs of their main safety properties for every value of the constants.

## 1. The system (inventory)

The service is a Go HTTP server. It fetches a domain's `ads.txt`, parses it,
counts advertisers, and serves single-domain and batch analyses behind a
two-tier rate limiter. It has these parts:

| Part | Source | State | Operations | Concurrency |
|---|---|---|---|---|
| Token bucket | `internal/domainAnalysis/analysis.go:299-343` (package ratelimit) | tokens, lastRefill (capacity and rate are fixed) | `NewTokenBucket`, `Allow`, `refill` | a mutex per bucket |
| Two-tier limiter | `analysis.go:345-454` | the global bucket; `sync.Map` from IP to bucket | `Allow`, `Wait`, `getOrCreateIPBucket`, `returnGlobalToken`, `cleanupIPBuckets` | one goroutine per request, and a sweep goroutine every 10 minutes |
| Analysis service | `analysis.go:27-291` | the caches it uses; per batch: semaphore, WaitGroup, results channel, aggregator state | `AnalyzeDomain`, `AnalyzeDomains`, `buildAnalysis`, `aggregateResults` | per batch: one goroutine per domain, a closer goroutine and an aggregator goroutine |
| Memory cache | `internal/cache/interface.go` | map of key to (value, expiresAt) | `Get`, `Set`, `Delete`, `cleanupExpired` | an RWMutex, and a cleanup goroutine |
| Domain cache | `internal/cache/domainCache/domain_cache.go` | none (wraps a cache) | `Get` (pointer from memory, copy from Redis), `Set` (TTL 0 means the default) | - |
| Redis cache | `internal/cache/redis_test.go:513-571` | a Redis server | `Get` (raw JSON), `Set` (JSON, TTL > 0), `Delete` | the server |
| Parser | `internal/parser/adstxt.go:1-124` | none | `Parse`, `parseLine`, `isValidDomain`, `CountAdvertisers` | - |
| `main` wiring | `main.go` | - | `initializeCache` picks the cache from `CACHE_TYPE` | - |
| Fetcher, HTTP, config, logger | other files | external or none | I/O | - |

**How the parts interact.** A batch request (at most 100 domains,
`unnamed/part_006:121`) calls `AnalyzeDomains`. It starts the aggregator and
then, for each domain:

- `wg.Add(1)` runs in the loop, then the worker goroutine starts;
- the worker acquires a slot of a `maxConcurrent`-sized semaphore;
- it calls `AnalyzeDomain`: a cache lookup, then on a miss fetch, parse, `buildAnalysis` and a best-effort `Set`;
- it sends a `DomainResult` on a channel buffered to `len(domains)`.

A closer goroutine waits on the WaitGroup and closes the channel. The
aggregator ranges over the channel, counting successes and failures and
summing the advertiser counts. At the close, it sends the response the caller
is waiting for.

The memory cache stores the `*DomainAnalysis` pointer itself. A hit does
`cached.Cached = true` on that shared object (`analysis.go:54`). The Redis
cache stores JSON, and `domainCache.Get` unmarshals a new object on every hit.

The rate limiter is used by the HTTP middleware, one `Allow(ip)` per request:

- take a global token;
- find or create the IP's bucket (`Load`, then `LoadOrStore`);
- take a per-IP token;
- on a per-IP denial, give the global token back, capped at capacity.

The sweep ranges over the IP map. It reads each bucket's `lastRefill` under
the bucket's mutex, releases the mutex, and then deletes keys idle for 30
minutes.

**Hard behaviours.** These are listed as hazards in `PROJECT.json`:

- Allow's take-then-give-back is not atomic.
- First requests of one IP race on the map.
- The sweep decides on a value it read under a mutex it has released.
- Refill truncates.
- In the batch, goroutines interleave, and the WaitGroup, the close and the channel buffer must agree.
- A cache hit writes the shared analysis object.
- A semaphore of size 0 is accepted by config.
- A failed `Set` is ignored.
- The parser's regex and domain check decide, line by line, what is counted.

## 2. Modules

| Module | Models | Actions |
|---|---|---|
| `TokenBucket` | `TokenBucket`, `NewTokenBucket`, `refill`, `Allow`, `min` as operators on a record `[tokens, lastRefill]` | none: each operator is one critical section under the bucket mutex |
| `RateLimiter` | `TwoTierRateLimiter` and its sweep; two instances of `TokenBucket` (global, per-IP) | `CallAllow`/`WaitTick` (global `Allow`), `CallWait`, `WaitCancel`, `LoadIPBucket` (`Load`, and the new bucket on a miss), `StoreIPBucket` (`LoadOrStore`), `IPAllow`, `ReturnGlobalToken`, `SweepStart`/`SweepCheck`/`SweepDelete`/`SweepEnd`, and `Tick` (the clock) |
| `BatchAnalysis` | `AnalyzeDomains`, `AnalyzeDomain`, `buildAnalysis`, `aggregateResults`; the domain cache over the memory or the Redis cache (`CacheType`), with its TTL (`CacheTTL`) | `Start`, `Dispatch`, `DispatchEnd`, worker steps `Acquire`, `CacheLookup`, `FetchAndParse`, `CacheStore`, `MakeResult`, `Send`, `Exit`; `CloseResults`, `AggregateOne`, `AggregateFinish`, `Expire` |
| `AdsTxtParser` | `Parse`, `parseLine`, `isValidDomain`, `CountAdvertisers` as functions; the service's two calls of them | `DoParse` (`AnalyzeDomain`'s `Parse`), `DoCount` (`buildAnalysis`'s `CountAdvertisers`) |
| `MC_RateLimiter`, `MC_BatchAnalysis`, `MC_AdsTxtParser` | model values and small sets for TLC; symmetry and views | - |
| `TokenBucket_proofs`, `RateLimiter_proofs`, `RateLimiterHeap_proofs`, `RateLimiterBurst_proofs`, `BatchAnalysis_proofs`, `BatchAggregate_proofs`, `AdsTxtParser_proofs` | TLAPS proofs | - |

**How the state corresponds to the code.**

- **Time** is a natural number of ticks, with `TicksPerSecond` ticks per second. This keeps the truncation of `int64(elapsed * rate)`.
- **Rate limiter: process steps.** A goroutine's `pc` marks where it is in `Allow`/`Wait`. Steps are cut at every mutex or `sync.Map` operation, because other goroutines run between them.
- **Rate limiter: buckets.** Buckets live in a heap (`buckets`, by id). The map `ipBuckets` holds ids, and each goroutine `held` the id it loaded. So a goroutine can still use a bucket the sweep has removed from the map, as in Go.
- **Rate limiter: history variables.** `admitted` (per-IP admissions this tick), `gBudget` (global capacity plus refills minus admissions) and `gDropped` (give-backs that found the global bucket full) record history. The code never reads them.
- **Batch.** Every goroutine has its pc. The semaphore is a counter, the WaitGroup is `wg`, and the channel is a sequence with `closed`.
- **Memory cache.** The cache holds object ids into a heap `objs` of analyses. A worker's fresh analysis is object `w`; an analysis cached before the batch is object `d`. The cache can therefore hand out the same object that a worker holds, as the code does.
- **Redis cache.** Its stored analysis is a JSON snapshot taken right after `buildAnalysis`, so its `cached` field is false (`StoredCachedFlags`). A hit builds a new object `-w` for worker `w` (`HitObject`). A Redis `Get` or `Set` may fail on the network: the lookup then misses, the store is skipped.
- **Cache TTL.** `AnalyzeDomain` passes TTL 0; `domainCache.Set` replaces it with the default (`SetTTL`); both backends refuse a TTL <= 0 (`TTLAccepted`), and the failure is ignored.
- **Parser.** A line, after `TrimSpace`, is blank, a comment, or a record. A record has the fields `validLineRegex` wants or not, an account type in upper, lower or mixed case, and an exchange domain: a name up to case (`Names`), whether it has capitals, and how many dots trail it. `ValidNames` are the names that pass the label regex and length checks of `isValidDomain`. `Parse` and `CountAdvertisers` are recursive functions over the line sequence.
- **Abstracted pieces.**
  - Fetch and parse: success with a count map from `CountChoices`, or failure.
  - Advertiser names: the numbers `1..NumAdvertisers`, in lexicographic order.
  - TTL expiry and `cleanupExpired`: an `Expire` step at any time.
  - Sorting by count and name: `SortedAdvertisers`.

## 3. Runs and what they show

| Run (cfg) | Expect | Properties | Shows |
|---|---|---|---|
| `RateLimiter_eviction.cfg` | pass | TypeOK, GlobalAdmitBound, GlobalTokensAccounted | Global admissions never exceed capacity plus refills. Every global token is accounted for: `gBudget` equals the tokens in the bucket, plus the tokens goroutines hold between the global `Allow` and the end of `Allow`, plus the give-backs dropped into a full bucket. This holds with eviction and with give-backs racing refills. A denial that keeps its token breaks the equality but not the bound. A drop happens within the bounds: a refill fills the bucket while a goroutine holds a token. |
| `RateLimiter_noeviction.cfg` | pass | OneBucketPerIP, BurstBound | `LoadOrStore` makes racing first requests share one bucket. Without eviction, no IP is admitted more than `PerIPCapacity` in one tick. |
| `RateLimiter_evictionburst.cfg` | violation | BurstBound | The sweep's check-then-Delete evicts a bucket that was just used. The next request gets a full bucket, so one IP exceeds its burst. |
| `BatchAnalysis.cfg` | pass | TypeOK, SendNeverBlocks, NoSendOnClosed, ResponseComplete, AggregateConsistent, Termination | The buffer suffices and the close comes after every send. The response has one result per input occurrence with a consistent summary. The advertiser total equals the sum of per-domain totals. The call returns. |
| `BatchAnalysis_serial.cfg` | pass | ConcurrencyBound | With one slot, workers never overlap in the pipeline. |
| `BatchAnalysis_cachedflag.cfg` | violation | FreshResultNotCached | A duplicate domain in a batch makes a freshly fetched result report `cached: true`. |
| `BatchAnalysis_nosem.cfg` | violation | Termination | `MAX_CONCURRENT_FETCHES=0` hangs `AnalyzeDomains`. |
| `BatchAnalysis_redis.cfg` | pass | FreshResultNotCached | With the Redis cache the same duplicate-domain batches keep every fresh result uncached: each hit gets its own copy. |
| `AdsTxtParser.cfg` | pass | TypeOK, ParsedMatchesReference, CountsMatchReference | `Parse` returns the valid lines in order, lower-cased, and fails exactly when there are none; `CountAdvertisers` counts each advertiser once per line naming it, case ignored. |
| `AdsTxtParser_acctcase.cfg` | violation | AccountTypeCaseInsensitive | A `Direct` line is dropped, though `newParser` says account types are case-insensitive. |

**Bounds.**

- **Rate limiter.**
  - Two goroutines, one of them a `Wait` caller.
  - Two IPs, with symmetry over them.
  - Global capacity 2, per-IP capacity 1, both rates 1 per second, 2 ticks per second.
  - The clock runs to 4 ticks, and the heap has 4 slots (`MaxBuckets >= |IPs| + |Procs|`, assumed).
  - These values make every branch happen: a per-IP denial with its give-back, a give-back into a full global bucket, a refill of a whole token, a half-second that adds nothing, an idle bucket past the threshold (`IdleTicks = 2`), and a concurrent first use of one IP.
- **Batch.**
  - Inputs are `<<>>`, `<<d1,d1>>` and `<<d1,d2>>`. The duplicate-domain batch is the one in which workers share cache objects.
  - The cache starts empty or holding either domain, marked cached or not.
  - There are two count maps.
  - The runs use 2 slots (overlap), 1 slot (serial) and 0 slots (hang).
  - The memory runs use `CacheTTL = 1`; the Redis run uses the same batches, so the comparison with `BatchAnalysis_cachedflag.cfg` is on equal inputs.
  - Length-3 batches were tried and take minutes without reaching new branches of the code.

- **Parser.**
  - Every content of up to 2 lines over every line kind, two names (one valid), 0 to 2 trailing dots, both account words in three cases. Two lines are enough for a duplicate advertiser, an order of two entries, a skipped line between entries and an all-invalid file; the properties relate lines pairwise or singly.

**Fairness** (batch only): weak fairness for every goroutine step. Go's
scheduler runs a runnable goroutine eventually, and a fetch ends because its
context times out after 30 seconds. Cache expiry belongs to the environment and
gets no fairness. The rate limiter runs check only safety.

**Mutants.** Each property of each passing run is broken by a plausible bug in
the mapped code (listed in `PROJECT.json`):

- a results buffer one short;
- `wg.Add` moved into the goroutine;
- a dispatch loop without its bound;
- no closer goroutine;
- an aggregator that does not wait for the close;
- `=` instead of `+=` in the advertiser table;
- `<=` on the semaphore;
- a per-IP denial that returns without giving its global token back;
- a global `Allow` that takes no token;
- `Store` instead of `LoadOrStore`;
- a refill that does not restart its clock;
- a bucket `Allow` that does not check for a token;
- a Redis hit that hands out the stored object;
- `parseLine` without its domain check, a missing `ToLower`, and `=` instead of `++` in `CountAdvertisers`.

## 4. Findings

1. **Sweep race** (`analysis.go:437-441`). The idle check and the `Delete` are not atomic with respect to requests. A request that refreshes the bucket between them is ignored, and a fresh full bucket replaces it. An IP can get up to twice its burst at once.
2. **Cached flag** (`analysis.go:54` and `:173`, memory cache). A cache hit writes `Cached = true` on the object a concurrent worker stored and has not yet read. The fresh result is then reported as cached, and the write is a data race. `analysis_test.go:110` expects a fresh result to have `Cached` false.
3. **Zero semaphore** (`analysis.go:138`, config `getIntEnv`). A semaphore of size 0 is accepted, and then no worker runs and the batch never returns.
4. **Account-type case** (`adstxt.go:27`). The comment says account types are case-insensitive, but the regex accepts only `DIRECT|RESELLER|direct|reseller`. A `Direct` or `Reseller` line is dropped and its advertiser is not counted.

A trailing-dot domain (`google.com.`) is valid and keeps its dot, so it is counted apart from `google.com` (`adstxt.go:114`). Neither the spec nor the tests say which is meant; it is listed as a hazard without a property.

## 5. Proofs

All proofs are checked by `tlapm`.

- **`TokenBucket_proofs`.**
  - `RefillBounded`: `refill` keeps a bucket in `[tokens : 0..Capacity, lastRefill : Int]` for any natural capacity and rate and a positive tick rate.
  - `AllowBounded`: `Allow` keeps that bound and takes exactly one token when it admits.
  - `AllowTyped`: with a clock no earlier than 0, `refill` and `Allow` keep `lastRefill` a natural number.
  - `AllowAvailable`: a refill at the same clock reading right after `Allow` adds nothing. `refill` restarts the clock only when it pays out, so `Allow`'s token comes out of what that tick offers.
- **`RateLimiter_proofs`.** `GlobalTokensAccountedHolds` and `GlobalAdmitBoundHolds` prove `Spec => []GlobalTokensAccounted` and `Spec => []GlobalAdmitBound` for all constants satisfying `ConstantsAssumption`.
  - `GlobalAdmitBound` (`gBudget >= 0`) is not inductive: a goroutine between its global token and its per-IP check holds a token that `gBudget` has not yet paid for.
  - `GlobalTokensAccounted` is the equality `gBudget = globalBucket.tokens + |Holders| + gDropped`. `Holders` are the goroutines holding a global token (pc in load, store, ipAllow, return). The inductive invariant `IInv` is this equality plus the bucket bounds from the `TokenBucket` lemmas. `GlobalAdmitBound` follows from it, because every term on the right is non-negative.
  - Each action preserves it:
    - a global `Allow` moves a token from the bucket to a holder, and a refill raises `gBudget` and `tokens` alike;
    - `IPAllow` either spends the held token (`gBudget - 1`) or keeps holding it until the give-back;
    - the give-back either returns the token to the bucket or, when the bucket is full, adds one to `gDropped`.
- **`RateLimiterHeap_proofs`.** `TypeOKHolds` proves `Spec => []TypeOK` for every number of goroutines and IPs.
  - The one non-trivial conjunct is that a `Load` miss finds a free heap slot for its new bucket. The inductive invariant `THeap` adds that a goroutine holds a bucket exactly while at `store` or `ipAllow`.
  - `FreeNonEmpty` is a counting argument. A goroutine at `load` holds nothing, so the map and the other goroutines refer to at most `|IPs| + |Procs| - 1` slots, fewer than `MaxBuckets`. This uses `IsFiniteSet(IPs)`, added to `ConstantsAssumption` for this proof; the code's IPs are finite at any moment.
  - `OneBucketPerIPHolds` proves `Spec => []OneBucketPerIP` under the hypothesis `MaxTime < IdleTicks`: no bucket can be idle past the cleanup threshold before the clock stops. This is the configuration of `RateLimiter_noeviction.cfg`. With eviction, the sweep can delete a key while a goroutine holds its bucket; finding 1 shows the consequence.
  - Its invariant `OInv` adds two facts. The sweep is never at `delete`. While it scans, its cutoff is negative, so every `lastRefill`, a clock reading, is past it.
  - A `LoadOrStore` that finds the key empty cannot leave anyone at `ipAllow` for that IP with a different bucket: such a goroutine holds a heap bucket, and the map holds it for that IP.
- **`RateLimiterBurst_proofs`.** `BurstBoundHolds` proves `Spec => []BurstBound` under the same hypothesis. Its invariant `BInv` is `OInv` plus three facts:
  - `MapInjective`: two IPs never share a map bucket.
  - `FreshStore`: a bucket built on a `Load` miss is in neither the map nor another goroutine's hand until `LoadOrStore` publishes it.
  - `BurstBudget`: `admitted[i] + refill(bucket of i, now).tokens <= PerIPCapacity`, and `admitted[i] = 0` while `i` has no bucket.
  - The per-IP `Allow` draws only on its own IP's bucket (`OneBucketPerIP`, `MapInjective`). By `AllowAvailable`, an admission raises `admitted` by exactly the token it removes from this tick's offer. A tick resets `admitted`, and any refill offers at most the capacity.
- **`BatchAnalysis_proofs`.** `ConcurrencyBoundHolds` and `NoSendOnClosedHolds` prove `Spec => []ConcurrencyBound` and `Spec => []NoSendOnClosed` for every input set, batch bound and semaphore size.
  - The invariant ties the counters to the goroutines: `sem = |InPipeline|`, `sem <= MaxConcurrent`, and `wg = |Active|` (dispatched and not exited).
  - It also ties the closer to the caller: the closer starts only after dispatch ends; the channel is closed only when the closer is done; and the closer is done only when no worker is active.
  - A worker at `send` is active, so the channel is open. This is the argument for why `wg.Add` before `go` matters.
  - `SendNeverBlocksHolds` proves `Spec => []SendNeverBlocks`. A second invariant `ChanInv` counts results: the buffer and the aggregator's slice are sequences whose lengths add up to `|Sent|`, the workers past their send. A worker at `send` is not in `Sent`, and every started worker is below the dispatch cursor, so `|Sent| + 1 <= len(domains)` and the buffer has a free slot. `Append`/`Tail` facts come from `SequenceTheorems`.
  - `FreshResultNotCachedHolds` proves `Spec => []FreshResultNotCached` under the hypothesis `CacheType = "redis"`. With the memory cache the property fails (finding 2).
  - The invariant `FInv` says a worker's own object `w` is unmarked while the worker is at `store` or `result` with `analysis[w] = w`. With Redis, a hit writes only the copy `-w` it unmarshalled, and only worker `w`'s `buildAnalysis` writes object `w`. The invariant also records the domains of `analysis`, `result` and `objs`, which the `EXCEPT` updates need.
  - `ResponseCompleteHolds` proves `Spec => []ResponseComplete` (batch completeness) for every input set, batch bound and semaphore size, duplicates in the input included. Its invariant `RInv` has four parts:
    - `RShape`: every worker below the dispatch cursor has started; the cursor is past the input once the caller waits; a result built at `send`, `exit` or `done` holds its own worker's domain and a Boolean `success`; the aggregator runs only while the caller dispatches or waits.
    - `RQueue`: some bijection `f` from `1..Len(aggResults) + Len(resultsChan)` onto `Sent` numbers the results sent so far, the slice followed by the buffer, and entry `k` is `result[f[k]]`. A send appends its worker's number (`QueueSend`); a receive moves the head of the buffer to the end of the slice and keeps the order (`QueueRecv`).
    - `RCount`: `succeeded + failed = Len(aggResults)`, and `succeeded` counts the successful entries (`CountRecv`).
    - `ResponseComplete` itself.
  - The aggregator finishes only on a closed, empty channel (`FinishComplete`). Closed means the closer is done, so no worker is active, every worker below the cursor is at `done`, and `Sent = 1..len(domains)`. Empty means `f` is a bijection from the slice's positions onto `1..len(domains)`. Restricted to the entries of a domain `d`, it is a bijection onto the input positions holding `d` (`FS_Bijection`), so each domain occurs equally often in both.
  - `RQueue` is not checked by TLC as written, because its `f` ranges over everything. The TLC check of `RInv` replaced it by the same formula with `f \in [1..QLen -> Sent]`.

- **`BatchAggregate_proofs`.** It proves what the batch's sums compute. `SumCounts` and `SumTotals` are recursive functions over `0..n`, and a proof about them for every input needs induction. The library's induction theorems take an operator parameter, which the installed provers cannot instantiate. The module argues without them:
  - `NatMin`: every non-empty set of naturals has a least element. It is an instance of `WFMin` for `<` on `Nat`, a fact about concrete sets.
  - `IsPS(g, v, n)` says `g` is the prefix-sum table of `v` over `0..n`. `PSExists` and `PSUnique` show that exactly one table exists, each by a least counterexample in a concrete set of indices. So `SumCounts(c)` and `SumTotals(s)` are the last entries of those tables (`SumCountsPS`, `SumTotalsPS`).
  - On top of these: `SumCountsNat`, `SumCountsZero`, `SumCountsAdd` (the sum of a pointwise sum of two count maps), `SumTotalsEmpty` and `SumTotalsAppend`.
  - `AggregateConsistentHolds` proves `Spec => []AggregateConsistent` for every batch, cache backend and state, count map and interleaving. Its invariant `AInv` says:
    - every object in the heap has a total equal to the sum of its counts;
    - the cache refers to heap objects;
    - a worker at `store` or `result` holds an object;
    - a built result is a `DomainResult` whose total is the sum of its counts;
    - the aggregator's table sums to `SumTotals` of its slice.
  - A cache hit only sets `cached`. `buildAnalysis` sums its counts, and `MakeResult` copies an object. `HeadGood` shows that the head of the buffer is some sent worker's built result, via `RQueue`. The aggregator adds that result's counts to its table, which raises the table's sum by the result's total (`SumCountsAdd`, `SumTotalsAppend`). `AggregateFinish` then reports that sum.
  - `TypeOKHolds` proves `Spec => []TypeOK` under the hypothesis `Domains # {}`. A worker's result starts as a placeholder for `CHOOSE d \in Domains : TRUE`, which is a domain only if one exists; the code's domains are strings, so some exist. The extra invariant `TInv` gives the types of `analysis`, `result`, `resultsChan`, `objs` and `aggPc`. `wg` and `sem` are cardinalities of subsets of `1..MaxBatch`.

- **`AdsTxtParser_proofs`.** It proves the parser's three checked properties for every content length, every set of names and every line. `Parse` and `CountAdvertisers` are recursive functions over line positions: `Parse` folds the lines into an accumulator of entries, and `CountAdvertisers` folds the entries into a count map. The argument follows the one of `BatchAggregate_proofs`:
  - `LeastPos` (a least element of a non-empty set of naturals, from `WFMin`).
  - `IsAcc`/`AccUnique`/`AccExists` and `IsCnt`/`CntUnique`/`CntExists`: each fold is the unique table that satisfies its equation, so `Parse(c)` and `CountAdvertisers(s)` are the last entries of those tables (`ParseAcc`, `CountCnt`). `CountEmpty` and `CountAppend` say what counting an empty list and one more entry give.
  - `AccCounts`: after `k` lines, the entry list is a sequence of entries, and counting it gives, for each advertiser, the number of valid lines among the first `k` that name it (`Hits`). This yields `CountsMatchReference`.
  - `ParseOrder`: after `k` lines, the list has one entry per valid line among the first `k` (`Upto`), and the valid line `i` is at the position of its rank, the number of valid lines up to `i`. This yields `ParsedMatchesReference`.
  - The invariant `PInv` is `TypeOK` plus: once parsed, `parsed` is `Parse(content)`; counting happens only after a successful parse; when done, `counts` is `CountAdvertisers(parsed.entries)`.
  - `ParsedMatchesReference` states the order of the entries by rank (`Rank(c, k)`, the number of valid lines up to `k`) and not by `SelectSeq` of the valid lines. Both say the same thing: the `i`-th entry comes from the `i`-th valid line. `tlapm` treats `SelectSeq` as a primitive it cannot expand, so the rank form is the one a proof can use. TLC checks the rank form in `AdsTxtParser.cfg`, and the `parseLine` mutant still breaks it.

Each inductive invariant was first checked by TLC as an invariant of a run.

**Only model-checked.** These properties are checked by TLC and not proved:

- `Termination` (liveness; out of the provers' reach);
- `OneBucketPerIP` and `BurstBound` are proved only for a sweep that finds nothing idle. With eviction, `BurstBound` fails (finding 1), and no run or theorem claims `OneBucketPerIP`;
- `AccountTypeCaseInsensitive` (a violation run);
- the four violations, which are counterexamples and have nothing to prove.

**Not modelled.**

- The Redis client and server themselves; `Delete` of either cache (never called by the service).
- The fetcher, the HTTP handlers and middleware, config, the database logger and the rest of `main` (server start, signals, shutdown). These are I/O, and the models use their effect only as constants and nondeterministic choices.
- The parser's text processing below the line classification: the regexes are abstracted to the cases their branches tell apart.
- The cleanup goroutines' lifetimes.
- The 30-second per-domain timeout, as time.

## 6. Plan for later work

1. A liveness check of `Wait` under fairness of the ticker, and what starves it.
2. An abstract batch specification (a map from input to results, atomically) and `BatchAnalysis` shown to refine it with `INSTANCE ... WITH`.
3. Concurrent single-domain `AnalyzeDomain` calls sharing the cache across requests. These include a request reading `Cached` while another request's hit writes it.
4. The middleware's use of `Allow` and the per-request handler flow.
5. A proof that `BatchAnalysis` refines the abstract batch specification of item 2, once that specification exists.
