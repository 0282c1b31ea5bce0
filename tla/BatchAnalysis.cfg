\* Batches of length 0 and 2 (one with a duplicate domain) from two domains,
\* two semaphore slots so both workers overlap, a cache that may start with
\* either domain.  A finished batch is a final state: deadlock is not an
\* error here, AnalyzeDomains has returned.
CONSTANTS
  d1 = d1
  d2 = d2
  Domains <- MCDomains
  Inputs <- MCInputs
  CountChoices <- MCCountChoices
  NumAdvertisers = 2
  MaxBatch = 2
  MaxConcurrent = 2
  CacheType = "memory"
  CacheTTL = 1
SPECIFICATION Spec
INVARIANT TypeOK SendNeverBlocks NoSendOnClosed ResponseComplete AggregateConsistent
PROPERTY Termination
CHECK_DEADLOCK FALSE
VIEW StateView
