\* One semaphore slot: workers must take turns through the pipeline.
CONSTANTS
  d1 = d1
  d2 = d2
  Domains <- MCDomains
  Inputs <- MCInputs
  CountChoices <- MCCountChoices
  NumAdvertisers = 2
  MaxBatch = 2
  MaxConcurrent = 1
  CacheType = "memory"
  CacheTTL = 1
SPECIFICATION Spec
INVARIANT ConcurrencyBound
CHECK_DEADLOCK FALSE
VIEW StateView
