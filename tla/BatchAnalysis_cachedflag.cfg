\* The duplicate-domain batch with the memory cache: a hit on the object a
\* fresh worker just stored flips its Cached field before that worker reads it.
CONSTANTS
  d1 = d1
  d2 = d2
  Domains <- MCDomains
  Inputs <- MCInputs
  CountChoices <- MCCountChoices
  NumAdvertisers = 2
  MaxBatch = 2
  MaxConcurrent = 2
  CacheType = "memory"
  CacheTTL = 1
SPECIFICATION Spec
INVARIANT FreshResultNotCached
CHECK_DEADLOCK FALSE
