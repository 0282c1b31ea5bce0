\* The duplicate-domain batch with CACHE_TYPE=redis: a hit unmarshals a new
\* object, so a worker's own analysis is never marked cached by another.
CONSTANTS
  d1 = d1
  d2 = d2
  Domains <- MCDomains
  Inputs <- MCInputs
  CountChoices <- MCCountChoices
  NumAdvertisers = 2
  MaxBatch = 2
  MaxConcurrent = 2
  CacheType = "redis"
  CacheTTL = 1
SPECIFICATION Spec
CHECK_DEADLOCK FALSE
INVARIANT FreshResultNotCached
