\* MAX_CONCURRENT_FETCHES = 0, which config accepts: a semaphore of
\* capacity 0.  The stop at acquire is what the run is about, so deadlock
\* checking is off and Termination is the property.
CONSTANTS
  d1 = d1
  d2 = d2
  Domains <- MCDomains
  Inputs <- MCInputs
  CountChoices <- MCCountChoices
  NumAdvertisers = 2
  MaxBatch = 2
  MaxConcurrent = 0
  CacheType = "memory"
  CacheTTL = 1
SPECIFICATION Spec
PROPERTY Termination
CHECK_DEADLOCK FALSE
