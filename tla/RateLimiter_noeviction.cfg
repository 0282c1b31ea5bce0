\* No bucket is ever idle past the threshold (IdleTicks beyond the clock's
\* end): the sweep runs but never evicts.  Two goroutines, one of them a
\* Wait caller, race on first use of an IP through Load / LoadOrStore.
CONSTANTS
  p1 = p1
  p2 = p2
  i1 = i1
  i2 = i2
  Procs <- MCProcs
  Waiters <- MCWaiters
  IPs <- MCIPs
  MaxBuckets <- MCMaxBuckets
  GlobalCapacity = 2
  GlobalRate = 1
  PerIPCapacity = 1
  PerIPRate = 1
  TicksPerSecond = 2
  IdleTicks = 5
  MaxTime = 4
SPECIFICATION Spec
SYMMETRY IPSymmetry
VIEW StateView
INVARIANT OneBucketPerIP BurstBound
