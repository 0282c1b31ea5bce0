\* Two goroutines (one calling Allow, one Wait), two IPs, a sweep that
\* evicts a bucket idle for 2 ticks (one second, by which time an idle
\* bucket is full again); the clock runs to 4 ticks of half a second.
CONSTANTS
  p1 = p1
  p2 = p2
  i1 = i1
  i2 = i2
  Procs <- MCProcs
  Waiters <- MCWaiters
  IPs <- MCIPs
  MaxBuckets <- MCMaxBuckets
  GlobalCapacity = 2
  GlobalRate = 1
  PerIPCapacity = 1
  PerIPRate = 1
  TicksPerSecond = 2
  IdleTicks = 2
  MaxTime = 4
SPECIFICATION Spec
SYMMETRY IPSymmetry
VIEW StateView
INVARIANT TypeOK  GlobalTokensAccounted
