--------------------------- MODULE MC_RateLimiter ---------------------------
(* Small instances of RateLimiter for TLC.                                 *)
EXTENDS RateLimiter, TLC

CONSTANTS p1, p2, i1, i2

MCProcs == {p1, p2}
MCWaiters == {p2}
MCIPs == {i1, i2}
MCMaxBuckets == 4

\* The IPs are interchangeable: no property or action names one of them.
IPSymmetry == Permutations(MCIPs)

\* States that differ only in what no step will read again are one state:
\* the contents of free heap slots, the IP of an idle goroutine, the sweep's
\* key and cutoff between passes.
StateView ==
  <<now, globalBucket,
    [b \in BucketIds |-> IF b \in FreeIds THEN NoBucket ELSE buckets[b]],
    ipBuckets, pc,
    [p \in Procs |-> IF pc[p] = "idle" THEN NoBucket ELSE clientIP[p]],
    held, sweepPc, toVisit,
    IF sweepPc = "idle" THEN 0 ELSE cutoff,
    IF sweepPc = "delete" THEN sweepKey ELSE NoBucket,
    admitted, gBudget, gDropped>>
=============================================================================
