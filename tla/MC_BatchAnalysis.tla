-------------------------- MODULE MC_BatchAnalysis --------------------------
(* A model of AnalyzeDomains for TLC: two domain names, batches of up to  *)
(* three domains with a duplicate, two advertisers.                        *)
EXTENDS BatchAnalysis, TLC

CONSTANTS d1, d2

MCDomains == {d1, d2}
\* The empty batch, two distinct domains, and a domain twice.
MCInputs == {<<>>, <<d1, d1>>, <<d1, d2>>}
\* Two outcomes of CountAdvertisers: one advertiser once; both, one twice.
MCCountChoices == {[a \in 1..2 |-> IF a = 1 THEN 1 ELSE 0],
                   [a \in 1..2 |-> IF a = 1 THEN 1 ELSE 2]}

\* The state as the rest of a run can observe it: a worker's analysis is
\* read only until it has built its result, and its result only until it
\* has sent it.
StateView ==
  <<input, mainPc, next, wg, sem, pc,
    [w \in Workers |-> IF pc[w] \in {"lookup", "result"} THEN analysis[w] ELSE NoObj],
    [w \in Workers |-> IF pc[w] = "send" THEN result[w] ELSE NoObj],
    resultsChan, closed, closerPc, cache, objs, aggVars>>
=============================================================================
