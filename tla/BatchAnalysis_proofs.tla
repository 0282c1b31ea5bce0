------------------------ MODULE BatchAnalysis_proofs ------------------------
(***************************************************************************)
(* Proofs about AnalyzeDomains, for every batch, every semaphore size and  *)
(* every interleaving of its goroutines.                                   *)
(*                                                                         *)
(* Both properties rest on counting: the semaphore's fill level is the     *)
(* number of workers between sem <- and <-sem, and the WaitGroup counter   *)
(* is the number of workers started and not yet done.  The closer         *)
(* goroutine starts only after the dispatch loop, and closes only when the *)
(* counter is zero, so once the channel is closed no worker is left to    *)
(* send on it.                                                             *)
(***************************************************************************)
EXTENDS BatchAnalysis, FiniteSetTheorems, SequenceTheorems, TLAPS

PcValues == {"none", "acquire", "lookup", "fetch", "store", "result", "send",
             "exit", "done"}
PipelinePcs == {"lookup", "fetch", "store", "result", "send", "exit"}
ActivePcs == {"acquire"} \cup PipelinePcs

\* The workers started by the dispatch loop and not yet through wg.Done().
Active == {w \in Workers : pc[w] \in ActivePcs}

(* The inductive invariant: the semaphore and the WaitGroup count exactly   *)
(* the workers in the stretch of code they guard, no worker beyond the     *)
(* dispatch loop's cursor has started, and the closer runs only after the  *)
(* loop and closes only when every worker is done.                         *)
IInv ==
  /\ input \in Inputs
  /\ next \in Nat \ {0}
  /\ pc \in [Workers -> PcValues]
  /\ \A w \in Workers : w >= next => pc[w] = "none"
  /\ next <= Len(input) + 1
  /\ sem = Cardinality(InPipeline)
  /\ sem <= MaxConcurrent
  /\ wg = Cardinality(Active)
  /\ mainPc \in {"start", "dispatch", "wait", "done"}
  /\ closerPc \in {"none", "wait", "done"}
  /\ closerPc # "none" => mainPc \in {"wait", "done"}
  /\ closed \in BOOLEAN
  /\ closed => closerPc = "done"
  /\ closerPc = "done" => Active = {}

-----------------------------------------------------------------------------
(* The sets the semaphore and the WaitGroup count are finite, and a step  *)
(* that moves no worker in or out of a set leaves it as it was.          *)

LEMMA WorkersFinite == IsFiniteSet(Workers)
BY BatchAssumption, FS_Interval DEF Workers

LEMMA CountsFinite == IsFiniteSet(InPipeline) /\ IsFiniteSet(Active)
<1>1. InPipeline \subseteq Workers /\ Active \subseteq Workers
  BY DEF InPipeline, Active
<1> QED
  BY <1>1, WorkersFinite, FS_Subset

LEMMA CountSame ==
  ASSUME NEW f, NEW g, NEW P,
         \A w \in Workers : (g[w] \in P) <=> (f[w] \in P)
  PROVE  {w \in Workers : g[w] \in P} = {w \in Workers : f[w] \in P}
OBVIOUS

-----------------------------------------------------------------------------
LEMMA InitIInv == Init => IInv
<1> SUFFICES ASSUME Init PROVE IInv
  OBVIOUS
<1>1. /\ input \in Inputs /\ mainPc = "start" /\ next = 1 /\ wg = 0
      /\ sem = 0 /\ pc = [w \in Workers |-> "none"]
      /\ closed = FALSE /\ closerPc = "none"
  BY Zenon DEF Init
<1>2. InPipeline = {} /\ Active = {}
  BY <1>1 DEF InPipeline, Active, ActivePcs, PipelinePcs
<1>3. Cardinality(InPipeline) = 0 /\ Cardinality(Active) = 0
  BY <1>2, FS_EmptySet
<1>4. Len(input) \in Nat
  BY <1>1, BatchAssumption
<1>5. pc \in [Workers -> PcValues]
  BY <1>1 DEF PcValues
<1>6. sem = Cardinality(InPipeline) /\ wg = Cardinality(Active)
  BY <1>1, <1>3
<1>7. sem <= MaxConcurrent /\ next <= Len(input) + 1
  BY <1>1, <1>4, BatchAssumption
<1>8. \A w \in Workers : w >= next => pc[w] = "none"
  BY <1>1
<1>9. next \in Nat \ {0}
  BY <1>1
<1> QED
  BY <1>1, <1>2, <1>5, <1>6, <1>7, <1>8, <1>9, Zenon DEF IInv

(* A step inside the pipeline changes no count.                            *)
LEMMA PipelineMove ==
  ASSUME IInv, NEW w \in Workers, NEW v \in PipelinePcs,
         pc[w] \in PipelinePcs,
         pc' = [pc EXCEPT ![w] = v],
         UNCHANGED <<input, next, sem, wg, mainPc, closerPc, closed>>
  PROVE  IInv'
<1>1. \A x \in Workers : (pc'[x] \in PipelinePcs) <=> (pc[x] \in PipelinePcs)
  OBVIOUS
<1>2. InPipeline' = InPipeline
  BY <1>1, CountSame DEF InPipeline, PipelinePcs
<1>3. \A x \in Workers : (pc'[x] \in ActivePcs) <=> (pc[x] \in ActivePcs)
  BY DEF ActivePcs
<1>4. Active' = Active
  BY <1>3, CountSame DEF Active
<1> QED
  BY <1>2, <1>4 DEF IInv, PcValues, PipelinePcs

(* A worker step moves the worker between two places of the pipeline, or  *)
(* into or out of it, and leaves every other worker where it is.          *)
LEMMA WorkerIInv ==
  ASSUME IInv, NEW w \in Workers, Worker(w)
  PROVE  IInv'
<1> USE DEF IInv
<1>0. Cardinality(InPipeline) \in Nat /\ Cardinality(Active) \in Nat
  BY CountsFinite, FS_CardinalityType
<1>1. CASE Acquire(w)
  <2>1. pc[w] = "acquire" /\ pc' = [pc EXCEPT ![w] = "lookup"]
    BY <1>1 DEF Acquire
  <2>2. InPipeline' = InPipeline \cup {w} /\ w \notin InPipeline
    BY <2>1 DEF InPipeline, PipelinePcs
  <2>3. Cardinality(InPipeline') = Cardinality(InPipeline) + 1
    BY <2>2, CountsFinite, FS_AddElement
  <2>4. Active' = Active
    BY <2>1 DEF Active, ActivePcs, PipelinePcs
  <2>5. UNCHANGED <<input, next, wg, mainPc, closerPc, closed>>
    BY <1>1 DEF Acquire, mainVars, chanVars
  <2>6. sem' = Cardinality(InPipeline') /\ sem' <= MaxConcurrent
    BY <1>0, <1>1, <2>3, BatchAssumption DEF Acquire
  <2>7. pc' \in [Workers -> PcValues]
    BY <2>1 DEF PcValues
  <2>8. \A x \in Workers : x >= next' => pc'[x] = "none"
    BY <2>1, <2>5
  <2> QED
    BY <2>4, <2>5, <2>6, <2>7, <2>8
<1>2. CASE Exit(w)
  <2>1. pc[w] = "exit" /\ pc' = [pc EXCEPT ![w] = "done"]
    BY <1>2 DEF Exit
  <2>2. /\ InPipeline' = InPipeline \ {w} /\ w \in InPipeline
        /\ Active' = Active \ {w} /\ w \in Active
    BY <2>1 DEF InPipeline, PipelinePcs, Active, ActivePcs
  <2>3. /\ Cardinality(InPipeline') = Cardinality(InPipeline) - 1
        /\ Cardinality(Active') = Cardinality(Active) - 1
    BY <2>2, CountsFinite, FS_RemoveElement
  <2>4. Cardinality(InPipeline) \in Nat /\ Cardinality(Active) \in Nat
    BY CountsFinite, FS_CardinalityType
  <2>5. Active' = {} \/ closerPc # "done"
    BY <2>2
  <2>6. UNCHANGED <<input, next, mainPc, closerPc, closed>>
    BY <1>2 DEF Exit, chanVars
  <2>7. sem' = Cardinality(InPipeline') /\ wg' = Cardinality(Active')
    BY <1>0, <1>2, <2>3 DEF Exit
  <2>8. sem' <= MaxConcurrent
    BY <1>0, <1>2, BatchAssumption DEF Exit
  <2>9. pc' \in [Workers -> PcValues]
    BY <2>1 DEF PcValues
  <2>10. \A x \in Workers : x >= next' => pc'[x] = "none"
    BY <2>1, <2>6
  <2> QED
    BY <2>5, <2>6, <2>7, <2>8, <2>9, <2>10
<1>3. CASE CacheLookup(w)
  <2>1. UNCHANGED <<input, next, sem, wg, mainPc, closerPc, closed>>
    BY <1>3, Zenon DEF CacheLookup, mainVars, workerVars, chanVars
  <2>2. pc[w] \in PipelinePcs
    BY <1>3, Zenon DEF CacheLookup, PipelinePcs
  <2>3. pc' = [pc EXCEPT ![w] = "result"] \/ pc' = [pc EXCEPT ![w] = "fetch"]
    BY <1>3, Zenon DEF CacheLookup
  <2> QED
    BY <2>1, <2>2, <2>3, PipelineMove DEF PipelinePcs
<1>4. CASE FetchAndParse(w)
  <2>1. UNCHANGED <<input, next, sem, wg, mainPc, closerPc, closed>>
    BY <1>4, Zenon DEF FetchAndParse, mainVars, workerVars, chanVars
  <2>2. pc[w] \in PipelinePcs
    BY <1>4, Zenon DEF FetchAndParse, PipelinePcs
  <2>3. pc' = [pc EXCEPT ![w] = "send"] \/ pc' = [pc EXCEPT ![w] = "store"]
    BY <1>4, Zenon DEF FetchAndParse
  <2> QED
    BY <2>1, <2>2, <2>3, PipelineMove DEF PipelinePcs
<1>5. CASE CacheStore(w)
  <2>1. UNCHANGED <<input, next, sem, wg, mainPc, closerPc, closed>>
    BY <1>5, Zenon DEF CacheStore, mainVars, workerVars, chanVars
  <2>2. pc[w] \in PipelinePcs
    BY <1>5, Zenon DEF CacheStore, PipelinePcs
  <2>3. pc' = [pc EXCEPT ![w] = "result"]
    BY <1>5, Zenon DEF CacheStore
  <2> QED
    BY <2>1, <2>2, <2>3, PipelineMove DEF PipelinePcs
<1>6. CASE MakeResult(w)
  <2>1. UNCHANGED <<input, next, sem, wg, mainPc, closerPc, closed>>
    BY <1>6, Zenon DEF MakeResult, mainVars, workerVars, chanVars
  <2>2. pc[w] \in PipelinePcs
    BY <1>6, Zenon DEF MakeResult, PipelinePcs
  <2>3. pc' = [pc EXCEPT ![w] = "send"]
    BY <1>6, Zenon DEF MakeResult
  <2> QED
    BY <2>1, <2>2, <2>3, PipelineMove DEF PipelinePcs
<1>7. CASE Send(w)
  <2>1. UNCHANGED <<input, next, sem, wg, mainPc, closerPc, closed>>
    BY <1>7, Zenon DEF Send, mainVars, workerVars, chanVars
  <2>2. pc[w] \in PipelinePcs
    BY <1>7, Zenon DEF Send, PipelinePcs
  <2>3. pc' = [pc EXCEPT ![w] = "exit"]
    BY <1>7, Zenon DEF Send
  <2> QED
    BY <2>1, <2>2, <2>3, PipelineMove DEF PipelinePcs
<1> QED
  BY <1>1, <1>2, <1>3, <1>4, <1>5, <1>6, <1>7 DEF Worker

(* The dispatch loop starts worker next, which no one has started: the     *)
(* WaitGroup counts it from wg.Add(1) on.                                  *)
LEMMA DispatchIInv ==
  ASSUME IInv, Dispatch
  PROVE  IInv'
<1> USE DEF IInv
<1>1. next \in Workers /\ pc[next] = "none"
  BY BatchAssumption DEF Dispatch, Workers
<1>2. pc' = [pc EXCEPT ![next] = "acquire"] /\ next' = next + 1
      /\ wg' = wg + 1
      /\ UNCHANGED <<input, sem, mainPc, closerPc, closed>>
  BY DEF Dispatch, chanVars
<1>3. Active' = Active \cup {next} /\ next \notin Active
  BY <1>1, <1>2 DEF Active, ActivePcs, PipelinePcs
<1>4. Cardinality(Active') = Cardinality(Active) + 1
  BY <1>3, CountsFinite, FS_AddElement
<1>5. InPipeline' = InPipeline
  BY <1>1, <1>2 DEF InPipeline
<1>6. closerPc = "none"
  BY DEF Dispatch
<1>7. next <= Len(input)
  BY DEF Dispatch
<1>8. pc' \in [Workers -> PcValues]
  BY <1>1, <1>2 DEF PcValues
<1>9. \A x \in Workers : x >= next' => pc'[x] = "none"
  BY <1>1, <1>2
<1> QED
  BY <1>2, <1>4, <1>5, <1>6, <1>7, <1>8, <1>9

(* The closer closes the channel only once the WaitGroup is at zero, that  *)
(* is, once no worker is left between wg.Add and wg.Done.                  *)
LEMMA CloseIInv ==
  ASSUME IInv, CloseResults
  PROVE  IInv'
<1> USE DEF IInv
<1>1. Cardinality(Active) = 0
  BY DEF CloseResults
<1>2. Active = {}
  BY <1>1, CountsFinite, FS_EmptySet
<1>3. closed' = TRUE /\ closerPc' = "done"
      /\ UNCHANGED <<input, next, wg, sem, pc, mainPc>>
  BY DEF CloseResults, workerVars
<1>4. Active' = Active /\ InPipeline' = InPipeline
  BY <1>3 DEF Active, InPipeline
<1>5. mainPc \in {"wait", "done"}
  BY DEF CloseResults
<1> QED
  BY <1>2, <1>3, <1>4, <1>5

(* The steps of the caller, the aggregator and the cache: no worker moves, *)
(* and the closer is started only after the dispatch loop.                 *)
LEMMA OtherIInv ==
  ASSUME IInv,
         \/ Start \/ DispatchEnd \/ AggregateOne \/ AggregateFinish
         \/ \E d \in Domains : Expire(d)
  PROVE  IInv'
<1> USE DEF IInv
<1>1. UNCHANGED <<input, next, wg, sem, pc, closed>>
  BY Zenon DEF Start, DispatchEnd, AggregateOne, AggregateFinish, Expire,
               mainVars, workerVars, chanVars
<1>2. Active' = Active /\ InPipeline' = InPipeline
  BY <1>1 DEF Active, InPipeline
<1>3. /\ mainPc' \in {"start", "dispatch", "wait", "done"}
      /\ closerPc' \in {"none", "wait", "done"}
      /\ closerPc' # "none" => mainPc' \in {"wait", "done"}
      /\ closerPc' = "done" => closerPc = "done"
      /\ closerPc' = closerPc \/ ~closed
  <2>1. CASE Start
    BY <2>1 DEF Start
  <2>2. CASE DispatchEnd
    BY <2>2 DEF DispatchEnd
  <2>3. CASE AggregateOne
    BY <2>3 DEF AggregateOne, mainVars
  <2>4. CASE AggregateFinish
    BY <2>4 DEF AggregateFinish
  <2>5. CASE \E d \in Domains : Expire(d)
    BY <2>5 DEF Expire, mainVars
  <2> QED
    BY <2>1, <2>2, <2>3, <2>4, <2>5
<1> QED
  BY <1>1, <1>2, <1>3

LEMMA NextIInv == IInv /\ [Next]_vars => IInv'
<1> SUFFICES ASSUME IInv, [Next]_vars PROVE IInv'
  OBVIOUS
<1>1. CASE \E w \in Workers : Worker(w)
  BY <1>1, WorkerIInv
<1>2. CASE Dispatch
  BY <1>2, DispatchIInv
<1>3. CASE CloseResults
  BY <1>3, CloseIInv
<1>4. CASE \/ Start \/ DispatchEnd \/ AggregateOne \/ AggregateFinish
           \/ \E d \in Domains : Expire(d)
  BY <1>4, OtherIInv
<1>5. CASE UNCHANGED vars
  <2>1. UNCHANGED <<input, next, wg, sem, pc, closed, mainPc, closerPc>>
    BY <1>5 DEF vars, mainVars, workerVars, chanVars
  <2>2. Active' = Active /\ InPipeline' = InPipeline
    BY <2>1 DEF Active, InPipeline
  <2> QED
    BY <2>1, <2>2 DEF IInv
<1> QED
  BY <1>1, <1>2, <1>3, <1>4, <1>5 DEF Next

-----------------------------------------------------------------------------
(* The results channel's buffer.  Every worker that has sent has put one  *)
(* result in the buffer, and the aggregator has moved some of them to its *)
(* results slice, so the buffer and the slice together hold exactly one   *)
(* result per worker past its send.  No more than len(domains) workers    *)
(* exist, so a worker about to send finds a free slot.                    *)

SentPcs == {"exit", "done"}
\* The workers past resultsChan <- result.
Sent == {w \in Workers : pc[w] \in SentPcs}
\* A finite sequence of some values.
IsSeq(s) == \E S : s \in Seq(S)

ChanInv ==
  /\ IsSeq(resultsChan)
  /\ IsSeq(aggResults)
  /\ Len(resultsChan) + Len(aggResults) = Cardinality(Sent)

LEMMA SeqLen ==
  ASSUME NEW s, IsSeq(s)
  PROVE  Len(s) \in Nat
BY LenProperties DEF IsSeq

LEMMA AppendSeq ==
  ASSUME NEW s, IsSeq(s), NEW x
  PROVE  IsSeq(Append(s, x)) /\ Len(Append(s, x)) = Len(s) + 1
<1>1. PICK S : s \in Seq(S)
  BY DEF IsSeq
<1>2. s \in Seq(S \cup {x})
  BY <1>1, SeqMonotonic
<1>3. Append(s, x) \in Seq(S \cup {x}) /\ Len(Append(s, x)) = Len(s) + 1
  BY <1>2, AppendProperties
<1> QED
  BY <1>3 DEF IsSeq

LEMMA TailSeq ==
  ASSUME NEW s, IsSeq(s), s # << >>
  PROVE  IsSeq(Tail(s)) /\ Len(Tail(s)) = Len(s) - 1
<1>1. PICK S : s \in Seq(S)
  BY DEF IsSeq
<1> QED
  BY <1>1, HeadTailProperties DEF IsSeq

LEMMA SentFinite == IsFiniteSet(Sent) /\ Cardinality(Sent) \in Nat
<1>1. Sent \subseteq Workers
  BY DEF Sent
<1> QED
  BY <1>1, WorkersFinite, FS_Subset, FS_CardinalityType

LEMMA InitChanInv == Init => ChanInv
<1> SUFFICES ASSUME Init PROVE ChanInv
  OBVIOUS
<1>1. resultsChan = << >> /\ aggResults = << >>
      /\ pc = [w \in Workers |-> "none"]
  BY DEF Init
<1>2. Sent = {}
  BY <1>1 DEF Sent, SentPcs
<1>3. IsSeq(<< >>) /\ Len(<< >>) = 0
  BY EmptySeq DEF IsSeq
<1> QED
  BY <1>1, <1>2, <1>3, FS_EmptySet DEF ChanInv

(* A step that moves one worker, but not across its send, and leaves the  *)
(* buffer and the slice alone.                                             *)
LEMMA ChanQuiet ==
  ASSUME ChanInv, NEW w \in Workers, NEW v,
         pc \in [Workers -> PcValues],
         pc' = [pc EXCEPT ![w] = v],
         (pc[w] \in SentPcs) <=> (v \in SentPcs),
         UNCHANGED <<resultsChan, aggResults>>
  PROVE  ChanInv'
<1>1. \A x \in Workers : (pc'[x] \in SentPcs) <=> (pc[x] \in SentPcs)
  OBVIOUS
<1>2. Sent' = Sent
  BY <1>1, CountSame DEF Sent
<1> QED
  BY <1>2 DEF ChanInv

LEMMA ChanStill ==
  ASSUME ChanInv, UNCHANGED <<pc, resultsChan, aggResults>>
  PROVE  ChanInv'
BY DEF ChanInv, Sent

LEMMA NextChanInv == IInv /\ ChanInv /\ [Next]_vars => ChanInv'
<1> SUFFICES ASSUME IInv, ChanInv, [Next]_vars PROVE ChanInv'
  OBVIOUS
<1>0. pc \in [Workers -> PcValues]
  BY DEF IInv
<1>1. CASE \E w \in Workers : Worker(w)
  <2>1. PICK w \in Workers : Worker(w)
    BY <1>1
  <2>2. CASE Acquire(w)
    BY <2>2, <1>0, ChanQuiet DEF Acquire, SentPcs, chanVars, aggVars
  <2>3. CASE CacheLookup(w)
    BY <2>3, <1>0, ChanQuiet DEF CacheLookup, SentPcs, chanVars, aggVars
  <2>4. CASE FetchAndParse(w)
    BY <2>4, <1>0, ChanQuiet DEF FetchAndParse, SentPcs, chanVars, aggVars
  <2>5. CASE CacheStore(w)
    BY <2>5, <1>0, ChanQuiet DEF CacheStore, SentPcs, chanVars, aggVars
  <2>6. CASE MakeResult(w)
    BY <2>6, <1>0, ChanQuiet DEF MakeResult, SentPcs, chanVars, aggVars
  <2>7. CASE Exit(w)
    BY <2>7, <1>0, ChanQuiet DEF Exit, SentPcs, chanVars, aggVars
  <2>8. CASE Send(w)
    <3>1. /\ pc[w] = "send" /\ pc' = [pc EXCEPT ![w] = "exit"]
          /\ resultsChan' = Append(resultsChan, result[w])
          /\ UNCHANGED aggResults
      BY <2>8 DEF Send, aggVars
    <3>2. Sent' = Sent \cup {w} /\ w \notin Sent
      BY <3>1, <1>0 DEF Sent, SentPcs
    <3>3. Cardinality(Sent') = Cardinality(Sent) + 1
      BY <3>2, SentFinite, FS_AddElement
    <3>4. IsSeq(resultsChan')
          /\ Len(resultsChan') = Len(resultsChan) + 1
      BY <3>1, AppendSeq DEF ChanInv
    <3> QED
      BY <3>1, <3>3, <3>4 DEF ChanInv
  <2> QED
    BY <2>1, <2>2, <2>3, <2>4, <2>5, <2>6, <2>7, <2>8 DEF Worker
<1>2. CASE Dispatch
  <2>1. next \in Workers /\ pc[next] = "none"
    BY <1>2, BatchAssumption DEF Dispatch, Workers, IInv
  <2> QED
    BY <1>2, <1>0, <2>1, ChanQuiet DEF Dispatch, SentPcs, chanVars, aggVars
<1>3. CASE AggregateOne
  <2>1. /\ resultsChan # << >>
        /\ resultsChan' = Tail(resultsChan)
        /\ aggResults' = Append(aggResults, Head(resultsChan))
        /\ UNCHANGED pc
    BY <1>3 DEF AggregateOne, workerVars
  <2>2. IsSeq(resultsChan') /\ Len(resultsChan') = Len(resultsChan) - 1
    BY <2>1, TailSeq DEF ChanInv
  <2>3. IsSeq(aggResults') /\ Len(aggResults') = Len(aggResults) + 1
    BY <2>1, AppendSeq DEF ChanInv
  <2>4. Sent' = Sent
    BY <2>1 DEF Sent
  <2>5. Len(resultsChan) \in Nat /\ Len(aggResults) \in Nat
    BY SeqLen DEF ChanInv
  <2> QED
    BY <2>2, <2>3, <2>4, <2>5 DEF ChanInv
<1>4. CASE \/ CloseResults \/ Start \/ DispatchEnd \/ AggregateFinish
           \/ \E d \in Domains : Expire(d)
  <2>1. UNCHANGED <<pc, resultsChan, aggResults>>
    BY <1>4, Zenon DEF CloseResults, Start, DispatchEnd, AggregateFinish,
                       Expire, workerVars, chanVars, aggVars
  <2> QED
    BY <2>1, ChanStill
<1>5. CASE UNCHANGED vars
  BY <1>5, ChanStill DEF vars, workerVars, chanVars, aggVars
<1> QED
  BY <1>1, <1>2, <1>3, <1>4, <1>5 DEF Next

-----------------------------------------------------------------------------
(* The inductive invariant holds in every reachable state of AnalyzeDomains. *)
THEOREM Invariance == Spec => []IInv
BY InitIInv, NextIInv, PTL DEF Spec

(* The semaphore of AnalyzeDomains works: for every batch and every value  *)
(* of MAX_CONCURRENT_FETCHES, no more than that many workers are ever      *)
(* between sem <- struct{}{} and <-sem at once.                             *)
THEOREM ConcurrencyBoundHolds == Spec => []ConcurrencyBound
<1>1. IInv => ConcurrencyBound
  BY DEF IInv, ConcurrencyBound
<1> QED
  BY Invariance, <1>1, PTL

(* No worker of AnalyzeDomains ever sends on the closed results channel:   *)
(* wg.Add(1) runs before each go statement, so the closer goroutine's      *)
(* wg.Wait() returns only when every worker has sent.                      *)
THEOREM NoSendOnClosedHolds == Spec => []NoSendOnClosed
<1>1. IInv => NoSendOnClosed
  <2> SUFFICES ASSUME IInv, NEW w \in Workers, pc[w] = "send"
               PROVE  ~closed
    BY DEF NoSendOnClosed
  <2>1. w \in Active
    BY DEF IInv, Active, ActivePcs, PipelinePcs
  <2> QED
    BY <2>1 DEF IInv
<1> QED
  BY Invariance, <1>1, PTL

(* The results channel of AnalyzeDomains, buffered to len(domains), never *)
(* makes a worker wait: for every batch and every interleaving, a worker  *)
(* at resultsChan <- result finds a free slot in the buffer.               *)
THEOREM SendNeverBlocksHolds == Spec => []SendNeverBlocks
<1>1. IInv /\ ChanInv => SendNeverBlocks
  <2> SUFFICES ASSUME IInv, ChanInv, NEW w \in Workers, pc[w] = "send"
               PROVE  Len(resultsChan) < ResultsCap
    BY DEF SendNeverBlocks
  <2>1. Len(input) \in Nat
    BY BatchAssumption DEF IInv
  <2>2. Sent \cup {w} \subseteq 1..Len(input)
    BY BatchAssumption DEF IInv, Sent, SentPcs, Workers
  <2>3. w \notin Sent
    BY DEF Sent, SentPcs
  <2>4. Cardinality(Sent \cup {w}) = Cardinality(Sent) + 1
    BY <2>3, SentFinite, FS_AddElement
  <2>5. Cardinality(Sent \cup {w}) <= Len(input)
    <3>1. IsFiniteSet(1..Len(input)) /\ Cardinality(1..Len(input)) = Len(input)
      <4>1. /\ IsFiniteSet(1..Len(input))
            /\ Cardinality(1..Len(input)) =
                 IF 1 > Len(input) THEN 0 ELSE Len(input) - 1 + 1
        BY <2>1, FS_Interval
      <4> QED
        BY <2>1, <4>1, SMT
    <3> QED
      BY <2>2, <3>1, FS_Subset
  <2>6. Len(resultsChan) \in Nat /\ Len(aggResults) \in Nat
    BY SeqLen DEF ChanInv
  <2> QED
    BY <2>4, <2>5, <2>6, SentFinite DEF ChanInv, ResultsCap
<1>2. Spec => [](IInv /\ ChanInv)
  BY InitIInv, InitChanInv, NextIInv, NextChanInv, PTL DEF Spec
<1> QED
  BY <1>1, <1>2, PTL
-----------------------------------------------------------------------------
(* With the Redis cache, a hit unmarshals a new object (-w for worker w),  *)
(* so the only writer of a worker's own object w is that worker's         *)
(* buildAnalysis.  The inductive invariant: between buildAnalysis and the *)
(* DomainResult, a worker's own object is still unmarked.                  *)
FreshPcs == {"store", "result"}

\* Worker w's own object is unmarked while w is between build and result.
FreshObj(w) == pc[w] \in FreshPcs /\ analysis[w] = w => objs[w].cached = FALSE

\* FreshResultNotCached for one worker.
FreshRes(w) ==
  pc[w] \in {"send", "exit", "done"} /\ result[w].success /\ analysis[w] = w
    => ~result[w].cached

FInv ==
  /\ DOMAIN analysis = Workers
  /\ DOMAIN result = Workers
  /\ DOMAIN objs = ObjIds
  /\ \A w \in Workers : FreshObj(w) /\ FreshRes(w)

LEMMA InitFInv == Init => FInv
BY DEF Init, FInv, FreshObj, FreshRes, NoObj, Workers

(* A worker's step touches its own pc, analysis and result, its own        *)
(* object on a build, and with Redis only its own copy -w on a hit.         *)
LEMMA WorkerFInv ==
  ASSUME CacheType = "redis", IInv, FInv, NEW w \in Workers, Worker(w)
  PROVE  FInv'
<1>1. /\ pc \in [Workers -> PcValues]
      /\ -w \notin Workers
  BY DEF IInv, Workers
<1>2. /\ \E x : pc' = [pc EXCEPT ![w] = x]
      /\ \/ \E x : analysis' = [analysis EXCEPT ![w] = x]
         \/ analysis' = analysis
      /\ \/ \E x : result' = [result EXCEPT ![w] = x]
         \/ result' = result
      /\ \/ \E x, o : objs' = [objs EXCEPT ![o] = x] /\ o \in {w, -w}
         \/ objs' = objs
  BY DEF Worker, Acquire, CacheLookup, HitObject, FetchAndParse, CacheStore,
         MakeResult, Send, Exit, workerVars, cacheVars
<1>3. /\ DOMAIN analysis' = Workers /\ DOMAIN result' = Workers
      /\ DOMAIN objs' = ObjIds
  BY <1>2 DEF FInv
<1>4. ASSUME NEW v \in Workers \ {w}
      PROVE  FreshObj(v)' /\ FreshRes(v)'
  <2>1. /\ pc'[v] = pc[v] /\ analysis'[v] = analysis[v]
        /\ result'[v] = result[v] /\ objs'[v] = objs[v]
    BY <1>1, <1>2 DEF FInv, ObjIds
  <2> QED
    BY <2>1 DEF FInv, FreshObj, FreshRes
<1>5. FreshObj(w)' /\ FreshRes(w)'
  <2>1. CASE Acquire(w)
    BY <2>1 DEF Acquire, FreshObj, FreshRes, FreshPcs
  <2>2. CASE Send(w) \/ Exit(w)
    BY <1>1, <2>2 DEF Send, Exit, FInv, FreshObj, FreshRes, FreshPcs
  <2>3. CASE CacheLookup(w)
    BY <1>1, <2>3 DEF CacheLookup, HitObject, FInv, FreshObj, FreshRes,
                      FreshPcs
  <2>4. CASE FetchAndParse(w)
    BY <1>1, <2>4 DEF FetchAndParse, buildAnalysis, FInv, FreshObj, FreshRes,
                FreshPcs, FailedResult, ObjIds
  <2>5. CASE CacheStore(w)
    BY <2>5 DEF CacheStore, FInv, FreshObj, FreshRes, FreshPcs
  <2>6. CASE MakeResult(w)
    <3>1. analysis[w] = w => objs[w].cached = FALSE
      BY <1>1, <2>6 DEF MakeResult, FInv, FreshObj, FreshPcs
    <3> QED
      BY <1>1, <2>6, <3>1 DEF MakeResult, FInv, FreshObj, FreshRes, FreshPcs
  <2> QED
    BY <2>1, <2>2, <2>3, <2>4, <2>5, <2>6 DEF Worker
<1> QED
  BY <1>3, <1>4, <1>5 DEF FInv

LEMMA NextFInv ==
  ASSUME CacheType = "redis"
  PROVE  IInv /\ FInv /\ [Next]_vars => FInv'
<1> SUFFICES ASSUME IInv, FInv, [Next]_vars PROVE FInv'
  OBVIOUS
<1>1. CASE \E w \in Workers : Worker(w)
  BY <1>1, WorkerFInv
<1>2. CASE Dispatch
  BY <1>2 DEF Dispatch, IInv, FInv, FreshObj, FreshRes, FreshPcs, workerVars,
              cacheVars
<1>3. CASE Start \/ DispatchEnd \/ CloseResults \/ AggregateOne
           \/ AggregateFinish \/ (\E d \in Domains : Expire(d))
           \/ UNCHANGED vars
  <2>1. UNCHANGED <<pc, analysis, result, objs>>
    BY <1>3 DEF Start, DispatchEnd, CloseResults, AggregateOne,
                AggregateFinish, Expire, vars, workerVars, cacheVars
  <2> QED
    BY <2>1 DEF FInv, FreshObj, FreshRes
<1> QED
  BY <1>1, <1>2, <1>3 DEF Next

(* With CACHE_TYPE=redis, a result a worker built from its own fetch is   *)
(* never reported as cached (analysis_test.go), for every batch, duplicates *)
(* included: a hit by a worker on the same domain writes Cached = true on *)
(* the object it unmarshalled, never on the one the fetching worker will   *)
(* read.  With the memory cache this fails (run batch_cached_flag).        *)
THEOREM FreshResultNotCachedHolds ==
  ASSUME CacheType = "redis"
  PROVE  Spec => []FreshResultNotCached
<1>1. Init => IInv /\ FInv
  BY InitIInv, InitFInv
<1>2. IInv /\ FInv /\ [Next]_vars => IInv' /\ FInv'
  BY NextIInv, NextFInv
<1>3. FInv => FreshResultNotCached
  BY DEF FInv, FreshRes, FreshResultNotCached
<1> QED
  BY <1>1, <1>2, <1>3, PTL DEF Spec
-----------------------------------------------------------------------------
(* Batch completeness.  The aggregator's slice followed by the channel's  *)
(* buffer holds the results of the workers past their send, one each, in *)
(* the order they were sent; a witness f numbers them.  When the closed    *)
(* channel is drained every worker is done, so the slice is one result    *)
(* per input position, and the counters count its entries.                *)

\* The number of results sent so far: the slice, then the buffer.
QLen == Len(aggResults) + Len(resultsChan)

\* The k-th result sent: from the slice, or from the buffer behind it.
QAt(k) == IF k <= Len(aggResults) THEN aggResults[k]
                                  ELSE resultsChan[k - Len(aggResults)]

\* The positions of the slice that hold a successful result.
SuccessIdx == {k \in 1..Len(aggResults) : aggResults[k].success}

\* Where a worker's result is built and no longer changes.
BuiltPcs == {"send", "exit", "done"}

\* The control facts: who has started, where the dispatch loop stopped,
\* and what a built result says.
RShape ==
  /\ DOMAIN result = Workers
  /\ \A w \in Workers : w < next => pc[w] # "none"
  /\ mainPc = "start" => next = 1 /\ aggPc = "none"
  /\ mainPc \in {"wait", "done"} => next = Len(input) + 1
  /\ \A w \in Workers :
       pc[w] \in BuiltPcs => /\ result[w].domain = input[w]
                             /\ result[w].success \in BOOLEAN
  /\ aggPc = "recv" => mainPc \in {"dispatch", "wait"}

\* A numbering of the results sent so far by the workers that sent them.
QueueMap(f) ==
  /\ f \in Bijection(1..QLen, Sent)
  /\ \A k \in 1..QLen : QAt(k) = result[f[k]]

RQueue == \E f : QueueMap(f)

\* The aggregator's counters count the entries of its slice.
RCount ==
  /\ succeeded \in Nat /\ failed \in Nat
  /\ succeeded + failed = Len(aggResults)
  /\ succeeded = Cardinality(SuccessIdx)

RInv == RShape /\ RQueue /\ RCount /\ ResponseComplete

LEMMA AppendAt ==
  ASSUME NEW s, IsSeq(s), NEW x
  PROVE  /\ \A k \in 1..Len(s) : Append(s, x)[k] = s[k]
         /\ Append(s, x)[Len(s) + 1] = x
<1>1. PICK S : s \in Seq(S)
  BY DEF IsSeq
<1>2. s \in Seq(S \cup {x})
  BY <1>1, SeqMonotonic
<1> QED
  BY <1>2, AppendProperties

LEMMA TailAt ==
  ASSUME NEW s, IsSeq(s), s # << >>
  PROVE  /\ \A k \in 1..Len(s) - 1 : Tail(s)[k] = s[k + 1]
         /\ Head(s) = s[1]
<1>1. PICK S : s \in Seq(S)
  BY DEF IsSeq
<1>2. Len(Tail(s)) = Len(s) - 1
  BY <1>1, HeadTailProperties
<1> QED
  BY <1>1, <1>2, HeadTailProperties

(* A step that sends nothing, moves nothing between buffer and slice, and *)
(* rewrites no sent worker's result keeps the numbering.                   *)
LEMMA QueueStill ==
  ASSUME RQueue, Sent' = Sent, UNCHANGED <<aggResults, resultsChan>>,
         \A w \in Sent : result'[w] = result[w]
  PROVE  RQueue'
<1>1. PICK f : QueueMap(f)
  BY DEF RQueue
<1>2. \A k \in 1..QLen : f[k] \in Sent
  BY <1>1 DEF QueueMap, Bijection, Injection
<1>3. QueueMap(f)'
  BY <1>1, <1>2 DEF QueueMap, QLen, QAt
<1> QED
  BY <1>3 DEF RQueue

(* resultsChan <- result: the new last entry is numbered by the sender.   *)
LEMMA QueueSend ==
  ASSUME ChanInv, RQueue, NEW w \in Workers, w \notin Sent,
         Sent' = Sent \cup {w},
         resultsChan' = Append(resultsChan, result[w]),
         UNCHANGED <<aggResults, result>>
  PROVE  RQueue'
<1>1. PICK f : QueueMap(f)
  BY DEF RQueue
<1> DEFINE n == QLen
           g == [k \in 1..n + 1 |-> IF k <= n THEN f[k] ELSE w]
<1>2. Len(aggResults) \in Nat /\ Len(resultsChan) \in Nat
  BY SeqLen DEF ChanInv
<1>3. QLen' = n + 1
  BY <1>2, AppendSeq DEF ChanInv, QLen
<1>4. \A k \in 1..n + 1 : QAt(k)' = IF k <= n THEN QAt(k) ELSE result[w]
  <2>1. /\ \A k \in 1..Len(resultsChan) :
             resultsChan'[k] = resultsChan[k]
        /\ resultsChan'[Len(resultsChan) + 1] = result[w]
    BY AppendAt DEF ChanInv
  <2> QED
    BY <1>2, <2>1 DEF QAt, QLen
<1>5. g \in Bijection(1..n + 1, Sent \cup {w})
  <2>1. /\ f \in [1..n -> Sent]
        /\ \A x, y \in 1..n : f[x] = f[y] => x = y
        /\ \A u \in Sent : \E x \in 1..n : f[x] = u
    BY <1>1 DEF QueueMap, Bijection, Injection, Surjection, IsInjective
  <2>2. n \in Nat
    BY <1>2 DEF QLen
  <2>3. g \in [1..n + 1 -> Sent \cup {w}]
    BY <2>1, <2>2
  <2>4. \A x, y \in 1..n + 1 : g[x] = g[y] => x = y
    <3> SUFFICES ASSUME NEW x \in 1..n + 1, NEW y \in 1..n + 1, g[x] = g[y]
                 PROVE  x = y
      OBVIOUS
    <3>1. CASE x <= n /\ y <= n
      BY <2>1, <2>2, <3>1
    <3>2. CASE x <= n /\ ~(y <= n)
      BY <2>1, <2>2, <3>2
    <3>3. CASE ~(x <= n) /\ y <= n
      BY <2>1, <2>2, <3>3
    <3>4. CASE ~(x <= n) /\ ~(y <= n)
      BY <2>2, <3>4
    <3> QED
      BY <3>1, <3>2, <3>3, <3>4
  <2>5. \A u \in Sent \cup {w} : \E x \in 1..n + 1 : g[x] = u
    BY <2>1, <2>2
  <2> QED
    BY <2>3, <2>4, <2>5 DEF Bijection, Injection, Surjection, IsInjective
<1>6. \A k \in 1..n + 1 : QAt(k)' = result'[g[k]]
  BY <1>1, <1>2, <1>4 DEF QueueMap, QLen
<1> QED
  BY <1>3, <1>5, <1>6 DEF RQueue, QueueMap

(* The aggregator receives: the head of the buffer becomes the last entry *)
(* of the slice, and the order of the whole is unchanged.                 *)
LEMMA QueueRecv ==
  ASSUME ChanInv, RQueue, resultsChan # << >>,
         resultsChan' = Tail(resultsChan),
         aggResults' = Append(aggResults, Head(resultsChan)),
         UNCHANGED <<pc, result>>
  PROVE  RQueue'
<1>1. PICK f : QueueMap(f)
  BY DEF RQueue
<1>2. Len(aggResults) \in Nat /\ Len(resultsChan) \in Nat
  BY SeqLen DEF ChanInv
<1>3. /\ Len(aggResults') = Len(aggResults) + 1
      /\ Len(resultsChan') = Len(resultsChan) - 1
  BY AppendSeq, TailSeq DEF ChanInv
<1>4. QLen' = QLen
  BY <1>2, <1>3 DEF QLen
<1>5. \A k \in 1..QLen : QAt(k)' = QAt(k)
  <2>1. /\ \A k \in 1..Len(aggResults) : aggResults'[k] = aggResults[k]
        /\ aggResults'[Len(aggResults) + 1] = Head(resultsChan)
    BY AppendAt DEF ChanInv
  <2>2. /\ \A k \in 1..Len(resultsChan) - 1 :
             resultsChan'[k] = resultsChan[k + 1]
        /\ Head(resultsChan) = resultsChan[1]
    BY TailAt DEF ChanInv
  <2> QED
    BY <1>2, <1>3, <2>1, <2>2 DEF QAt, QLen
<1>6. Sent' = Sent
  BY DEF Sent
<1> QED
  BY <1>1, <1>4, <1>5, <1>6 DEF RQueue, QueueMap
(* The aggregator receives: succeeded or failed counts the new entry.     *)
LEMMA CountRecv ==
  ASSUME ChanInv, RCount, NEW r, r.success \in BOOLEAN,
         aggResults' = Append(aggResults, r),
         IF r.success THEN succeeded' = succeeded + 1 /\ failed' = failed
                      ELSE failed' = failed + 1 /\ succeeded' = succeeded
  PROVE  RCount'
<1> DEFINE L == Len(aggResults)
<1>1. L \in Nat /\ Len(aggResults') = L + 1
  BY AppendSeq, SeqLen DEF ChanInv
<1>2. /\ \A k \in 1..L : aggResults'[k] = aggResults[k]
      /\ aggResults'[L + 1] = r
  BY AppendAt DEF ChanInv
<1>3. SuccessIdx' = IF r.success THEN SuccessIdx \cup {L + 1} ELSE SuccessIdx
  BY <1>1, <1>2 DEF SuccessIdx
<1>4. IsFiniteSet(SuccessIdx) /\ L + 1 \notin SuccessIdx
  <2>1. IsFiniteSet(1..L)
    BY <1>1, FS_Interval
  <2> QED
    BY <2>1, FS_Subset DEF SuccessIdx
<1>5. Cardinality(SuccessIdx') =
        IF r.success THEN Cardinality(SuccessIdx) + 1 ELSE Cardinality(SuccessIdx)
  BY <1>3, <1>4, FS_AddElement
<1> QED
  BY <1>1, <1>5 DEF RCount
\* The entry at the head of the buffer is a result some worker built.
LEMMA HeadBuilt ==
  ASSUME IInv, ChanInv, RShape, RQueue, resultsChan # << >>
  PROVE  Head(resultsChan).success \in BOOLEAN
<1>1. PICK f : QueueMap(f)
  BY DEF RQueue
<1> DEFINE k == Len(aggResults) + 1
<1>2. Len(aggResults) \in Nat /\ Len(resultsChan) \in Nat \ {0}
  <2>1. PICK S : resultsChan \in Seq(S)
    BY DEF ChanInv, IsSeq
  <2> QED
    BY <2>1, EmptySeq, SeqLen DEF ChanInv
<1>3. k \in 1..QLen /\ QAt(k) = Head(resultsChan)
  BY <1>2, TailAt DEF ChanInv, QLen, QAt
<1>4. f[k] \in Sent /\ QAt(k) = result[f[k]]
  BY <1>1, <1>3 DEF QueueMap, Bijection, Injection
<1> QED
  BY <1>3, <1>4 DEF Sent, SentPcs, RShape, BuiltPcs

(* The aggregator finishes: the channel is closed, so every worker is     *)
(* done; the buffer is empty, so the slice numbers exactly the input       *)
(* positions, each holding its own domain.                                 *)
LEMMA FinishComplete ==
  ASSUME IInv, ChanInv, RShape, RQueue, RCount, AggregateFinish
  PROVE  ResponseComplete'
<1>1. /\ resultsChan = << >> /\ closed
      /\ response' = [results |-> aggResults, total |-> Len(input),
                      succeeded |-> succeeded, failed |-> failed,
                      advertisers |-> SortedAdvertisers(advCounts),
                      totalAdvertisers |-> SumCounts(advCounts)]
      /\ mainPc' = "done" /\ input' = input
  BY DEF AggregateFinish
<1>2. Len(input) \in Nat /\ Len(input) <= MaxBatch /\ Len(aggResults) \in Nat
  BY BatchAssumption, SeqLen DEF IInv, ChanInv
<1>3. next = Len(input) + 1 /\ Active = {}
  BY <1>1 DEF IInv, RShape
<1>4. Sent = 1..Len(input)
  <2>1. ASSUME NEW w \in 1..Len(input) PROVE w \in Sent
    <3>0. w \in Nat /\ w <= Len(input)
      BY <1>2
    <3>1. w \in Workers /\ w < next
      BY <1>2, <1>3, <3>0, BatchAssumption DEF Workers
    <3>2. pc[w] \in PcValues /\ pc[w] # "none" /\ pc[w] \notin ActivePcs
      BY <1>3, <3>1 DEF IInv, RShape, Active
    <3>3. pc[w] = "done"
      BY <3>2 DEF PcValues, ActivePcs, PipelinePcs
    <3> QED
      BY <3>1, <3>3 DEF Sent, SentPcs
  <2>2. ASSUME NEW w \in Sent PROVE w \in 1..Len(input)
    BY <1>3 DEF IInv, Sent, SentPcs, Workers
  <2> QED
    BY <2>1, <2>2, Zenon
<1>5. PICK f : QueueMap(f)
  BY DEF RQueue
<1>6. QLen = Len(aggResults) /\ \A k \in 1..Len(aggResults) : QAt(k) = aggResults[k]
  BY <1>1 DEF QLen, QAt
<1>7. Len(aggResults) = Len(input)
  <2>1. IsFiniteSet(1..Len(aggResults)) /\ Cardinality(1..Len(aggResults)) = Len(aggResults)
    <3>1. Len(aggResults) \in Nat
      BY <1>2
    <3>2. IsFiniteSet(1..Len(aggResults))
          /\ Cardinality(1..Len(aggResults)) = IF 1 > Len(aggResults) THEN 0 ELSE Len(aggResults) - 1 + 1
      BY <3>1, FS_Interval
    <3> QED
      BY <3>1, <3>2
  <2>2. IsFiniteSet(1..Len(input)) /\ Cardinality(1..Len(input)) = Len(input)
    <3>1. Len(input) \in Nat
      BY <1>2
    <3>2. IsFiniteSet(1..Len(input))
          /\ Cardinality(1..Len(input)) = IF 1 > Len(input) THEN 0 ELSE Len(input) - 1 + 1
      BY <3>1, FS_Interval
    <3> QED
      BY <3>1, <3>2
  <2>3. ExistsBijection(1..Len(aggResults), 1..Len(input))
    BY <1>4, <1>5, <1>6 DEF QueueMap, ExistsBijection
  <2> QED
    BY <2>1, <2>2, <2>3, FS_Bijection
<1>8. ASSUME NEW d \in Domains
      PROVE  Cardinality({k \in 1..Len(aggResults) : aggResults[k].domain = d})
               = Cardinality({k \in 1..Len(input) : input[k] = d})
  <2> DEFINE K == {k \in 1..Len(aggResults) : aggResults[k].domain = d}
             W == {k \in 1..Len(input) : input[k] = d}
             h == [k \in K |-> f[k]]
  <2>1. \A k \in 1..Len(aggResults) : f[k] \in 1..Len(input) /\ aggResults[k].domain = input[f[k]]
    BY <1>4, <1>5, <1>6 DEF QueueMap, Bijection, Injection, Sent, SentPcs,
                            RShape, BuiltPcs
  <2>2. h \in Bijection(K, W)
    <3>1. h \in [K -> W]
      BY <2>1
    <3>2. \A x, y \in K : h[x] = h[y] => x = y
      BY <1>4, <1>5, <1>6 DEF QueueMap, Bijection, Injection, IsInjective
    <3>3. \A u \in W : \E x \in K : h[x] = u
      BY <1>4, <1>5, <1>6, <2>1 DEF QueueMap, Bijection, Surjection
    <3>4. h \in Injection(K, W)
      <4>1. DOMAIN h = K
        OBVIOUS
      <4> QED
        BY <3>1, <3>2, <4>1, Zenon DEF Injection, IsInjective
    <3>5. h \in Surjection(K, W)
      BY <3>1, <3>3 DEF Surjection
    <3> QED
      BY <3>4, <3>5 DEF Bijection
  <2>3. IsFiniteSet(K)
    <3>1. Len(aggResults) \in Nat
      BY <1>2
    <3>2. IsFiniteSet(1..Len(aggResults))
      BY <3>1, FS_Interval
    <3> QED
      BY <3>2, FS_Subset
  <2> QED
    BY <2>2, <2>3, FS_Bijection DEF ExistsBijection
<1>9. ASSUME NEW d \in Domains
      PROVE  Occurrences([k \in 1..Len(aggResults) |-> aggResults[k].domain], d)
               = Occurrences(input, d)
  <2> DEFINE s == [k \in 1..Len(aggResults) |-> aggResults[k].domain]
  <2>1. Len(s) = Len(aggResults)
    BY <1>2
  <2>2. {k \in 1..Len(s) : s[k] = d}
          = {k \in 1..Len(aggResults) : aggResults[k].domain = d}
    BY <2>1
  <2>3. Occurrences(s, d)
          = Cardinality({k \in 1..Len(aggResults) : aggResults[k].domain = d})
    BY <2>2, Zenon DEF Occurrences
  <2>4. Cardinality({k \in 1..Len(aggResults) : aggResults[k].domain = d})
          = Cardinality({k \in 1..Len(input) : input[k] = d})
    BY <1>8
  <2> QED
    BY <2>3, <2>4, Zenon DEF Occurrences
<1>10. /\ succeeded + failed = Len(input)
       /\ succeeded = Cardinality({k \in 1..Len(aggResults) : aggResults[k].success})
  BY <1>7 DEF RCount, SuccessIdx
<1> QED
  <2>1. response'.results = aggResults /\ response'.total = Len(input)
        /\ response'.succeeded = succeeded /\ response'.failed = failed
    BY <1>1
  <2>2. response'.total = Len(input')
    BY <1>1, <2>1
  <2>3. response'.succeeded + response'.failed = response'.total
    BY <1>10, <2>1
  <2>4. Len(response'.results) = Len(input')
    BY <1>1, <1>7, <2>1
  <2>5. \A d \in Domains :
          Occurrences([k \in 1..Len(response'.results) |->
                         response'.results[k].domain], d) = Occurrences(input', d)
    BY <1>1, <1>9, <2>1
  <2>6. response'.succeeded =
          Cardinality({k \in 1..Len(response'.results) :
                         response'.results[k].success})
    BY <1>10, <2>1
  <2> QED
    BY <2>2, <2>3, <2>4, <2>5, <2>6 DEF ResponseComplete

LEMMA InitRInv == Init => RInv
<1> SUFFICES ASSUME Init PROVE RInv
  OBVIOUS
<1>1. /\ mainPc = "start" /\ next = 1 /\ aggPc = "none"
      /\ pc = [w \in Workers |-> "none"]
      /\ result = [w \in Workers |-> FailedResult(CHOOSE d \in Domains : TRUE)]
      /\ resultsChan = << >> /\ aggResults = << >>
      /\ succeeded = 0 /\ failed = 0
  BY Zenon DEF Init
<1>2. RShape
  BY <1>1 DEF RShape, BuiltPcs
<1>3. Sent = {} /\ QLen = 0
  BY <1>1 DEF Sent, SentPcs, QLen
<1>4. QueueMap([k \in 1..0 |-> 0])
  BY <1>1, <1>3 DEF QueueMap, Bijection, Injection, Surjection, IsInjective
<1>5. RCount
  <2>1. SuccessIdx = {}
    BY <1>1 DEF SuccessIdx
  <2> QED
    BY <1>1, <2>1, FS_EmptySet DEF RCount
<1> QED
  BY <1>1, <1>2, <1>4, <1>5 DEF RInv, RQueue, ResponseComplete

(* A step that leaves the slice, the counters, the caller, the input and *)
(* the response alone keeps what is said of them.                          *)
LEMMA CountStill ==
  ASSUME RCount, UNCHANGED <<aggResults, succeeded, failed>>
  PROVE  RCount'
<1>1. aggResults' = aggResults /\ succeeded' = succeeded /\ failed' = failed
  OBVIOUS
<1>2. SuccessIdx' = SuccessIdx
  BY <1>1 DEF SuccessIdx
<1> QED
  BY <1>1, <1>2 DEF RCount

LEMMA ResponseStill ==
  ASSUME ResponseComplete, UNCHANGED <<mainPc, response, input>>
  PROVE  ResponseComplete'
<1>1. mainPc' = mainPc /\ response' = response /\ input' = input
  OBVIOUS
<1> QED
  BY <1>1 DEF ResponseComplete

(* A worker step: only the worker's own place and result change, a result *)
(* is built from the worker's own domain, and only resultsChan <- result   *)
(* adds to the queue.                                                      *)
LEMMA WorkerRInv ==
  ASSUME IInv, ChanInv, RInv, NEW w \in Workers, Worker(w)
  PROVE  RInv'
<1>1. pc \in [Workers -> PcValues] /\ DOMAIN result = Workers
  BY DEF IInv, RInv, RShape
<1>2. UNCHANGED <<input, mainPc, next, aggPc, aggResults, succeeded, failed,
                 response>>
  BY DEF Worker, Acquire, CacheLookup, FetchAndParse, CacheStore, MakeResult,
         Send, Exit, mainVars, aggVars
<1>3. RCount' /\ ResponseComplete'
  BY <1>2, CountStill, ResponseStill DEF RInv
<1>4. /\ \E v \in PcValues \ {"none"} : pc' = [pc EXCEPT ![w] = v]
      /\ \A u \in Workers \ {w} : result'[u] = result[u]
      /\ DOMAIN result' = Workers
  BY <1>1 DEF Worker, Acquire, CacheLookup, FetchAndParse, CacheStore,
              MakeResult, Send, Exit, PcValues, workerVars
<1>5. pc'[w] \in BuiltPcs =>
        result'[w].domain = input[w] /\ result'[w].success \in BOOLEAN
  <2>1. CASE Acquire(w) \/ CacheLookup(w) \/ CacheStore(w)
    BY <1>1, <2>1 DEF Acquire, CacheLookup, CacheStore, BuiltPcs
  <2>2. CASE FetchAndParse(w)
    <3>1. CASE result' = [result EXCEPT ![w] = FailedResult(input[w])]
      BY <1>1, <3>1 DEF FailedResult
    <3>2. CASE pc' = [pc EXCEPT ![w] = "store"]
      BY <1>1, <3>2 DEF BuiltPcs
    <3> QED
      BY <2>2, <3>1, <3>2 DEF FetchAndParse
  <2>3. CASE MakeResult(w)
    BY <1>1, <2>3 DEF MakeResult, BuiltPcs
  <2>4. CASE Send(w) \/ Exit(w)
    BY <1>1, <2>4 DEF Send, Exit, BuiltPcs, RInv, RShape
  <2> QED
    BY <2>1, <2>2, <2>3, <2>4 DEF Worker
<1>6. RShape'
  BY <1>1, <1>2, <1>4, <1>5 DEF RInv, RShape
<1>7. RQueue'
  <2>1. CASE Send(w)
    <3>1. /\ pc[w] = "send" /\ pc' = [pc EXCEPT ![w] = "exit"]
          /\ resultsChan' = Append(resultsChan, result[w])
          /\ UNCHANGED <<aggResults, result>>
      BY <2>1 DEF Send, workerVars, aggVars
    <3>2. w \notin Sent /\ Sent' = Sent \cup {w}
      BY <1>1, <3>1 DEF Sent, SentPcs
    <3> QED
      BY <3>1, <3>2, QueueSend DEF RInv
  <2>2. CASE ~Send(w)
    <3>1. /\ \E v \in PcValues : /\ pc' = [pc EXCEPT ![w] = v]
                                 /\ (v \in SentPcs) <=> (pc[w] \in SentPcs)
          /\ UNCHANGED resultsChan
          /\ result'[w] # result[w] => pc[w] \notin SentPcs
      BY <1>1, <2>2 DEF Worker, Acquire, CacheLookup, FetchAndParse,
                        CacheStore, MakeResult, Exit, PcValues, SentPcs,
                        workerVars, chanVars
    <3>2. Sent' = Sent
      <4>1. \A x \in Workers : (pc'[x] \in SentPcs) <=> (pc[x] \in SentPcs)
        BY <1>1, <3>1
      <4> QED
        BY <4>1, CountSame DEF Sent
    <3>3. \A u \in Sent : result'[u] = result[u]
      BY <1>4, <3>1 DEF Sent
    <3> QED
      BY <1>2, <3>1, <3>2, <3>3, QueueStill DEF RInv
  <2> QED
    BY <2>1, <2>2
<1> QED
  BY <1>3, <1>6, <1>7 DEF RInv

LEMMA NextRInv == IInv /\ ChanInv /\ RInv /\ [Next]_vars => RInv'
<1> SUFFICES ASSUME IInv, ChanInv, RInv, [Next]_vars PROVE RInv'
  OBVIOUS
<1>0. /\ pc \in [Workers -> PcValues] /\ next \in Nat \ {0}
      /\ Len(input) \in Nat /\ next <= Len(input) + 1
      /\ RShape /\ RQueue /\ RCount /\ ResponseComplete
  BY BatchAssumption DEF IInv, RInv
<1>1. CASE \E w \in Workers : Worker(w)
  BY <1>1, WorkerRInv
<1>2. CASE Start
  <2>1. /\ mainPc = "start" /\ next = 1 /\ aggPc = "none"
        /\ UNCHANGED <<input, next, pc, result, resultsChan, aggResults,
                       succeeded, failed>>
    BY <1>0, <1>2 DEF Start, RShape, workerVars, chanVars
  <2>2. RQueue' /\ RCount'
    BY <1>0, <2>1, QueueStill, CountStill DEF Sent
  <2>3. CASE Len(input) = 0
    <3>1. /\ mainPc' = "done" /\ aggPc' = "none"
          /\ response' = [results |-> << >>, total |-> 0, succeeded |-> 0,
                           failed |-> 0, advertisers |-> << >>,
                           totalAdvertisers |-> 0]
      BY <1>2, <2>1, <2>3 DEF Start
    <3>2. RShape'
      BY <1>0, <2>1, <2>3, <3>1 DEF RShape
    <3>3. 1..Len(input) = {} /\ Len(<< >>) = 0
      BY <2>3
    <3>4. ResponseComplete'
      BY <2>1, <2>3, <3>1, <3>3, FS_EmptySet DEF ResponseComplete, Occurrences
    <3> QED
      BY <2>2, <3>2, <3>4 DEF RInv
  <2>4. CASE Len(input) # 0
    <3>1. mainPc' = "dispatch" /\ aggPc' = "recv"
      BY <1>2, <2>4 DEF Start
    <3>2. RShape'
      BY <1>0, <2>1, <3>1 DEF RShape
    <3> QED
      BY <2>2, <3>1, <3>2 DEF RInv, ResponseComplete
  <2> QED
    BY <2>3, <2>4
<1>3. CASE Dispatch
  <2>1. /\ mainPc = "dispatch" /\ next \in Workers /\ pc[next] = "none"
        /\ pc' = [pc EXCEPT ![next] = "acquire"] /\ next' = next + 1
        /\ UNCHANGED <<input, mainPc, result, aggPc, resultsChan, aggResults,
                       succeeded, failed, response>>
    BY <1>0, <1>3, BatchAssumption DEF Dispatch, Workers, IInv, workerVars,
                                       chanVars, aggVars
  <2>2. RShape'
    BY <1>0, <2>1 DEF RShape, BuiltPcs
  <2>3. Sent' = Sent
    BY <1>0, <2>1 DEF Sent, SentPcs
  <2> QED
    BY <1>0, <2>1, <2>2, <2>3, QueueStill, CountStill, ResponseStill DEF RInv
<1>4. CASE DispatchEnd
  <2>1. /\ next = Len(input) + 1 /\ mainPc' = "wait"
        /\ UNCHANGED <<input, next, pc, result, aggPc, resultsChan, aggResults,
                       succeeded, failed, response>>
    BY <1>0, <1>4 DEF DispatchEnd, workerVars, chanVars, aggVars
  <2>2. RShape'
    BY <1>0, <2>1 DEF RShape
  <2> QED
    BY <1>0, <2>1, <2>2, QueueStill, CountStill DEF RInv, Sent,
                                                  ResponseComplete
<1>5. CASE AggregateOne
  <2>1. /\ resultsChan # << >> /\ resultsChan' = Tail(resultsChan)
        /\ aggResults' = Append(aggResults, Head(resultsChan))
        /\ IF Head(resultsChan).success
           THEN succeeded' = succeeded + 1 /\ failed' = failed
           ELSE failed' = failed + 1 /\ succeeded' = succeeded
        /\ UNCHANGED <<input, mainPc, next, pc, result, aggPc, response>>
    BY <1>5 DEF AggregateOne, mainVars, workerVars
  <2>2. Head(resultsChan).success \in BOOLEAN
    BY <1>0, <2>1, HeadBuilt
  <2>3. RShape'
    BY <1>0, <2>1 DEF RShape
  <2>4. RQueue'
    BY <1>0, <2>1, QueueRecv
  <2>5. RCount'
    BY <1>0, <2>1, <2>2, CountRecv
  <2> QED
    BY <1>0, <2>1, <2>3, <2>4, <2>5, ResponseStill DEF RInv
<1>6. CASE AggregateFinish
  <2>1. /\ closed /\ mainPc' = "done" /\ aggPc' = "done"
        /\ UNCHANGED <<input, next, pc, result, resultsChan, aggResults,
                       succeeded, failed>>
    BY <1>6 DEF AggregateFinish, workerVars, chanVars
  <2>2. next = Len(input) + 1
    BY <1>0, <2>1 DEF IInv, RShape
  <2>3. RShape'
    BY <1>0, <2>1, <2>2 DEF RShape
  <2>4. ResponseComplete'
    BY <1>0, <1>6, FinishComplete
  <2> QED
    BY <1>0, <2>1, <2>3, <2>4, QueueStill, CountStill DEF RInv, Sent
<1>7. CASE CloseResults \/ (\E d \in Domains : Expire(d)) \/ UNCHANGED vars
  <2>1. UNCHANGED <<input, mainPc, next, pc, result, aggPc, resultsChan,
                   aggResults, succeeded, failed, response>>
    BY <1>7 DEF CloseResults, Expire, vars, mainVars, workerVars, chanVars,
                aggVars
  <2>2. RShape'
    BY <1>0, <2>1 DEF RShape
  <2> QED
    BY <1>0, <2>1, <2>2, QueueStill, CountStill, ResponseStill DEF RInv, Sent
<1> QED
  BY <1>1, <1>2, <1>3, <1>4, <1>5, <1>6, <1>7 DEF Next

(* Spec: batch completeness, for every batch, every semaphore size and     *)
(* every interleaving.  AnalyzeDomains returns a response whose results     *)
(* hold one entry per requested domain, duplicates included, whose total   *)
(* is len(domains), and whose succeeded and failed count its entries: the *)
(* aggregator stops only on the closed, drained channel, and the closer   *)
(* closes only after every worker has sent.                                *)
THEOREM ResponseCompleteHolds == Spec => []ResponseComplete
<1>1. Init => IInv /\ ChanInv /\ RInv
  BY InitIInv, InitChanInv, InitRInv
<1>2. IInv /\ ChanInv /\ RInv /\ [Next]_vars => IInv' /\ ChanInv' /\ RInv'
  BY NextIInv, NextChanInv, NextRInv
<1>3. RInv => ResponseComplete
  BY DEF RInv
<1> QED
  BY <1>1, <1>2, <1>3, PTL DEF Spec

=============================================================================
