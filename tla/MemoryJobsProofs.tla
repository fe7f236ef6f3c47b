-------------------------- MODULE MemoryJobsProofs --------------------------
(***************************************************************************)
(* Proofs about MemoryJobs, for every number of threads, workers, updates  *)
(* and claims: the type invariant, NoUpdateMissed, ForgottenStaysForgotten,*)
(* OutputNeverOlder and ConsolidationsInOrder, all from the inductive      *)
(* invariant IInv.                                                         *)
(***************************************************************************)
EXTENDS MemoryJobs, TLAPS

(* The rows of a thread: what is there was claimed after the last deletion, a
   running row has a retry left, and the output was made from contents at least as
   new as its stamp and as the last success of the job. *)
RowsOK(t) ==
    /\ cut[t] <= tokens
    /\ job[t] # None =>
          /\ cut[t] < job[t].token /\ job[t].token <= tokens
          /\ job[t].status = "running" => job[t].retries > 0
    /\ output[t] # None =>
          /\ cut[t] < output[t].by /\ thread[t] # "deleted"
          /\ output[t].src <= output[t].content /\ output[t].content <= updated[t]
    /\ job[t] # None /\ output[t] # None => job[t].success <= output[t].content

(* A worker that has claimed the thread t: its token was given, and if it still
   owns the row the row's watermark is the worker's. *)
ClaimedOK(e, t) ==
    /\ 1 <= e.token /\ e.token <= tokens
    /\ Owns(job[t], e.token) => job[t].input = e.src

(* A worker that has read the rollout of t: the contents are not older than the
   claim nor, as long as it owns the row, than the output; and if the thread has
   been deleted since, the token was given before that. *)
LoadedOK(e, t) ==
    /\ e.src <= e.content /\ e.content <= updated[t]
    /\ thread[t] = "deleted" => e.token <= cut[t]
    /\ Owns(job[t], e.token) /\ output[t] # None => output[t].content <= e.content

WorkerOK(e) ==
    e.pc # "idle" =>
        /\ e.thread \in Thread
        /\ 1 <= e.src /\ e.src <= updated[e.thread]
        /\ e.pc # "listed" => ClaimedOK(e, e.thread)
        /\ e.pc = "loaded" => LoadedOK(e, e.thread)

(* The running phase-2 row was claimed after the last consolidation. *)
GlobalOK ==
    /\ consolidated <= tokens
    /\ global # None =>
          /\ global.token <= tokens
          /\ global.status = "running" => consolidated <= global.token

(* The inductive invariant. *)
IInv ==
    /\ TypeOK
    /\ \A t \in Thread : RowsOK(t)
    /\ \A w \in Extractor : WorkerOK(extractor[w])
    /\ GlobalOK

-----------------------------------------------------------------------------
(* Steps of one worker that touch no row. *)

LEMMA ExtractorOnly ==
    ASSUME IInv, NEW w \in Extractor,
           extractor' \in [Extractor -> ExtractorType],
           \A v \in Extractor : v # w => extractor'[v] = extractor[v],
           WorkerOK(extractor'[w]),
           UNCHANGED <<sources, output, job, global, consolidator, tokens, history>>
    PROVE  IInv'
<1>1. TypeOK'
    BY DEF IInv, TypeOK, sources, history
<1>2. \A t \in Thread : RowsOK(t)'
    BY DEF IInv, RowsOK, sources, history
<1>3. \A v \in Extractor : WorkerOK(extractor[v])'
    BY DEF IInv, TypeOK, WorkerOK, ClaimedOK, LoadedOK, sources, history
<1>4. GlobalOK'
    BY DEF IInv, GlobalOK, history
<1> QED
    BY <1>1, <1>2, <1>3, <1>4 DEF IInv

LEMMA ConsolidatorStep ==
    ASSUME IInv, consolidator' \in [Consolidator -> ConsolidatorType],
           global' \in GlobalType \cup {None}, GlobalOK',
           UNCHANGED <<sources, output, job, extractor, tokens, history>>
    PROVE  IInv'
<1>1. TypeOK'
    BY DEF IInv, TypeOK, sources, history
<1>2. \A t \in Thread : RowsOK(t)'
    BY DEF IInv, RowsOK, sources, history
<1>3. \A v \in Extractor : WorkerOK(extractor[v])'
    BY DEF IInv, TypeOK, WorkerOK, ClaimedOK, LoadedOK, sources, history
<1> QED
    BY <1>1, <1>2, <1>3 DEF IInv

LEMMA IdleOK == IdleExtractor \in ExtractorType /\ WorkerOK(IdleExtractor)
BY MemoryAssumption DEF IdleExtractor, ExtractorType, WorkerOK

LEMMA IdleConsolidatorOK == IdleConsolidator \in ConsolidatorType
BY MemoryAssumption DEF IdleConsolidator, ConsolidatorType

LEMMA ListThreadKeeps ==
    ASSUME IInv, NEW w \in Extractor, NEW t \in Thread, ListThread(w, t)
    PROVE  IInv'
<1>1. updated[t] \in 1..MaxUpdates /\ extractor \in [Extractor -> ExtractorType]
    BY DEF IInv, TypeOK
<1>2. /\ extractor' \in [Extractor -> ExtractorType]
      /\ \A v \in Extractor : v # w => extractor'[v] = extractor[v]
      /\ extractor'[w].pc = "listed" /\ extractor'[w].thread = t
      /\ extractor'[w].src = updated[t]
    BY <1>1, MemoryAssumption DEF ListThread, ExtractorType
<1>3. WorkerOK(extractor'[w])
    BY <1>1, <1>2 DEF WorkerOK
<1> QED
    BY <1>2, <1>3, ExtractorOnly DEF ListThread

LEMMA SkipStage1Keeps ==
    ASSUME IInv, NEW w \in Extractor, SkipStage1(w)
    PROVE  IInv'
<1>1. extractor \in [Extractor -> ExtractorType]
    BY DEF IInv, TypeOK
<1> QED
    BY <1>1, IdleOK, ExtractorOnly DEF SkipStage1

LEMMA ExtractorDiesKeeps ==
    ASSUME IInv, NEW w \in Extractor, ExtractorDies(w)
    PROVE  IInv'
<1>1. extractor \in [Extractor -> ExtractorType]
    BY DEF IInv, TypeOK
<1> QED
    BY <1>1, IdleOK, ExtractorOnly DEF ExtractorDies

LEMMA LoadRolloutKeeps ==
    ASSUME IInv, NEW w \in Extractor, LoadRollout(w)
    PROVE  IInv'
<1> DEFINE t == extractor[w].thread
<1>1. /\ extractor \in [Extractor -> ExtractorType] /\ WorkerOK(extractor[w])
      /\ t \in Thread /\ updated[t] \in 1..MaxUpdates
    BY DEF IInv, TypeOK, WorkerOK, LoadRollout
<1>2. RowsOK(t) /\ (output[t] # None => output[t] \in OutputType)
    BY <1>1 DEF IInv, TypeOK
<1>3. /\ extractor' \in [Extractor -> ExtractorType]
      /\ \A v \in Extractor : v # w => extractor'[v] = extractor[v]
      /\ extractor'[w].pc = "loaded" /\ extractor'[w].thread = t
      /\ extractor'[w].src = extractor[w].src /\ extractor'[w].token = extractor[w].token
      /\ extractor'[w].content = updated[t]
  <2>1. extractor[w] \in ExtractorType /\ updated[t] \in 0..MaxUpdates
    BY <1>1, MemoryAssumption
  <2>2. extractor' = [extractor EXCEPT ![w].pc = "loaded", ![w].content = updated[t]]
    BY DEF LoadRollout
  <2>3. extractor' \in [Extractor -> ExtractorType]
    BY <1>1, <2>1, <2>2 DEF ExtractorType
  <2> QED
    BY <1>1, <2>1, <2>2, <2>3 DEF ExtractorType
<1>4. ClaimedOK(extractor'[w], t) /\ 1 <= extractor[w].src /\ extractor[w].src <= updated[t]
    BY <1>1, <1>3 DEF WorkerOK, ClaimedOK, LoadRollout
<1>5. LoadedOK(extractor'[w], t)
    BY <1>1, <1>2, <1>3, <1>4 DEF LoadedOK, RowsOK, LoadRollout
<1>6. WorkerOK(extractor'[w])
    BY <1>1, <1>3, <1>4, <1>5 DEF WorkerOK
<1> QED
    BY <1>3, <1>6, ExtractorOnly DEF LoadRollout

-----------------------------------------------------------------------------
(* Steps of an extractor on the rows of its thread. *)

LEMMA ClaimStage1Keeps ==
    ASSUME IInv, NEW w \in Extractor, ClaimStage1(w)
    PROVE  IInv'
<1> DEFINE t == extractor[w].thread
           src == extractor[w].src
<1>1. /\ extractor \in [Extractor -> ExtractorType] /\ WorkerOK(extractor[w])
      /\ t \in Thread /\ src \in 1..MaxUpdates /\ src <= updated[t]
    BY DEF IInv, TypeOK, WorkerOK, ClaimStage1, ExtractorType
<1>2. tokens' = tokens + 1 /\ tokens' \in 0..MaxTokens /\ tokens \in Nat
    BY MemoryAssumption DEF IInv, TypeOK, ClaimStage1
<1>3. /\ extractor' \in [Extractor -> ExtractorType]
      /\ \A v \in Extractor : v # w => extractor'[v] = extractor[v]
      /\ extractor'[w].pc = "claimed" /\ extractor'[w].thread = t
      /\ extractor'[w].src = src /\ extractor'[w].token = tokens'
    BY <1>1, <1>2, MemoryAssumption DEF ClaimStage1, ExtractorType
<1>4. /\ job'[t] \in JobType /\ job'[t].status = "running" /\ job'[t].token = tokens'
      /\ job'[t].retries > 0 /\ job'[t].input = src
      /\ job'[t].success = IF job[t] = None THEN 0 ELSE job[t].success
      /\ \A u \in Thread : u # t => job'[u] = job[u]
      /\ job' \in [Thread -> JobType \cup {None}]
  <2>1. job[t] \in JobType \cup {None}
    BY <1>1 DEF IInv, TypeOK
  <2>2. ~Advanced(t, src) => job[t] # None /\ job[t].retries > 0
    BY DEF ClaimStage1, Claimable, Advanced
  <2>3. /\ job' = [job EXCEPT ![t] = job'[t]]
        /\ job'[t] = [status |-> "running", token |-> tokens', lease |-> Lease, retry |-> 0,
                      retries |-> IF Advanced(t, src) THEN Retries ELSE job[t].retries,
                      input |-> src,
                      success |-> IF job[t] = None THEN 0 ELSE job[t].success]
    BY <1>1 DEF IInv, TypeOK, ClaimStage1
  <2>4. job'[t] \in JobType
    BY <1>1, <1>2, <2>1, <2>2, <2>3, MemoryAssumption DEF JobType
  <2> QED
    BY <1>1, <2>1, <2>2, <2>3, <2>4, MemoryAssumption DEF IInv, TypeOK, JobType
<1>5. TypeOK'
    BY <1>2, <1>3, <1>4 DEF IInv, TypeOK, ClaimStage1, sources, history
<1>6. ASSUME NEW u \in Thread PROVE RowsOK(u)'
  <2>1. RowsOK(u) /\ output'[u] = output[u] /\ cut'[u] = cut[u] /\ updated'[u] = updated[u]
        /\ thread'[u] = thread[u]
    BY DEF IInv, ClaimStage1, sources, history
  <2>2. cut[u] \in Nat /\ (output[u] # None => output[u] \in OutputType)
        /\ (job[u] # None => job[u] \in JobType)
    BY MemoryAssumption DEF IInv, TypeOK
  <2>3. CASE u = t
    BY <1>2, <1>4, <2>1, <2>2, <2>3 DEF RowsOK, OutputType, JobType
  <2>4. CASE u # t
    BY <1>2, <1>4, <2>1, <2>2, <2>4 DEF RowsOK, OutputType, JobType
  <2> QED
    BY <2>3, <2>4
<1>7. ASSUME NEW v \in Extractor PROVE WorkerOK(extractor[v])'
  <2>1. WorkerOK(extractor[v]) /\ extractor[v] \in ExtractorType
    BY DEF IInv, TypeOK
  <2>2. CASE v = w
    <3>1. updated' = updated
      BY DEF ClaimStage1, sources
    <3> QED
      BY <1>1, <1>2, <1>3, <1>4, <2>2, <3>1 DEF WorkerOK, ClaimedOK
  <2>3. CASE v # w
    <3>1. extractor'[v] = extractor[v]
      BY <1>3, <2>3
    <3>2. ASSUME extractor[v].pc # "idle", extractor[v].pc # "listed",
                 Owns(job'[extractor[v].thread], extractor[v].token)
          PROVE  Owns(job[extractor[v].thread], extractor[v].token)
                 /\ job'[extractor[v].thread] = job[extractor[v].thread]
      BY <1>2, <1>4, <2>1, <3>2 DEF WorkerOK, ClaimedOK, Owns, ExtractorType
    <3> QED
      BY <1>2, <2>1, <3>1, <3>2 DEF WorkerOK, ClaimedOK, LoadedOK, ExtractorType, ClaimStage1, sources, history
  <2> QED
    BY <2>2, <2>3
<1>8. GlobalOK'
    BY <1>2, MemoryAssumption DEF IInv, TypeOK, GlobalOK, GlobalType, ClaimStage1, history
<1> QED
    BY <1>5, <1>6, <1>7, <1>8 DEF IInv

(* The rows of t end their job, and the worker w is free again. *)
LEMMA JobEnds ==
    ASSUME IInv, NEW w \in Extractor, NEW t \in Thread,
           extractor' = [extractor EXCEPT ![w] = IdleExtractor],
           job' \in [Thread -> JobType \cup {None}],
           output' \in [Thread -> OutputType \cup {None}],
           \A u \in Thread : u # t => job'[u] = job[u] /\ output'[u] = output[u],
           job'[t].status # "running",
           RowsOK(t)',
           global' \in GlobalType \cup {None}, GlobalOK',
           UNCHANGED <<sources, consolidator, tokens, history>>
    PROVE  IInv'
<1>1. TypeOK'
    BY IdleOK DEF IInv, TypeOK, sources, history
<1>2. \A u \in Thread : RowsOK(u)'
    BY DEF IInv, RowsOK, sources, history
<1>3. ASSUME NEW v \in Extractor PROVE WorkerOK(extractor[v])'
  <2>1. CASE v = w
    BY <2>1, IdleOK DEF IInv, TypeOK, WorkerOK, IdleExtractor
  <2>2. CASE v # w
    <3>1. extractor'[v] = extractor[v] /\ WorkerOK(extractor[v])
      BY <2>2 DEF IInv, TypeOK
    <3>2. ~Owns(job'[t], extractor[v].token)
      BY DEF Owns
    <3> QED
      BY <3>1, <3>2 DEF WorkerOK, ClaimedOK, LoadedOK, sources, history
  <2> QED
    BY <2>1, <2>2
<1> QED
    BY <1>1, <1>2, <1>3 DEF IInv

LEMMA ReturnsToIdle ==
    ASSUME IInv, NEW w \in Extractor,
           extractor' = [extractor EXCEPT ![w] = IdleExtractor],
           UNCHANGED <<sources, output, job, global, consolidator, tokens, history>>
    PROVE  IInv'
<1>1. extractor \in [Extractor -> ExtractorType]
    BY DEF IInv, TypeOK
<1> QED
    BY <1>1, IdleOK, ExtractorOnly

(* Enqueueing a consolidation keeps a running row and wakes one at rest. *)
LEMMA EnqueueOK ==
    ASSUME IInv
    PROVE  /\ Enqueue(global) \in GlobalType
           /\ Enqueue(global).token <= tokens
           /\ Enqueue(global).status = "running" => consolidated <= Enqueue(global).token
<1>1. tokens \in Nat /\ global \in GlobalType \cup {None}
    BY MemoryAssumption DEF IInv, TypeOK
<1>2. CASE global = None
    BY <1>1, <1>2, MemoryAssumption DEF Enqueue, GlobalType
<1>3. CASE global # None /\ global.status = "running"
    BY <1>1, <1>3 DEF IInv, Enqueue, GlobalOK
<1>4. CASE global # None /\ global.status # "running"
  <2>1. Enqueue(global) = [global EXCEPT !.status = "pending", !.retry = 0]
    BY <1>4 DEF Enqueue
  <2>2. global \in GlobalType /\ global.token <= tokens
    BY <1>1, <1>4 DEF IInv, GlobalOK
  <2>3. 0 \in 0..RetryDelay
    BY MemoryAssumption
  <2>4. Enqueue(global) \in GlobalType
    BY <2>1, <2>2, <2>3 DEF GlobalType
  <2>5. Enqueue(global).token = global.token /\ Enqueue(global).status = "pending"
    BY <2>1, <2>2 DEF GlobalType
  <2> QED
    BY <2>2, <2>4, <2>5
<1> QED
    BY <1>2, <1>3, <1>4

(* What a worker that owns the row of its thread may rely on. *)
LEMMA OwnerFacts ==
    ASSUME IInv, NEW w \in Extractor, extractor[w].pc \in {"claimed", "loaded"},
           Owns(job[extractor[w].thread], extractor[w].token)
    PROVE  LET t == extractor[w].thread
           IN /\ extractor[w] \in ExtractorType /\ t \in Thread
              /\ job[t] \in JobType /\ job[t] # None /\ RowsOK(t)
              /\ job[t].token = extractor[w].token /\ job[t].input = extractor[w].src
              /\ job[t].retries > 0
              /\ extractor[w].src >= 1
BY DEF IInv, TypeOK, WorkerOK, ClaimedOK, Owns, RowsOK

LEMMA Stage1FailedKeeps ==
    ASSUME IInv, NEW w \in Extractor, Stage1Failed(w)
    PROVE  IInv'
<1>1. CASE ~Owns(job[extractor[w].thread], extractor[w].token)
    BY <1>1, ReturnsToIdle DEF Stage1Failed
<1>2. CASE Owns(job[extractor[w].thread], extractor[w].token)
  <2> PICK t \in Thread : t = extractor[w].thread
    BY <1>2, OwnerFacts DEF Stage1Failed
  <2>1. /\ extractor[w] \in ExtractorType /\ t \in Thread
        /\ job[t] \in JobType /\ job[t] # None /\ RowsOK(t) /\ job[t].retries > 0
    BY <1>2, OwnerFacts DEF Stage1Failed
  <2>2. job' = [job EXCEPT ![t].status = "error", ![t].lease = 0,
                           ![t].retry = RetryDelay, ![t].retries = @ - 1]
    BY <1>2 DEF Stage1Failed
  <2>3. job \in [Thread -> JobType \cup {None}]
    BY DEF IInv, TypeOK
  <2>4. /\ job'[t] \in JobType /\ job'[t].status = "error"
        /\ job'[t].token = job[t].token /\ job'[t].success = job[t].success
    <3>1. 0 \in 0..Lease /\ RetryDelay \in 0..RetryDelay /\ job[t].retries - 1 \in 0..Retries
      BY <2>1, MemoryAssumption DEF JobType
    <3>2. job'[t] = [job[t] EXCEPT !.status = "error", !.lease = 0, !.retry = RetryDelay,
                                   !.retries = @ - 1]
      BY <2>1, <2>2, <2>3
    <3>3. job'[t] \in JobType
      BY <2>1, <3>1, <3>2 DEF JobType
    <3> QED
      BY <2>1, <3>2, <3>3 DEF JobType
  <2>5. /\ job' \in [Thread -> JobType \cup {None}]
        /\ \A u \in Thread : u # t => job'[u] = job[u]
    <3>1. job' = [job EXCEPT ![t] = job'[t]]
      BY <2>1, <2>2, <2>3
    <3> QED
      BY <2>1, <2>3, <2>4, <3>1
  <2>6. RowsOK(t)'
    BY <2>1, <2>4 DEF RowsOK, Stage1Failed, sources, history
  <2>7. /\ output \in [Thread -> OutputType \cup {None}] /\ global \in GlobalType \cup {None}
        /\ GlobalOK'
    BY DEF IInv, TypeOK, GlobalOK, Stage1Failed, history
  <2> QED
    BY <2>1, <2>4, <2>5, <2>6, <2>7, JobEnds DEF Stage1Failed
<1> QED
    BY <1>1, <1>2

LEMMA DoneOK ==
    ASSUME NEW t \in Thread, job[t] \in JobType
    PROVE  /\ Done(t) \in JobType /\ Done(t).status = "done"
           /\ Done(t).token = job[t].token /\ Done(t).success = job[t].input
<1>1. 0 \in 0..Lease /\ job[t].input \in 0..MaxUpdates
    BY MemoryAssumption DEF JobType
<1>2. Done(t) \in JobType
    BY <1>1 DEF Done, JobType
<1> QED
    BY <1>2 DEF Done, JobType

LEMMA Stage1SucceededKeeps ==
    ASSUME IInv, NEW w \in Extractor, Stage1Succeeded(w)
    PROVE  IInv'
<1>1. CASE ~Owns(job[extractor[w].thread], extractor[w].token)
    BY <1>1, ReturnsToIdle DEF Stage1Succeeded
<1>2. CASE Owns(job[extractor[w].thread], extractor[w].token)
  <2> PICK t \in Thread : t = extractor[w].thread
    BY <1>2, OwnerFacts DEF Stage1Succeeded
  <2>1. /\ extractor[w] \in ExtractorType
        /\ job[t] \in JobType /\ RowsOK(t)
        /\ job[t].token = extractor[w].token /\ job[t].input = extractor[w].src
        /\ extractor[w].src >= 1
    BY <1>2, OwnerFacts DEF Stage1Succeeded
  <2>2. /\ job' = [job EXCEPT ![t] = Done(t)] /\ global' = Enqueue(global)
        /\ extractor' = [extractor EXCEPT ![w] = IdleExtractor]
        /\ UNCHANGED <<sources, consolidator, tokens, history>>
    BY <1>2 DEF Stage1Succeeded
  <2>3. /\ job \in [Thread -> JobType \cup {None}] /\ output \in [Thread -> OutputType \cup {None}]
        /\ tokens \in 0..MaxTokens /\ updated[t] \in 1..MaxUpdates /\ cut[t] \in Nat
    BY MemoryAssumption DEF IInv, TypeOK
  <2>4. LoadedOK(extractor[w], t)
    BY DEF IInv, WorkerOK, Stage1Succeeded
  <2>5. /\ job' \in [Thread -> JobType \cup {None}]
        /\ \A u \in Thread : u # t => job'[u] = job[u]
        /\ job'[t].status = "done" /\ job'[t].token = extractor[w].token
        /\ job'[t].success = extractor[w].src
    BY <2>1, <2>2, <2>3, DoneOK
  <2>6. /\ output' \in [Thread -> OutputType \cup {None}]
        /\ \A u \in Thread : u # t => output'[u] = output[u]
        /\ \/ output'[t] = output[t] /\ output[t] # None /\ extractor[w].src < output[t].src
           \/ /\ output'[t].src = extractor[w].src /\ output'[t].by = extractor[w].token
              /\ output'[t].content = extractor[w].content
    <3>1. CASE output[t] # None /\ extractor[w].src < output[t].src
      BY <1>2, <2>3, <3>1 DEF Stage1Succeeded, Stamp
    <3>2. CASE ~(output[t] # None /\ extractor[w].src < output[t].src)
      <4> DEFINE selected == IF output[t] = None THEN 0 ELSE output[t].selected
                 new == [src |-> extractor[w].src, content |-> extractor[w].content,
                         selected |-> selected, by |-> extractor[w].token]
      <4>1. output' = [output EXCEPT ![t] = new]
        BY <1>2, <3>2 DEF Stage1Succeeded, Stamp
      <4>2. selected \in 0..MaxUpdates
        BY <2>3, MemoryAssumption DEF OutputType
      <4>3. extractor[w].src \in 1..MaxUpdates /\ extractor[w].content \in 1..MaxUpdates
            /\ extractor[w].token \in 1..MaxTokens
        BY <2>1, <2>4, MemoryAssumption DEF ExtractorType, LoadedOK, JobType
      <4>4. new \in OutputType
        BY <4>2, <4>3 DEF OutputType
      <4> HIDE DEF new
      <4>5. output'[t] = new /\ output' \in [Thread -> OutputType \cup {None}]
            /\ \A u \in Thread : u # t => output'[u] = output[u]
        BY <2>3, <4>1, <4>4
      <4> QED
        BY <4>5 DEF new
    <3> QED
      BY <3>1, <3>2
  <2>7. RowsOK(t)'
    <3>1. /\ cut' = cut /\ tokens' = tokens /\ updated' = updated /\ thread' = thread
      BY <2>2 DEF sources, history
    <3>2. /\ cut[t] < extractor[w].token /\ extractor[w].token <= tokens
          /\ thread[t] # "deleted"
      BY <1>2, <2>1, <2>3, <2>4 DEF RowsOK, LoadedOK, ExtractorType, Owns
    <3>3. CASE output'[t] = output[t] /\ output[t] # None /\ extractor[w].src < output[t].src
      <4>1. output[t] \in OutputType
        BY <2>3, <3>3
      <4> QED
        BY <2>1, <2>5, <3>1, <3>2, <3>3, <4>1 DEF RowsOK, ExtractorType, OutputType
    <3>4. CASE /\ output'[t].src = extractor[w].src /\ output'[t].by = extractor[w].token
               /\ output'[t].content = extractor[w].content
      BY <2>1, <2>4, <2>5, <3>1, <3>2, <3>4 DEF RowsOK, LoadedOK, ExtractorType
    <3> QED
      BY <2>6, <3>3, <3>4
  <2>8. global' \in GlobalType \cup {None} /\ GlobalOK'
    BY <2>2, EnqueueOK DEF IInv, GlobalOK, history
  <2> QED
    BY <2>2, <2>5, <2>6, <2>7, <2>8, JobEnds
<1> QED
    BY <1>1, <1>2

LEMMA Stage1NoOutputKeeps ==
    ASSUME IInv, NEW w \in Extractor, Stage1NoOutput(w)
    PROVE  IInv'
<1>1. CASE ~Owns(job[extractor[w].thread], extractor[w].token)
    BY <1>1, ReturnsToIdle DEF Stage1NoOutput
<1>2. CASE Owns(job[extractor[w].thread], extractor[w].token)
  <2> PICK t \in Thread : t = extractor[w].thread
    BY <1>2, OwnerFacts DEF Stage1NoOutput
  <2>1. job[t] \in JobType /\ job[t] # None /\ RowsOK(t)
    BY <1>2, OwnerFacts DEF Stage1NoOutput
  <2>2. /\ job' = [job EXCEPT ![t] = Done(t)] /\ output' = [output EXCEPT ![t] = None]
        /\ global' \in {global, Enqueue(global)}
        /\ extractor' = [extractor EXCEPT ![w] = IdleExtractor]
        /\ UNCHANGED <<sources, consolidator, tokens, history>>
    BY <1>2 DEF Stage1NoOutput
  <2>3. /\ job \in [Thread -> JobType \cup {None}] /\ output \in [Thread -> OutputType \cup {None}]
    BY DEF IInv, TypeOK
  <2>4. /\ job' \in [Thread -> JobType \cup {None}] /\ output' \in [Thread -> OutputType \cup {None}]
        /\ \A u \in Thread : u # t => job'[u] = job[u] /\ output'[u] = output[u]
        /\ job'[t].status = "done" /\ job'[t].token = job[t].token /\ output'[t] = None
    BY <2>1, <2>2, <2>3, DoneOK
  <2>5. RowsOK(t)'
    BY <2>1, <2>2, <2>4 DEF RowsOK, sources, history
  <2>6. global' \in GlobalType \cup {None} /\ GlobalOK'
    BY <2>2, EnqueueOK DEF IInv, TypeOK, GlobalOK, history
  <2> QED
    BY <2>2, <2>4, <2>5, <2>6, JobEnds
<1> QED
    BY <1>1, <1>2

-----------------------------------------------------------------------------
(* Steps of a consolidator. *)

(* The row is rewritten, but not its token; a row at rest does not start to run. *)
LEMMA GlobalRowOK ==
    ASSUME IInv, global # None,
           global'.token = global.token,
           global'.status = "running" => global.status = "running",
           UNCHANGED <<tokens, history>>
    PROVE  GlobalOK'
BY DEF IInv, GlobalOK, history

LEMMA ClaimGlobalKeeps ==
    ASSUME IInv, NEW w \in Consolidator, ClaimGlobal(w)
    PROVE  IInv'
<1>1. tokens' = tokens + 1 /\ tokens' \in 0..MaxTokens /\ tokens \in Nat
    BY MemoryAssumption DEF IInv, TypeOK, ClaimGlobal
<1>2. consolidator' \in [Consolidator -> ConsolidatorType]
  <2>1. consolidator \in [Consolidator -> ConsolidatorType]
    BY DEF IInv, TypeOK
  <2>2. consolidator' = [consolidator EXCEPT ![w].pc = "claimed", ![w].token = tokens']
    BY DEF ClaimGlobal
  <2> QED
    BY <1>1, <2>1, <2>2 DEF ConsolidatorType
<1>3. global' \in GlobalType /\ global'.token = tokens'
  <2>1. /\ global' = [status |-> "running", token |-> tokens', lease |-> Lease, retry |-> 0,
                      cool |-> 0]
        /\ 0 \in 0..RetryDelay /\ 0 \in 0..Cooldown /\ Lease \in 0..Lease
    BY MemoryAssumption DEF ClaimGlobal
  <2> QED
    BY <1>1, <2>1 DEF GlobalType
<1>4. TypeOK'
    BY <1>1, <1>2, <1>3 DEF IInv, TypeOK, ClaimGlobal, sources, history
<1>5. ASSUME NEW t \in Thread PROVE RowsOK(t)'
  <2>1. RowsOK(t) /\ cut[t] \in Nat /\ (job[t] # None => job[t] \in JobType)
    BY MemoryAssumption DEF IInv, TypeOK
  <2> QED
    BY <1>1, <2>1 DEF RowsOK, JobType, ClaimGlobal, sources, history
<1>6. ASSUME NEW v \in Extractor PROVE WorkerOK(extractor[v])'
  <2>1. WorkerOK(extractor[v]) /\ extractor[v] \in ExtractorType
    BY DEF IInv, TypeOK
  <2> QED
    BY <1>1, <2>1 DEF WorkerOK, ClaimedOK, LoadedOK, ExtractorType, ClaimGlobal, sources, history
<1>7. GlobalOK'
    BY <1>1, <1>3, MemoryAssumption DEF IInv, TypeOK, GlobalOK, ClaimGlobal, history
<1> QED
    BY <1>4, <1>5, <1>6, <1>7 DEF IInv

LEMMA SelectInputsKeeps ==
    ASSUME IInv, NEW w \in Consolidator, SelectInputs(w)
    PROVE  IInv'
<1>1. /\ consolidator \in [Consolidator -> ConsolidatorType]
      /\ output \in [Thread -> OutputType \cup {None}]
      /\ global \in GlobalType \cup {None} /\ GlobalOK'
    BY DEF IInv, TypeOK, GlobalOK, SelectInputs, history
<1>2. PICK S \in SUBSET Eligible :
          consolidator' = [consolidator EXCEPT ![w].pc = "selected",
                              ![w].selection = {<<t, output[t].src>> : t \in S}]
    BY DEF SelectInputs
<1>3. {<<t, output[t].src>> : t \in S} \in SUBSET (Thread \X (1..MaxUpdates))
    BY <1>1, <1>2 DEF Eligible, OutputType
<1>4. consolidator' \in [Consolidator -> ConsolidatorType]
    BY <1>1, <1>2, <1>3 DEF ConsolidatorType
<1> QED
    BY <1>1, <1>4, ConsolidatorStep DEF SelectInputs

LEMMA SpawnAgentKeeps ==
    ASSUME IInv, NEW w \in Consolidator, SpawnAgent(w)
    PROVE  IInv'
<1>1. /\ consolidator \in [Consolidator -> ConsolidatorType]
      /\ global \in GlobalType \cup {None} /\ GlobalOK'
    BY DEF IInv, TypeOK, GlobalOK, SpawnAgent, history
<1>2. consolidator' \in [Consolidator -> ConsolidatorType]
    BY <1>1 DEF ConsolidatorType, SpawnAgent
<1> QED
    BY <1>1, <1>2, ConsolidatorStep DEF SpawnAgent

LEMMA AgentEndsKeeps ==
    ASSUME IInv, NEW w \in Consolidator, AgentEnds(w)
    PROVE  IInv'
<1>1. /\ consolidator \in [Consolidator -> ConsolidatorType]
      /\ global \in GlobalType \cup {None} /\ GlobalOK'
    BY DEF IInv, TypeOK, GlobalOK, AgentEnds, history
<1>2. PICK status \in {"completed", "errored"} :
          consolidator' = [consolidator EXCEPT ![w].pc = status]
    BY DEF AgentEnds
<1>3. consolidator' \in [Consolidator -> ConsolidatorType]
    BY <1>1, <1>2 DEF ConsolidatorType
<1> QED
    BY <1>1, <1>3, ConsolidatorStep DEF AgentEnds

LEMMA ShutdownFailsKeeps ==
    ASSUME IInv, NEW w \in Consolidator, ShutdownFails(w)
    PROVE  IInv'
<1>1. /\ consolidator \in [Consolidator -> ConsolidatorType]
      /\ global \in GlobalType \cup {None} /\ GlobalOK'
    BY DEF IInv, TypeOK, GlobalOK, ShutdownFails, history
<1>2. consolidator' \in [Consolidator -> ConsolidatorType]
    BY <1>1 DEF ConsolidatorType, ShutdownFails
<1> QED
    BY <1>1, <1>2, ConsolidatorStep DEF ShutdownFails

LEMMA ConsolidatorDiesKeeps ==
    ASSUME IInv, NEW w \in Consolidator, ConsolidatorDies(w)
    PROVE  IInv'
<1>1. /\ consolidator \in [Consolidator -> ConsolidatorType]
      /\ global \in GlobalType \cup {None} /\ GlobalOK'
    BY DEF IInv, TypeOK, GlobalOK, ConsolidatorDies, history
<1> QED
    BY <1>1, IdleConsolidatorOK, ConsolidatorStep DEF ConsolidatorDies

(* A heartbeat of the owner. *)
LEMMA ExtendedOK ==
    ASSUME IInv, global # None, global' = [global EXCEPT !.lease = Lease],
           UNCHANGED <<tokens, history>>
    PROVE  global' \in GlobalType /\ GlobalOK'
<1>1. global \in GlobalType /\ Lease \in 0..Lease
    BY MemoryAssumption DEF IInv, TypeOK
<1>2. global' \in GlobalType
    BY <1>1 DEF GlobalType
<1>3. global'.token = global.token /\ global'.status = global.status
    BY <1>1 DEF GlobalType
<1> QED
    BY <1>2, <1>3, GlobalRowOK

LEMMA HeartbeatKeeps ==
    ASSUME IInv, NEW w \in Consolidator, Heartbeat(w)
    PROVE  IInv'
<1>1. consolidator \in [Consolidator -> ConsolidatorType] /\ global \in GlobalType \cup {None}
    BY DEF IInv, TypeOK
<1>2. CASE Owns(global, consolidator[w].token)
  <2>1. global # None /\ global' = [global EXCEPT !.lease = Lease] /\ consolidator' = consolidator
    BY <1>2 DEF Heartbeat, Owns
  <2>2. global' \in GlobalType /\ GlobalOK'
    BY <2>1, ExtendedOK DEF Heartbeat
  <2> QED
    BY <1>1, <2>1, <2>2, ConsolidatorStep DEF Heartbeat
<1>3. CASE ~Owns(global, consolidator[w].token)
  <2>1. consolidator' = [consolidator EXCEPT ![w].pc = "errored"] /\ global' = global
    BY <1>3 DEF Heartbeat
  <2>2. consolidator' \in [Consolidator -> ConsolidatorType]
    BY <1>1, <2>1 DEF ConsolidatorType
  <2>3. GlobalOK'
    BY <2>1 DEF IInv, GlobalOK, Heartbeat, history
  <2> QED
    BY <1>1, <2>1, <2>2, <2>3, ConsolidatorStep DEF Heartbeat
<1> QED
    BY <1>2, <1>3

LEMMA ConfirmOwnershipKeeps ==
    ASSUME IInv, NEW w \in Consolidator, ConfirmOwnership(w)
    PROVE  IInv'
<1>1. consolidator \in [Consolidator -> ConsolidatorType] /\ global \in GlobalType \cup {None}
    BY DEF IInv, TypeOK
<1>2. CASE Owns(global, consolidator[w].token)
  <2>1. /\ global # None /\ global' = [global EXCEPT !.lease = Lease]
        /\ consolidator' = [consolidator EXCEPT ![w].pc = "confirmed"]
    BY <1>2 DEF ConfirmOwnership, Owns
  <2>2. global' \in GlobalType /\ GlobalOK'
    BY <2>1, ExtendedOK DEF ConfirmOwnership
  <2>3. consolidator' \in [Consolidator -> ConsolidatorType]
    BY <1>1, <2>1 DEF ConsolidatorType
  <2> QED
    BY <2>2, <2>3, ConsolidatorStep DEF ConfirmOwnership
<1>3. CASE ~Owns(global, consolidator[w].token)
  <2>1. consolidator' = [consolidator EXCEPT ![w] = IdleConsolidator] /\ global' = global
    BY <1>3 DEF ConfirmOwnership
  <2>2. GlobalOK'
    BY <2>1 DEF IInv, GlobalOK, ConfirmOwnership, history
  <2> QED
    BY <1>1, <2>1, <2>2, IdleConsolidatorOK, ConsolidatorStep DEF ConfirmOwnership
<1> QED
    BY <1>2, <1>3

LEMMA GlobalFailedKeeps ==
    ASSUME IInv, NEW w \in Consolidator, GlobalFailed(w)
    PROVE  IInv'
<1>1. /\ consolidator' \in [Consolidator -> ConsolidatorType] /\ global \in GlobalType \cup {None}
      /\ UNCHANGED <<tokens, history>>
    BY IdleConsolidatorOK DEF IInv, TypeOK, GlobalFailed
<1>2. global' \in GlobalType \cup {None} /\ GlobalOK'
  <2>1. CASE Owns(global, consolidator[w].token)
    <3>1. /\ global \in GlobalType /\ global # None
          /\ global' = [global EXCEPT !.status = "error", !.lease = 0, !.retry = RetryDelay]
      BY <1>1, <2>1 DEF GlobalFailed, Owns
    <3>2. 0 \in 0..Lease /\ RetryDelay \in 0..RetryDelay
      BY MemoryAssumption
    <3>3. global' \in GlobalType
      BY <3>1, <3>2 DEF GlobalType
    <3>4. global'.token = global.token /\ global'.status = "error"
      BY <3>1 DEF GlobalType
    <3> QED
      BY <1>1, <3>1, <3>3, <3>4, GlobalRowOK
  <2>2. CASE ~Owns(global, consolidator[w].token)
    BY <1>1, <2>2 DEF IInv, GlobalOK, GlobalFailed, history
  <2> QED
    BY <2>1, <2>2
<1> QED
    BY <1>1, <1>2, ConsolidatorStep DEF GlobalFailed

LEMMA GlobalSucceededKeeps ==
    ASSUME IInv, NEW w \in Consolidator, GlobalSucceeded(w)
    PROVE  IInv'
<1>1. /\ consolidator \in [Consolidator -> ConsolidatorType] /\ global \in GlobalType \cup {None}
      /\ output \in [Thread -> OutputType \cup {None}] /\ tokens \in Nat
    BY MemoryAssumption DEF IInv, TypeOK
<1>2. consolidator' \in [Consolidator -> ConsolidatorType]
    BY <1>1, IdleConsolidatorOK DEF GlobalSucceeded
<1>3. CASE ~Owns(global, consolidator[w].token)
  <2>1. UNCHANGED <<global, output, consolidated, cut, tokens>>
    BY <1>3 DEF GlobalSucceeded
  <2>2. GlobalOK'
    BY <2>1 DEF IInv, GlobalOK
  <2> QED
    BY <1>1, <1>2, <2>1, <2>2, ConsolidatorStep DEF GlobalSucceeded, history
<1>4. CASE Owns(global, consolidator[w].token)
  <2>1. /\ global' \in GlobalType /\ global'.token = global.token /\ global'.status = "done"
        /\ consolidated' = global.token /\ global.token \in 0..MaxTokens
        /\ global.token <= tokens
    <3>1. /\ global \in GlobalType /\ global # None /\ consolidated' = global.token
          /\ global' = [global EXCEPT !.status = "done", !.lease = 0, !.cool = Cooldown]
      BY <1>1, <1>4 DEF GlobalSucceeded, Owns
    <3>2. 0 \in 0..Lease /\ Cooldown \in 0..Cooldown
      BY MemoryAssumption
    <3>3. global' \in GlobalType
      BY <3>1, <3>2 DEF GlobalType
    <3>4. global'.token = global.token /\ global'.status = "done"
      BY <3>1 DEF GlobalType
    <3> QED
      BY <3>1, <3>3, <3>4 DEF IInv, GlobalOK, GlobalType
  <2>2. ASSUME NEW t \in Thread
        PROVE  /\ output[t] = None => output'[t] = None
               /\ output[t] # None =>
                     /\ output'[t] \in OutputType
                     /\ output'[t].src = output[t].src /\ output'[t].by = output[t].by
                     /\ output'[t].content = output[t].content
    <3> DEFINE mark == IF <<t, output[t].src>> \in consolidator[w].selection
                       THEN output[t].src ELSE 0
    <3>1. output'[t] = IF output[t] = None THEN None ELSE [output[t] EXCEPT !.selected = mark]
      BY <1>4 DEF GlobalSucceeded
    <3>2. output[t] # None => output[t] \in OutputType /\ mark \in 0..MaxUpdates
      BY <1>1, MemoryAssumption DEF OutputType
    <3> HIDE DEF mark
    <3>3. output[t] # None => output'[t] \in OutputType
      BY <3>1, <3>2 DEF OutputType
    <3> QED
      BY <3>1, <3>2, <3>3 DEF OutputType
  <2>3. output' \in [Thread -> OutputType \cup {None}]
    <3>1. output' = [t \in Thread |-> output'[t]]
      BY <1>4 DEF GlobalSucceeded
    <3> QED
      BY <2>2, <3>1
  <2>4. UNCHANGED <<updated, thread, polluted, job, extractor, tokens, cut>>
    BY DEF GlobalSucceeded, sources
  <2>5. TypeOK'
    BY <1>2, <2>1, <2>3, <2>4 DEF IInv, TypeOK
  <2>6. \A t \in Thread : RowsOK(t)'
    BY <2>2, <2>4 DEF IInv, RowsOK
  <2>7. \A v \in Extractor : WorkerOK(extractor[v])'
    BY <2>2, <2>4 DEF IInv, WorkerOK, ClaimedOK, LoadedOK
  <2>8. GlobalOK'
    BY <2>1, <2>4 DEF GlobalOK
  <2> QED
    BY <2>5, <2>6, <2>7, <2>8 DEF IInv
<1> QED
    BY <1>3, <1>4

-----------------------------------------------------------------------------
(* The user, and time. *)

LEMMA UpdateKeeps ==
    ASSUME IInv, NEW t \in Thread, Update(t)
    PROVE  IInv'
<1>1. /\ updated \in [Thread -> 1..MaxUpdates]
      /\ updated' = [updated EXCEPT ![t] = updated[t] + 1] /\ updated[t] < MaxUpdates
      /\ UNCHANGED <<thread, polluted, output, job, global, extractor, consolidator, tokens, history>>
    BY DEF IInv, TypeOK, Update
<1>2. /\ updated' \in [Thread -> 1..MaxUpdates]
      /\ \A u \in Thread : updated[u] <= updated'[u] /\ updated[u] \in Nat /\ updated'[u] \in Nat
    BY <1>1, MemoryAssumption
<1>3. TypeOK'
    BY <1>1, <1>2 DEF IInv, TypeOK, history
<1>4. ASSUME NEW u \in Thread PROVE RowsOK(u)'
  <2>1. RowsOK(u) /\ (output[u] # None => output[u] \in OutputType)
    BY DEF IInv, TypeOK
  <2> QED
    BY <1>1, <1>2, <2>1 DEF RowsOK, OutputType, history
<1>5. ASSUME NEW v \in Extractor PROVE WorkerOK(extractor[v])'
  <2>1. WorkerOK(extractor[v]) /\ extractor[v] \in ExtractorType
    BY DEF IInv, TypeOK
  <2> QED
    BY <1>1, <1>2, <2>1 DEF WorkerOK, ClaimedOK, LoadedOK, ExtractorType, history
<1>6. GlobalOK'
    BY <1>1 DEF IInv, GlobalOK, history
<1> QED
    BY <1>3, <1>4, <1>5, <1>6 DEF IInv

LEMMA MarkPollutedKeeps ==
    ASSUME IInv, NEW t \in Thread, MarkPolluted(t)
    PROVE  IInv'
<1>1. /\ UNCHANGED <<updated, thread, output, job, extractor, consolidator, tokens, history>>
      /\ polluted' = polluted \cup {t} /\ global' \in {global, Enqueue(global)}
    BY DEF MarkPolluted
<1>2. TypeOK' /\ GlobalOK'
    BY <1>1, EnqueueOK DEF IInv, TypeOK, GlobalOK, history
<1>3. \A u \in Thread : RowsOK(u)'
    BY <1>1 DEF IInv, RowsOK, history
<1>4. \A v \in Extractor : WorkerOK(extractor[v])'
    BY <1>1 DEF IInv, WorkerOK, ClaimedOK, LoadedOK, history
<1> QED
    BY <1>2, <1>3, <1>4 DEF IInv

LEMMA DeleteRolloutKeeps ==
    ASSUME IInv, NEW t \in Thread, DeleteRollout(t)
    PROVE  IInv'
<1>1. /\ UNCHANGED <<updated, polluted, output, job, global, extractor, consolidator, tokens, history>>
      /\ thread' \in [Thread -> {"live", "unrolled", "deleted"}]
      /\ \A u \in Thread : thread'[u] = "deleted" <=> thread[u] = "deleted"
    BY DEF IInv, TypeOK, DeleteRollout
<1>2. TypeOK' /\ GlobalOK'
    BY <1>1 DEF IInv, TypeOK, GlobalOK, history
<1>3. \A u \in Thread : RowsOK(u)'
    BY <1>1 DEF IInv, RowsOK, history
<1>4. \A v \in Extractor : WorkerOK(extractor[v])'
    BY <1>1 DEF IInv, WorkerOK, ClaimedOK, LoadedOK, history
<1> QED
    BY <1>2, <1>3, <1>4 DEF IInv

LEMMA PruneKeeps ==
    ASSUME IInv, NEW t \in Thread, Prune(t)
    PROVE  IInv'
<1>1. /\ UNCHANGED <<sources, job, global, extractor, consolidator, tokens, history>>
      /\ output' \in [Thread -> OutputType \cup {None}]
      /\ \A u \in Thread : output'[u] = output[u] \/ output'[u] = None
    BY DEF IInv, TypeOK, Prune
<1>2. TypeOK' /\ GlobalOK'
    BY <1>1 DEF IInv, TypeOK, GlobalOK, sources, history
<1>3. \A u \in Thread : RowsOK(u)'
    BY <1>1 DEF IInv, RowsOK, sources, history
<1>4. \A v \in Extractor : WorkerOK(extractor[v])'
    BY <1>1 DEF IInv, WorkerOK, ClaimedOK, LoadedOK, sources, history
<1> QED
    BY <1>2, <1>3, <1>4 DEF IInv

(* The memory of the threads of S is deleted: their rows go, and every token given
   so far is cut off. *)
LEMMA MemoryDeleted ==
    ASSUME IInv, NEW S \in SUBSET Thread,
           output' \in [Thread -> OutputType \cup {None}],
           job' \in [Thread -> JobType \cup {None}],
           cut' \in [Thread -> 0..MaxTokens],
           thread' \in [Thread -> {"live", "unrolled", "deleted"}],
           \A u \in S : output'[u] = None /\ job'[u] = None /\ cut'[u] = tokens,
           \A u \in Thread \ S :
              /\ output'[u] = output[u] /\ job'[u] = job[u]
              /\ cut'[u] = cut[u] /\ thread'[u] = thread[u],
           global' \in GlobalType \cup {None}, GlobalOK',
           UNCHANGED <<updated, polluted, extractor, consolidator, tokens, consolidated>>
    PROVE  IInv'
<1>1. TypeOK' /\ tokens \in Nat
    BY MemoryAssumption DEF IInv, TypeOK
<1>2. ASSUME NEW u \in Thread PROVE RowsOK(u)'
  <2>1. RowsOK(u)
    BY DEF IInv
  <2>2. CASE u \in S
    BY <1>1, <2>2 DEF RowsOK
  <2>3. CASE u \notin S
    BY <2>1, <2>3 DEF RowsOK
  <2> QED
    BY <2>2, <2>3
<1>3. ASSUME NEW v \in Extractor PROVE WorkerOK(extractor[v])'
  <2>1. WorkerOK(extractor[v]) /\ extractor'[v] = extractor[v]
    BY DEF IInv
  <2>2. CASE extractor[v].thread \in S
    BY <2>1, <2>2 DEF WorkerOK, ClaimedOK, LoadedOK, Owns
  <2>3. CASE extractor[v].thread \notin S
    BY <2>1, <2>3 DEF WorkerOK, ClaimedOK, LoadedOK
  <2> QED
    BY <2>2, <2>3
<1> QED
    BY <1>1, <1>2, <1>3 DEF IInv

LEMMA DeleteThreadMemoryKeeps ==
    ASSUME IInv, NEW t \in Thread, DeleteThreadMemory(t)
    PROVE  IInv'
<1>1. /\ output' \in [Thread -> OutputType \cup {None}] /\ job' \in [Thread -> JobType \cup {None}]
      /\ cut' \in [Thread -> 0..MaxTokens] /\ thread' \in [Thread -> {"live", "unrolled", "deleted"}]
      /\ output'[t] = None /\ job'[t] = None /\ cut'[t] = tokens
      /\ \A u \in Thread \ {t} : /\ output'[u] = output[u] /\ job'[u] = job[u]
                                 /\ cut'[u] = cut[u] /\ thread'[u] = thread[u]
    BY DEF IInv, TypeOK, DeleteThreadMemory
<1>2. /\ UNCHANGED <<updated, polluted, extractor, consolidator, tokens, consolidated>>
      /\ global' \in {global, Enqueue(global)}
    BY DEF DeleteThreadMemory
<1>3. global' \in GlobalType \cup {None} /\ GlobalOK'
    BY <1>2, EnqueueOK DEF IInv, TypeOK, GlobalOK
<1>4. \A u \in {t} : output'[u] = None /\ job'[u] = None /\ cut'[u] = tokens
    BY <1>1
<1>5. {t} \in SUBSET Thread
    OBVIOUS
<1> QED
    BY <1>1, <1>2, <1>3, <1>4, <1>5, MemoryDeleted

LEMMA ClearMemoryDataKeeps ==
    ASSUME IInv, ClearMemoryData
    PROVE  IInv'
<1>1. /\ output' \in [Thread -> OutputType \cup {None}] /\ job' \in [Thread -> JobType \cup {None}]
      /\ cut' \in [Thread -> 0..MaxTokens] /\ thread' \in [Thread -> {"live", "unrolled", "deleted"}]
      /\ \A u \in Thread : output'[u] = None /\ job'[u] = None /\ cut'[u] = tokens
    BY DEF IInv, TypeOK, ClearMemoryData, sources
<1>2. /\ UNCHANGED <<updated, polluted, extractor, consolidator, tokens, consolidated>>
      /\ global' = None /\ GlobalOK'
    BY DEF IInv, GlobalOK, ClearMemoryData, sources
<1>3. Thread \in SUBSET Thread /\ Thread \ Thread = {}
    OBVIOUS
<1> QED
    BY <1>1, <1>2, <1>3, MemoryDeleted

LEMMA LessOK == ASSUME NEW m \in Nat, NEW n \in 0..m PROVE Less(n) \in 0..m
BY DEF Less

LEMMA TickKeeps ==
    ASSUME IInv, Tick
    PROVE  IInv'
<1>1. /\ UNCHANGED <<updated, thread, polluted, output, extractor, consolidator, tokens, cut,
                     consolidated>>
    BY DEF Tick, sources, history
<1>2. ASSUME NEW t \in Thread
      PROVE  /\ job[t] = None => job'[t] = None
             /\ job[t] # None =>
                   /\ job'[t] \in JobType
                   /\ job'[t].status = job[t].status /\ job'[t].token = job[t].token
                   /\ job'[t].retries = job[t].retries /\ job'[t].input = job[t].input
                   /\ job'[t].success = job[t].success
  <2>1. job'[t] = IF job[t] = None THEN None
                  ELSE [job[t] EXCEPT !.lease = Less(job[t].lease), !.retry = Less(job[t].retry)]
    BY DEF Tick
  <2>2. job[t] # None => /\ job[t] \in JobType
                         /\ Less(job[t].lease) \in 0..Lease /\ Less(job[t].retry) \in 0..RetryDelay
    BY MemoryAssumption, LessOK DEF IInv, TypeOK, JobType
  <2>3. job[t] # None => job'[t] \in JobType
    BY <2>1, <2>2 DEF JobType
  <2> QED
    BY <2>1, <2>2, <2>3 DEF JobType
<1>3. job' \in [Thread -> JobType \cup {None}]
  <2>1. job' = [t \in Thread |-> job'[t]]
    BY DEF Tick
  <2> QED
    BY <1>2, <2>1
<1>4. /\ global = None => global' = None
      /\ global # None => /\ global' \in GlobalType /\ global'.status = global.status
                          /\ global'.token = global.token
  <2>1. global' = IF global = None THEN None
                  ELSE [global EXCEPT !.lease = Less(global.lease), !.retry = Less(global.retry),
                                      !.cool = Less(global.cool)]
    BY DEF Tick
  <2>2. global # None =>
            /\ global \in GlobalType
            /\ Less(global.lease) \in 0..Lease /\ Less(global.retry) \in 0..RetryDelay
            /\ Less(global.cool) \in 0..Cooldown
    BY MemoryAssumption, LessOK DEF IInv, TypeOK, GlobalType
  <2>3. global # None => global' \in GlobalType
    BY <2>1, <2>2 DEF GlobalType
  <2> QED
    BY <2>1, <2>2, <2>3 DEF GlobalType
<1>5. TypeOK' /\ GlobalOK'
    BY <1>1, <1>3, <1>4 DEF IInv, TypeOK, GlobalOK
<1>6. \A t \in Thread : RowsOK(t)'
    BY <1>1, <1>2 DEF IInv, RowsOK
<1>7. \A v \in Extractor : WorkerOK(extractor[v])'
  <2>1. \A t \in Thread : \A k : Owns(job'[t], k) => Owns(job[t], k) /\ job'[t].input = job[t].input
    BY <1>2 DEF Owns
  <2> QED
    BY <1>1, <2>1 DEF IInv, WorkerOK, ClaimedOK, LoadedOK
<1> QED
    BY <1>5, <1>6, <1>7 DEF IInv

-----------------------------------------------------------------------------
LEMMA InitOK == Init => IInv
<1> SUFFICES ASSUME Init PROVE IInv
    OBVIOUS
<1>1. TypeOK
    BY MemoryAssumption, IdleOK, IdleConsolidatorOK DEF Init, TypeOK
<1>2. \A t \in Thread : RowsOK(t)
    BY DEF Init, RowsOK
<1>3. \A w \in Extractor : WorkerOK(extractor[w])
    BY IdleOK DEF Init
<1>4. GlobalOK
    BY DEF Init, GlobalOK
<1> QED
    BY <1>1, <1>2, <1>3, <1>4 DEF IInv

LEMMA NextKeeps == IInv /\ [Next]_vars => IInv'
<1> SUFFICES ASSUME IInv, [Next]_vars PROVE IInv'
    OBVIOUS
<1>1. ASSUME NEW w \in Extractor, Extract(w) PROVE IInv'
    BY <1>1, ListThreadKeeps, ClaimStage1Keeps, SkipStage1Keeps, LoadRolloutKeeps,
       Stage1SucceededKeeps, Stage1NoOutputKeeps, Stage1FailedKeeps, ExtractorDiesKeeps
       DEF Extract
<1>2. ASSUME NEW w \in Consolidator, Consolidate(w) PROVE IInv'
    BY <1>2, ClaimGlobalKeeps, SelectInputsKeeps, SpawnAgentKeeps, HeartbeatKeeps,
       AgentEndsKeeps, ShutdownFailsKeeps, ConfirmOwnershipKeeps, GlobalSucceededKeeps,
       GlobalFailedKeeps, ConsolidatorDiesKeeps DEF Consolidate
<1>3. CASE User
    BY <1>3, UpdateKeeps, MarkPollutedKeeps, DeleteRolloutKeeps, DeleteThreadMemoryKeeps,
       PruneKeeps, ClearMemoryDataKeeps DEF User
<1>4. CASE Tick
    BY <1>4, TickKeeps
<1>5. CASE UNCHANGED vars
  <2>1. UNCHANGED <<updated, thread, polluted, output, job, global, extractor, consolidator,
                    tokens, cut, consolidated>>
    BY <1>5 DEF vars
  <2>2. TypeOK' /\ GlobalOK'
    BY <2>1 DEF IInv, TypeOK, GlobalOK
  <2>3. \A t \in Thread : RowsOK(t)'
    BY <2>1 DEF IInv, RowsOK
  <2>4. \A v \in Extractor : WorkerOK(extractor[v])'
    BY <2>1 DEF IInv, WorkerOK, ClaimedOK, LoadedOK
  <2> QED
    BY <2>2, <2>3, <2>4 DEF IInv
<1> QED
    BY <1>1, <1>2, <1>3, <1>4, <1>5 DEF Next

(* The inductive invariant holds of every state the pipeline reaches, whatever the
   number of threads and workers, the leases and the crashes. *)
THEOREM MemoryInvariant == Spec => []IInv
<1> QED
    BY InitOK, NextKeeps, PTL DEF Spec

(* The rows and the workers have their types; in particular the retries of a job,
   which every failure of an owner takes one from, never fall below zero. *)
THEOREM MemoryTypes == Spec => []TypeOK
<1>1. IInv => TypeOK
    BY DEF IInv
<1> QED
    BY <1>1, MemoryInvariant, PTL

(* No update of a thread is missed: while try_claim_stage1_job treats a thread as up
   to date, the output it has was made from the thread's latest contents. *)
THEOREM MemoryMissesNoUpdate == Spec => []NoUpdateMissed
<1>1. IInv => NoUpdateMissed
  <2> SUFFICES ASSUME IInv, NEW t \in Thread, UpToDate(t, updated[t]), output[t] # None
               PROVE  output[t].content = updated[t]
    BY DEF NoUpdateMissed
  <2>1. RowsOK(t) /\ output[t] \in OutputType /\ updated[t] \in Nat
        /\ (job[t] # None => job[t] \in JobType)
    BY MemoryAssumption DEF IInv, TypeOK
  <2> QED
    BY <2>1 DEF RowsOK, UpToDate, OutputType, JobType
<1> QED
    BY <1>1, MemoryInvariant, PTL

(* What was forgotten stays forgotten: an output was claimed after the last deletion
   of its thread's memory, and a deleted thread has none. *)
THEOREM MemoryStaysForgotten == Spec => []ForgottenStaysForgotten
<1>1. IInv => ForgottenStaysForgotten
  <2> SUFFICES ASSUME IInv, NEW t \in Thread, output[t] # None
               PROVE  output[t].by > cut[t] /\ thread[t] # "deleted"
    BY DEF ForgottenStaysForgotten
  <2>1. RowsOK(t) /\ output[t] \in OutputType /\ cut[t] \in Nat
    BY MemoryAssumption DEF IInv, TypeOK
  <2> QED
    BY <2>1 DEF RowsOK, OutputType
<1> QED
    BY <1>1, MemoryInvariant, PTL

(* Only the owner of the running row replaces an output, and what it read is not
   older than what is there. *)
LEMMA ContentsGrow ==
    ASSUME IInv, [Next]_vars, NEW t \in Thread, output[t] # None, output'[t] # None
    PROVE  output'[t].content >= output[t].content
<1>1. output \in [Thread -> OutputType \cup {None}] /\ output[t] \in OutputType
    BY DEF IInv, TypeOK
<1> USE <1>1 DEF OutputType
<1>2. ASSUME NEW w \in Extractor, Extract(w) PROVE output'[t].content >= output[t].content
  <2>1. CASE Stage1Succeeded(w)
    <3>1. CASE ~Owns(job[extractor[w].thread], extractor[w].token)
      BY <2>1, <3>1 DEF Stage1Succeeded
    <3>2. CASE Owns(job[extractor[w].thread], extractor[w].token)
      <4>1. LoadedOK(extractor[w], extractor[w].thread) /\ extractor[w].thread \in Thread
        BY <2>1 DEF IInv, WorkerOK, Stage1Succeeded
      <4>2. extractor[w] \in ExtractorType
        BY DEF IInv, TypeOK
      <4>3. \/ output'[t] = output[t]
            \/ t = extractor[w].thread /\ output'[t].content = extractor[w].content
        BY <2>1, <3>2, <4>1 DEF Stage1Succeeded
      <4> QED
        BY <3>2, <4>1, <4>2, <4>3 DEF LoadedOK, ExtractorType
    <3> QED
      BY <3>1, <3>2
  <2>2. CASE Stage1NoOutput(w)
    <3>1. extractor[w].thread \in Thread
      BY <2>2 DEF IInv, WorkerOK, Stage1NoOutput
    <3>2. output'[t] = output[t] \/ output'[t] = None
      BY <2>2, <3>1 DEF Stage1NoOutput
    <3> QED
      BY <3>2
  <2>3. CASE ~Stage1Succeeded(w) /\ ~Stage1NoOutput(w)
    <3>1. output' = output
      BY <1>2, <2>3 DEF Extract, ListThread, ClaimStage1, SkipStage1, LoadRollout, Stage1Failed,
                        ExtractorDies
    <3> QED
      BY <3>1
  <2> QED
    BY <2>1, <2>2, <2>3
<1>3. ASSUME NEW w \in Consolidator, Consolidate(w) PROVE output'[t].content >= output[t].content
  <2>1. CASE GlobalSucceeded(w)
    <3>1. \/ output'[t] = output[t]
          \/ \E n : output'[t] = [output[t] EXCEPT !.selected = n]
      BY <2>1 DEF GlobalSucceeded
    <3>2. output'[t].content = output[t].content
      BY <3>1
    <3> QED
      BY <3>2
  <2>2. CASE ~GlobalSucceeded(w)
    <3>1. output' = output
      BY <1>3, <2>2 DEF Consolidate, ClaimGlobal, SelectInputs, SpawnAgent, Heartbeat, AgentEnds,
                        ShutdownFails, ConfirmOwnership, GlobalFailed, ConsolidatorDies
    <3> QED
      BY <3>1
  <2> QED
    BY <2>1, <2>2
<1>4. CASE User
  <2>1. output'[t] = output[t] \/ output'[t] = None
    BY <1>4 DEF User, Update, MarkPolluted, DeleteRollout, DeleteThreadMemory, Prune,
                ClearMemoryData
  <2> QED
    BY <2>1
<1>5. CASE Tick \/ UNCHANGED vars
  <2>1. output' = output
    BY <1>5 DEF Tick, vars
  <2> QED
    BY <2>1
<1> QED
    BY <1>2, <1>3, <1>4, <1>5 DEF Next

(* An output is never replaced by one made from older contents, although a worker
   whose lease ran out may finish after the one that took the job over. *)
THEOREM MemoryOutputNeverOlder == Spec => OutputNeverOlder
<1>1. IInv /\ [Next]_vars =>
          [\A t \in Thread : output[t] # None /\ output'[t] # None =>
              output'[t].content >= output[t].content]_vars
    BY ContentsGrow
<1> QED
    BY <1>1, MemoryInvariant, PTL DEF Spec, OutputNeverOlder

(* Only the owner of the running row succeeds, and its token is the latest. *)
LEMMA ConsolidatedGrows ==
    ASSUME IInv, [Next]_vars
    PROVE  consolidated' >= consolidated
<1>1. consolidated \in Nat
    BY MemoryAssumption DEF IInv, TypeOK
<1>2. ASSUME NEW w \in Consolidator, GlobalSucceeded(w),
             Owns(global, consolidator[w].token)
      PROVE  consolidated' >= consolidated
  <2>1. consolidated' = global.token /\ global # None /\ global.status = "running"
    BY <1>2 DEF GlobalSucceeded, Owns
  <2>2. global.token \in Nat
    BY <2>1, MemoryAssumption DEF IInv, TypeOK, GlobalType
  <2> QED
    BY <1>1, <2>1, <2>2 DEF IInv, GlobalOK
<1>3. CASE ~\E w \in Consolidator : /\ GlobalSucceeded(w)
                                    /\ Owns(global, consolidator[w].token)
  <2>1. ASSUME NEW w \in Extractor, Extract(w) PROVE consolidated' = consolidated
    BY <2>1 DEF Extract, ListThread, ClaimStage1, SkipStage1, LoadRollout, Stage1Succeeded,
                Stage1NoOutput, Stage1Failed, ExtractorDies, history
  <2>2. ASSUME NEW w \in Consolidator, Consolidate(w) PROVE consolidated' = consolidated
    BY <1>3, <2>2 DEF Consolidate, ClaimGlobal, SelectInputs, SpawnAgent, Heartbeat, AgentEnds,
                      ShutdownFails, ConfirmOwnership, GlobalSucceeded, GlobalFailed,
                      ConsolidatorDies, history
  <2>3. ASSUME User PROVE consolidated' = consolidated
    BY <2>3 DEF User, Update, MarkPolluted, DeleteRollout, DeleteThreadMemory, Prune,
                ClearMemoryData, history
  <2>4. ASSUME Tick \/ UNCHANGED vars PROVE consolidated' = consolidated
    BY <2>4 DEF Tick, vars, history
  <2>5. consolidated' = consolidated
    BY <2>1, <2>2, <2>3, <2>4 DEF Next
  <2> QED
    BY <1>1, <2>5
<1> QED
    BY <1>2, <1>3

(* Consolidations succeed in the order they were claimed: the token of the last one
   never decreases, whatever leases ran out and whoever took over. *)
THEOREM MemoryConsolidationsInOrder == Spec => ConsolidationsInOrder
<1>1. IInv /\ [Next]_vars => [consolidated' >= consolidated]_vars
    BY ConsolidatedGrows
<1> QED
    BY <1>1, MemoryInvariant, PTL DEF Spec, ConsolidationsInOrder
=============================================================================
