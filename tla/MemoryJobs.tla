----------------------------- MODULE MemoryJobs -----------------------------
(***************************************************************************)
(* The memory pipeline: codex processes extract a memory from each idle    *)
(* thread (stage 1, memories/write/src/phase1.rs) and consolidate the      *)
(* memories into one workspace (phase 2, phase2.rs).  They coordinate by   *)
(* leased job rows in SQLite (state/src/runtime/memories.rs).              *)
(*                                                                         *)
(* An action is one transaction of the database, or a step of a worker     *)
(* outside of it.  Timers hold what is left of them; a tick is an hour.    *)
(***************************************************************************)
EXTENDS Integers, FiniteSets

CONSTANTS Thread,          \* the conversations
          Extractor,       \* the stage-1 jobs of all processes
          Consolidator,    \* the phase-2 runs of all processes
          None,            \* no row
          Lease,           \* JOB_LEASE_SECONDS, in ticks
          RetryDelay,      \* JOB_RETRY_DELAY_SECONDS
          Cooldown,        \* PHASE2_SUCCESS_COOLDOWN_SECONDS
          Retries,         \* DEFAULT_RETRY_REMAINING
          MaxRunning,      \* max_rollouts_per_startup
          MaxUpdates,      \* bound: updates of a thread
          MaxTokens        \* bound: claims

ASSUME MemoryAssumption ==
    /\ {Lease, RetryDelay, Cooldown, Retries, MaxRunning, MaxUpdates, MaxTokens} \subseteq Nat
    /\ Lease > 0 /\ Retries > 0 /\ MaxUpdates > 0

VARIABLES updated,         \* threads.updated_at
          thread,          \* where the thread stands: live, losing its rollout, deleted
          polluted,        \* the threads with memory_mode = 'polluted'
          output,          \* stage1_outputs
          job,             \* the stage-1 rows of jobs
          global,          \* the phase-2 row of jobs
          extractor,       \* the stage-1 workers
          consolidator,    \* the phase-2 workers
          tokens,          \* the ownership tokens given so far
          cut,             \* history: the tokens that were given when a thread's
                           \* memory was last deleted
          consolidated     \* history: the token of the last successful phase 2

vars == <<updated, thread, polluted, output, job, global, extractor, consolidator, tokens,
          cut, consolidated>>
sources == <<updated, thread, polluted>>
history == <<cut, consolidated>>

IdleExtractor == [pc |-> "idle", thread |-> None, src |-> 0, token |-> 0, content |-> 0]
IdleConsolidator == [pc |-> "idle", token |-> 0, selection |-> {}]

Init == /\ updated = [t \in Thread |-> 1]
        /\ thread = [t \in Thread |-> "live"]
        /\ polluted = {}
        /\ output = [t \in Thread |-> None]
        /\ job = [t \in Thread |-> None]
        /\ global = None
        /\ extractor = [w \in Extractor |-> IdleExtractor]
        /\ consolidator = [w \in Consolidator |-> IdleConsolidator]
        /\ tokens = 0
        /\ cut = [t \in Thread |-> 0] /\ consolidated = 0

-----------------------------------------------------------------------------
(* The rows.                                                               *)

Live(row) == row # None /\ row.status = "running" /\ row.lease > 0

\* Mutant: the token is not compared.
OwnsAny(row, token) == row # None /\ row.status = "running"

\* WHERE status = 'running' AND ownership_token = ?
Owns(row, token) == row # None /\ row.status = "running" /\ row.token = token

\* enqueue_global_consolidation_with_executor; the watermarks of this row decide
\* nothing and are left out.
Enqueue(row) ==
    IF row = None
    THEN [status |-> "pending", token |-> 0, lease |-> 0, retry |-> 0, cool |-> 0]
    ELSE IF row.status = "running" THEN row
    ELSE [row EXCEPT !.status = "pending", !.retry = 0]

\* stage1_source_needs_update, and the first reads of try_claim_stage1_job.
UpToDate(t, src) == \/ output[t] # None /\ output[t].src >= src
                    \/ job[t] # None /\ job[t].success >= src

Advanced(t, src) == job[t] = None \/ src > job[t].input

\* Mutant: the row is claimed again when its retries are used up.
ClaimableForever(t, src) ==
    /\ Cardinality({u \in Thread \ {t} : Live(job[u])}) < MaxRunning
    /\ ~Live(job[t])

\* The WHERE clauses of the claim, for a new row and for one that exists.
Claimable(t, src) ==
    /\ Cardinality({u \in Thread \ {t} : Live(job[u])}) < MaxRunning
    /\ job[t] # None =>
          /\ ~Live(job[t])
          /\ job[t].retry = 0 \/ Advanced(t, src)
          /\ job[t].retries > 0 \/ Advanced(t, src)

-----------------------------------------------------------------------------
(* Stage 1.                                                                *)

\* claim_stage1_jobs_for_startup: an enabled thread that has something new.
ListThread(w, t) ==
    /\ extractor[w].pc = "idle"
    /\ thread[t] # "deleted" /\ t \notin polluted /\ ~UpToDate(t, updated[t])
    /\ extractor' = [extractor EXCEPT ![w] =
          [pc |-> "listed", thread |-> t, src |-> updated[t], token |-> 0, content |-> 0]]
    /\ UNCHANGED <<sources, output, job, global, consolidator, tokens, history>>

\* try_claim_stage1_job
ClaimStage1(w) ==
    LET t == extractor[w].thread
        src == extractor[w].src
    IN /\ extractor[w].pc = "listed" /\ tokens < MaxTokens
       /\ ~UpToDate(t, src) /\ Claimable(t, src)
       /\ tokens' = tokens + 1
       /\ job' = [job EXCEPT ![t] =
             [status |-> "running", token |-> tokens', lease |-> Lease, retry |-> 0,
              retries |-> IF Advanced(t, src) THEN Retries ELSE job[t].retries,
              input |-> src,
              success |-> IF job[t] = None THEN 0 ELSE job[t].success]]
       /\ extractor' = [extractor EXCEPT ![w].pc = "claimed", ![w].token = tokens']
       /\ UNCHANGED <<sources, output, global, consolidator, history>>

\* The claim is skipped.
SkipStage1(w) ==
    LET t == extractor[w].thread
        src == extractor[w].src
    IN /\ extractor[w].pc = "listed"
       /\ UpToDate(t, src) \/ ~Claimable(t, src)
       /\ extractor' = [extractor EXCEPT ![w] = IdleExtractor]
       /\ UNCHANGED <<sources, output, job, global, consolidator, tokens, history>>

\* sample: the rollout is read as it is now; then the model answers.
LoadRollout(w) ==
    LET t == extractor[w].thread
    IN /\ extractor[w].pc = "claimed" /\ thread[t] = "live"
       /\ extractor' = [extractor EXCEPT ![w].pc = "loaded", ![w].content = updated[t]]
       /\ UNCHANGED <<sources, output, job, global, consolidator, tokens, history>>

\* Mutant: the output is stamped with the time of the thread when it is stored.
StampNow(w) == updated[extractor[w].thread]

\* The source_updated_at of an output is the one of the claim.
Stamp(w) == extractor[w].src

Done(t) == [job[t] EXCEPT !.status = "done", !.lease = 0, !.success = job[t].input]

\* mark_stage1_job_succeeded: one transaction, refused without ownership.
Stage1Succeeded(w) ==
    LET t == extractor[w].thread
        src == Stamp(w)
        keep == output[t] # None /\ src < output[t].src
        selected == IF output[t] = None THEN 0 ELSE output[t].selected
    IN /\ extractor[w].pc = "loaded"
       /\ IF Owns(job[t], extractor[w].token)
          THEN /\ job' = [job EXCEPT ![t] = Done(t)]
               /\ output' = IF keep THEN output ELSE
                     [output EXCEPT ![t] =
                        [src |-> src, content |-> extractor[w].content,
                         selected |-> selected, by |-> extractor[w].token]]
               /\ global' = Enqueue(global)
          ELSE UNCHANGED <<output, job, global>>
       /\ extractor' = [extractor EXCEPT ![w] = IdleExtractor]
       /\ UNCHANGED <<sources, consolidator, tokens, history>>

\* mark_stage1_job_succeeded_no_output
Stage1NoOutput(w) ==
    LET t == extractor[w].thread
    IN /\ extractor[w].pc = "loaded"
       /\ IF Owns(job[t], extractor[w].token)
          THEN /\ job' = [job EXCEPT ![t] = Done(t)]
               /\ output' = [output EXCEPT ![t] = None]
               /\ global' = IF output[t] = None THEN global ELSE Enqueue(global)
          ELSE UNCHANGED <<output, job, global>>
       /\ extractor' = [extractor EXCEPT ![w] = IdleExtractor]
       /\ UNCHANGED <<sources, consolidator, tokens, history>>

\* mark_stage1_job_failed, after the rollout could not be read or the model failed.
Stage1Failed(w) ==
    LET t == extractor[w].thread
    IN /\ extractor[w].pc \in {"claimed", "loaded"}
       /\ job' = IF Owns(job[t], extractor[w].token)
                 THEN [job EXCEPT ![t].status = "error", ![t].lease = 0,
                                  ![t].retry = RetryDelay, ![t].retries = @ - 1]
                 ELSE job
       /\ extractor' = [extractor EXCEPT ![w] = IdleExtractor]
       /\ UNCHANGED <<sources, output, global, consolidator, tokens, history>>

\* The process dies; its rows stay as they are.
ExtractorDies(w) ==
    /\ extractor[w].pc # "idle"
    /\ extractor' = [extractor EXCEPT ![w] = IdleExtractor]
    /\ UNCHANGED <<sources, output, job, global, consolidator, tokens, history>>

-----------------------------------------------------------------------------
(* Phase 2.                                                                *)

\* try_claim_global_phase2_job: no backoff, no live lease, no recent success.
ClaimGlobal(w) ==
    /\ consolidator[w].pc = "idle" /\ tokens < MaxTokens
    /\ global # None => global.retry = 0 /\ ~Live(global) /\ global.cool = 0
    /\ tokens' = tokens + 1
    /\ global' = [status |-> "running", token |-> tokens', lease |-> Lease, retry |-> 0, cool |-> 0]
    /\ consolidator' = [consolidator EXCEPT ![w].pc = "claimed", ![w].token = tokens']
    /\ UNCHANGED <<sources, output, job, extractor, history>>

\* get_phase2_input_selection: outputs of enabled threads, the best of them.
Eligible == {t \in Thread : output[t] # None /\ t \notin polluted /\ thread[t] # "deleted"}

SelectInputs(w) ==
    /\ consolidator[w].pc = "claimed"
    /\ \E S \in SUBSET Eligible :
          consolidator' = [consolidator EXCEPT ![w].pc = "selected",
                              ![w].selection = {<<t, output[t].src>> : t \in S}]
    /\ UNCHANGED <<sources, output, job, global, extractor, tokens, history>>

\* The inputs are written to the workspace; git sees a change and an agent starts.
SpawnAgent(w) ==
    /\ consolidator[w].pc = "selected"
    /\ consolidator' = [consolidator EXCEPT ![w].pc = "agent"]
    /\ UNCHANGED <<sources, output, job, global, extractor, tokens, history>>

\* loop_agent: the lease is extended, or found lost.
Heartbeat(w) ==
    /\ consolidator[w].pc = "agent"
    /\ IF Owns(global, consolidator[w].token)
       THEN global' = [global EXCEPT !.lease = Lease] /\ UNCHANGED consolidator
       ELSE /\ consolidator' = [consolidator EXCEPT ![w].pc = "errored"]
            /\ UNCHANGED global
    /\ UNCHANGED <<sources, output, job, extractor, tokens, history>>

AgentEnds(w) ==
    /\ consolidator[w].pc = "agent"
    /\ \E status \in {"completed", "errored"} :
          consolidator' = [consolidator EXCEPT ![w].pc = status]
    /\ UNCHANGED <<sources, output, job, global, extractor, tokens, history>>

\* The agent cannot be shut down: the worker leaves, the agent and the lease stay.
ShutdownFails(w) ==
    /\ consolidator[w].pc \in {"completed", "errored"}
    /\ consolidator' = [consolidator EXCEPT ![w].pc = "orphan"]
    /\ UNCHANGED <<sources, output, job, global, extractor, tokens, history>>

\* The heartbeat before the baseline is reset.
ConfirmOwnership(w) ==
    /\ consolidator[w].pc = "completed"
    /\ IF Owns(global, consolidator[w].token)
       THEN /\ global' = [global EXCEPT !.lease = Lease]
            /\ consolidator' = [consolidator EXCEPT ![w].pc = "confirmed"]
       ELSE /\ consolidator' = [consolidator EXCEPT ![w] = IdleConsolidator]
            /\ UNCHANGED global
    /\ UNCHANGED <<sources, output, job, extractor, tokens, history>>

\* mark_global_phase2_job_succeeded: the exact snapshots that were consolidated
\* are marked, all others are unmarked.
GlobalSucceeded(w) ==
    /\ consolidator[w].pc \in {"selected", "confirmed"}
    /\ IF Owns(global, consolidator[w].token)
       THEN /\ global' = [global EXCEPT !.status = "done", !.lease = 0, !.cool = Cooldown]
            /\ output' = [t \in Thread |->
                  IF output[t] = None THEN None
                  ELSE [output[t] EXCEPT !.selected =
                          IF <<t, output[t].src>> \in consolidator[w].selection
                          THEN output[t].src ELSE 0]]
            /\ consolidated' = consolidator[w].token
       ELSE UNCHANGED <<global, output, consolidated>>
    /\ consolidator' = [consolidator EXCEPT ![w] = IdleConsolidator]
    /\ UNCHANGED <<sources, job, extractor, tokens, cut>>

\* job::failed at any stage: mark_global_phase2_job_failed, and without ownership
\* mark_global_phase2_job_failed_if_unowned, which finds no row because a running
\* one has a token.
GlobalFailed(w) ==
    /\ consolidator[w].pc \in {"claimed", "selected", "completed", "errored", "confirmed"}
    /\ global' = IF Owns(global, consolidator[w].token)
                 THEN [global EXCEPT !.status = "error", !.lease = 0, !.retry = RetryDelay]
                 ELSE global
    /\ consolidator' = [consolidator EXCEPT ![w] = IdleConsolidator]
    /\ UNCHANGED <<sources, output, job, extractor, tokens, history>>

\* The process dies, with its agent; or an orphaned agent ends.
ConsolidatorDies(w) ==
    /\ consolidator[w].pc # "idle"
    /\ consolidator' = [consolidator EXCEPT ![w] = IdleConsolidator]
    /\ UNCHANGED <<sources, output, job, global, extractor, tokens, history>>

-----------------------------------------------------------------------------
(* The user, and time.                                                     *)

\* The thread goes on.
Update(t) ==
    /\ thread[t] = "live" /\ updated[t] < MaxUpdates
    /\ updated' = [updated EXCEPT ![t] = @ + 1]
    /\ UNCHANGED <<thread, polluted, output, job, global, extractor, consolidator, tokens, history>>

\* mark_thread_memory_mode_polluted
MarkPolluted(t) ==
    /\ thread[t] # "deleted"
    /\ polluted' = polluted \cup {t}
    /\ global' = IF output[t] # None /\ output[t].selected # 0 THEN Enqueue(global) ELSE global
    /\ UNCHANGED <<updated, thread, output, job, extractor, consolidator, tokens, history>>

\* A thread is deleted: first its rollout (thread-store delete_thread.rs), then its
\* memory rows, then its row (delete_threads_strict).
DeleteRollout(t) ==
    /\ thread[t] = "live"
    /\ thread' = [thread EXCEPT ![t] = "unrolled"]
    /\ UNCHANGED <<updated, polluted, output, job, global, extractor, consolidator, tokens, history>>

\* Mutant: the job row is left behind.
DeleteOutputOnly(t) ==
    /\ thread[t] = "unrolled"
    /\ output' = [output EXCEPT ![t] = None]
    /\ global' = IF output[t] # None /\ output[t].selected # 0 THEN Enqueue(global) ELSE global
    /\ thread' = [thread EXCEPT ![t] = "deleted"]
    /\ cut' = [cut EXCEPT ![t] = tokens]
    /\ UNCHANGED <<updated, polluted, job, extractor, consolidator, tokens, consolidated>>

\* delete_thread_memory
DeleteThreadMemory(t) ==
    /\ thread[t] = "unrolled"
    /\ output' = [output EXCEPT ![t] = None]
    /\ job' = [job EXCEPT ![t] = None]
    /\ global' = IF output[t] # None /\ output[t].selected # 0 THEN Enqueue(global) ELSE global
    /\ thread' = [thread EXCEPT ![t] = "deleted"]
    /\ cut' = [cut EXCEPT ![t] = tokens]
    /\ UNCHANGED <<updated, polluted, extractor, consolidator, tokens, consolidated>>

\* clear_memory_data
ClearMemoryData ==
    /\ output' = [t \in Thread |-> None]
    /\ job' = [t \in Thread |-> None]
    /\ global' = None
    /\ cut' = [t \in Thread |-> tokens]
    /\ UNCHANGED <<sources, extractor, consolidator, tokens, consolidated>>

\* prune_stage1_outputs_for_retention
Prune(t) ==
    /\ output[t] # None /\ output[t].selected = 0
    /\ output' = [output EXCEPT ![t] = None]
    /\ UNCHANGED <<sources, job, global, extractor, consolidator, tokens, history>>

Less(n) == IF n = 0 THEN 0 ELSE n - 1

\* An hour passes.
Tick ==
    /\ job' = [t \in Thread |-> IF job[t] = None THEN None
                  ELSE [job[t] EXCEPT !.lease = Less(@), !.retry = Less(@)]]
    /\ global' = IF global = None THEN None
                 ELSE [global EXCEPT !.lease = Less(@), !.retry = Less(@), !.cool = Less(@)]
    /\ UNCHANGED <<sources, output, extractor, consolidator, tokens, history>>

-----------------------------------------------------------------------------
Extract(w) ==
    \/ \E t \in Thread : ListThread(w, t)
    \/ ClaimStage1(w) \/ SkipStage1(w) \/ LoadRollout(w) \/ Stage1Succeeded(w)
    \/ Stage1NoOutput(w) \/ Stage1Failed(w) \/ ExtractorDies(w)

Consolidate(w) ==
    \/ ClaimGlobal(w) \/ SelectInputs(w) \/ SpawnAgent(w) \/ Heartbeat(w) \/ AgentEnds(w)
    \/ ShutdownFails(w) \/ ConfirmOwnership(w) \/ GlobalSucceeded(w) \/ GlobalFailed(w)
    \/ ConsolidatorDies(w)

User == \/ \E t \in Thread : \/ Update(t) \/ MarkPolluted(t) \/ DeleteRollout(t)
                             \/ DeleteThreadMemory(t) \/ Prune(t)
        \/ ClearMemoryData

Next == \/ \E w \in Extractor : Extract(w)
        \/ \E w \in Consolidator : Consolidate(w)
        \/ User
        \/ Tick

Spec == Init /\ [][Next]_vars

-----------------------------------------------------------------------------
JobType == [status : {"running", "done", "error"}, token : 1..MaxTokens, lease : 0..Lease,
            retry : 0..RetryDelay, retries : 0..Retries, input : 1..MaxUpdates,
            success : 0..MaxUpdates]
GlobalType == [status : {"pending", "running", "done", "error"}, token : 0..MaxTokens,
               lease : 0..Lease, retry : 0..RetryDelay, cool : 0..Cooldown]
OutputType == [src : 1..MaxUpdates, content : 1..MaxUpdates, selected : 0..MaxUpdates,
               by : 1..MaxTokens]
ExtractorType == [pc : {"idle", "listed", "claimed", "loaded"}, thread : Thread \cup {None},
                  src : 0..MaxUpdates, token : 0..MaxTokens, content : 0..MaxUpdates]
ConsolidatorType == [pc : {"idle", "claimed", "selected", "agent", "completed", "errored",
                           "confirmed", "orphan"},
                     token : 0..MaxTokens, selection : SUBSET (Thread \X (1..MaxUpdates))]

\* The rows and the workers are what the schema and the code allow; the retries
\* of a job never fall below zero.
TypeOK ==
    /\ updated \in [Thread -> 1..MaxUpdates]
    /\ thread \in [Thread -> {"live", "unrolled", "deleted"}]
    /\ polluted \subseteq Thread
    /\ output \in [Thread -> OutputType \cup {None}]
    /\ job \in [Thread -> JobType \cup {None}]
    /\ global \in GlobalType \cup {None}
    /\ extractor \in [Extractor -> ExtractorType]
    /\ consolidator \in [Consolidator -> ConsolidatorType]
    /\ tokens \in 0..MaxTokens
    /\ cut \in [Thread -> 0..MaxTokens] /\ consolidated \in 0..MaxTokens

\* No update of a thread is missed: as long as claims treat a thread as up to date,
\* the output it has was made from the thread's latest contents, although they are
\* read some time after the claim.
NoUpdateMissed ==
    \A t \in Thread : UpToDate(t, updated[t]) /\ output[t] # None =>
        output[t].content = updated[t]

\* An output is never replaced by one that was made from older contents: a worker
\* that lost its lease and finishes late is refused.
OutputNeverOlder ==
    [][\A t \in Thread : output[t] # None /\ output'[t] # None =>
          output'[t].content >= output[t].content]_vars

\* What was forgotten stays forgotten: after a thread is deleted, or all memory is
\* cleared, no job that was claimed before brings its output back, and a deleted
\* thread has none.
ForgottenStaysForgotten ==
    \A t \in Thread : output[t] # None => output[t].by > cut[t] /\ thread[t] # "deleted"

\* Consolidations succeed in the order they were claimed: one that was overtaken
\* never rewrites the selection of a later one.
ConsolidationsInOrder == [][consolidated' >= consolidated]_vars
=============================================================================
