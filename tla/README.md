# TLA+ verification of the AHEIAPI Codex CLI

The repository is a fork of the Codex CLI, a Rust workspace (`src/codex-rs`) of
about a hundred crates: an agent that runs turns of a conversation with a language
model, executes tools in sandboxes, keeps rollouts of its conversations, and is
driven by a terminal UI, by a JSON-RPC app server or by other agents. The fork adds
a login to a "New API" relay. This directory holds TLA+ models of the parts whose
correctness depends on the order in which concurrent actors act, the TLC
configurations that check them, and TLAPS proofs.

## Inventory

| Component | State it keeps | Operations | Interacts with | What is hard | What makes it correct |
|---|---|---|---|---|---|
| Turn lifecycle (`core/src/tasks/mod.rs`, `state/turn.rs`) | `active_turn`: an optional turn with an optional running task and a shared `TurnState` | spawn, start, finish, abort, suspend a task | submission loop, realtime conversation, tasks, guardian; all share the mutex | any of them may start or abort a turn while another is between two locks | one report per turn, one task at a time, the active task is alive, the session becomes free again |
| Submission loop (`session/handlers.rs`, `turn_input.rs`) | the op it handles | one handler per `Op` | client, turn lifecycle | checks before an await, acts after it | every op ends; accepted input is not lost |
| Input queue (`session/input_queue.rs`, `inject.rs`) | mailbox, pending input and delivery phase of each turn state | enqueue, drain, extend, take, defer, accept, clear | loop, tasks, other agents, extensions | items move between containers in separate steps | each item is in exactly one place until recorded or discarded |
| Turn loop (`session/turn.rs`, `tasks/regular.rs`) | the drained input, the sampling result | drain, record, sample, tool calls, stop hooks | model, tools, approvals | cancellation anywhere; late input | pending input continues the turn |
| Approvals (`session/mod.rs`) | one-shot senders in the turn state | ask, answer, clear | client, guardian | the active turn changes while a task waits | no wait ends by a dropped sender |
| Realtime conversation (`realtime_conversation.rs`) | the conversation, its fanout task | start, close, route a handed-off text | loop, turn lifecycle, transport | its task starts and replaces turns beside the loop, and the loop awaits it | a text is not lost; stopping it does not hang |
| Agent status (`agent/status.rs`) | last status | derived from events | other agents, clients | events of two turns interleave | an idle session is not reported as running |
| Relay login (`cli/src/newapi_login.rs`) | relay session, chosen key | login, 2FA, list, select, create, search, save | relay, `config.toml` | several processes, lost answers | a saved provider is one login's own |
| Config edits (`core/src/config/edit.rs`) | `config.toml` | read, edit, atomic replace | every codex process | read-modify-write without a lock | no edit undone, no mixture of two edits |
| Rollout recorder (`rollout/src/recorder.rs`, `thread-store/src/local`) | pending items, open file, ordinals, the writer lock | create, resume, record, persist, flush, shutdown | session, thread store, compression | torn and failed writes, retries, crashes, a second process | what was acknowledged is read by everybody, in order |
| Rollout compression (`rollout/src/compression.rs`) | the plain and the compressed file | check, encode, persist, check again, unlink; materialize | recorders of all processes | no lock in common with them | at every moment one file holds everything |
| Memory jobs (`state/src/runtime/memories.rs`, `memories/write/src`) | job rows with leases and tokens, outputs | claim, heartbeat, succeed, fail, delete, clear, prune | processes over SQLite, agents | expired leases, late results, deletion during a job | a late result changes nothing, what is forgotten stays so, no update is missed |
| Remote control (`app-server-transport/.../remote_control`) | clients, sequence ids, segments, outbound buffer | receive, reassemble, forward, close, send, ack, reconnect | backend, app server | duplicates, reconnection, full queues, tasks that end late | each message delivered once, in order; no connection orphaned |
| Agent registry (`core/src/agent`) | spawn slots, names, paths | reserve, commit, release | agent tools | failed spawns, concurrent limits | slots never leak or exceed the limit |
| Unified exec (`core/src/unified_exec`) | process table | start, write, poll, prune | tools, exit watchers | exits while a tool polls | an id names one process |
| Auth manager (`login/src/auth/manager.rs`) | cached credentials | reload, refresh, recover | every request, other processes | a refresh token is spent once | no refresh with a stale token |

`PROJECT.json` lists these and the parts that are left out, each with its reason: the
TUI, sandboxes, protocol types, telemetry, providers and MCP plumbing hold no
protocol of their own or are out of a model checker's reach. Vendored code, SDKs,
build files and generated schemas are not considered.

## Modules

| Module | Role |
|---|---|
| `SessionTurns` | the turns of one session: submission loop, realtime conversation, guardian, tasks |
| `MCSessionTurns` | its instances for TLC (symmetry of the inputs) |
| `SessionTurnsProofs` | TLAPS proofs about it: types, and the active task is alive |
| `SessionItemsProofs` | TLAPS proof that every item is delivered once |
| `SessionSoloProofs` | TLAPS proofs about a session without mail, realtime conversation and guardian |
| `RelayLogin` | the relay login of several processes, and `config.toml` |
| `MCRelayLogin` | its instances for TLC (symmetry of the relays) |
| `RelayLoginProofs` | TLAPS proofs about it |
| `DurableLog` | the abstract append-only log that a rollout promises to be |
| `RolloutStore` | one thread's rollout: recorders of several processes, the lock, the compression worker; implements `DurableLog` |
| `MCRolloutStore` | its instances for TLC (symmetry of processes and items) |
| `RolloutStoreProofs` | TLAPS proofs about it, the refinement of `DurableLog` included |
| `MemoryJobs` | the memory pipeline over its leased job rows |
| `MCMemoryJobs` | its instances for TLC (symmetry of the workers) |
| `MemoryJobsProofs` | TLAPS proofs about it |
| `RemoteControl` | the remote-control transport: reader, client tracker, writer, WebSocket |
| `MCRemoteControl` | its instances for TLC (symmetry of the streams) |
| `RemoteControlProofs` | TLAPS proofs about it |

A definition marked "Mutant" in a comment is a deliberately wrong variant of the
definition after it; it is used only to see that a property notices the bug.

### SessionTurns

*State.* `activeState` and `activeTask` are `Session.active_turn`: the `TurnState` it
points to and its `RunningTask`. A `TurnState` is an `Arc`, and the code compares
pointers (`Arc::ptr_eq`), so each has an identity: the reservation a turn was given, or
one of the two that `start_task` may create with `get_or_insert_with`. `pending`,
`accepts` and `waiters` are the parts of a turn state that matter (`pending_input`,
`mailbox_delivery_phase`, the pending approvals). Per actor there are a program
counter and the values it carries across its awaits: the input it has drained
(`hand`), the turn state it has an `Arc` of (`home`), the turn it is about to start
(`job`) or is aborting (`victim`, `reason`). `log` and `fate` are history variables.

*Actors.* `Loop` is `submission_loop`; `Realtime` is the fanout task of a realtime
conversation, which calls `route_realtime_text_input` for each text handed off to it and
so runs `start_or_steer`, `spawn_task` and `abort_all_tasks` beside the loop; `Guardian` is
the task that `guardian/review.rs` spawns; each turn number is the spawned task of that turn, which
runs the turn and then `on_task_finished`, and may go on to start the next turn. An
action is what an actor does between two points where it can yield with nothing
locked; tokio runs the actors in parallel, so these interleave freely. A task that is
aborted stops at its next await, which is such a point.

*Actions* carry the names of the code: `StartOrSteer`, `Steer`, `StartIfIdle*`,
`InterAgentCommunication`, `Interrupt`, `ExecApproval`, `RealtimeConversation`, `Shutdown`,
`Suspend*` for the loop's ops (`StartOrSteer` is also the realtime actor's);
`ConversationStopped` and `TransportClosed` for the end of a fanout task, which an op that
stops a conversation waits for; `Abort*` for `abort_all_tasks`, `abort_turn_if_active` and
`handle_task_abort`; `MaybeStart*` and `Start*` for
`maybe_start_turn_for_pending_work` and `start_task`, run by whichever actor calls
them; `TaskStarted` to `LoopCheck` for `RegularTask::run` and `run_turn`;
`Finish*` for `on_task_finished`. `SpawnStandalone` stands for `compact`, `review` and
`run_user_shell_command`. A shutdown and a suspension share `shutdown_session_runtime`;
`closing` says which of them runs it. After a suspension either `ShutdownComplete` follows
or, when the flush or the close of the thread fails, `SuspendFails`: the op returns an error
and the loop goes on. A loop whose channel was closed stops without the event, so
`ShutdownComplete` may leave the status.

*Abstractions.* Inputs, mails and injections are members of sets, so the order inside
one queue is not modelled. The model's answer, tool calls, hooks, compaction and
settings are choices of outcome; a hook may stop any user input (`Stoppable`), which is
then dropped and not recorded, and a turn whose user input was all stopped ends (`Blocked`).
The second look at the mailbox in `start_if_idle`
cannot see anything new, because mail enters only through the loop that runs it.
The durable sleep of an extension is a constant of a run. `inject_if_running` enters like a
steer. A conversation whose transport ends while the loop is registering its fanout task is
taken to have ended before. After a failed suspension the runtime is partly shut down
(hooks, MCP, processes); the ops it still accepts are modelled as before.

### RelayLogin

Processes run `run_newapi_login` at the same time on one `CODEX_HOME` and one account;
others (`Editors`) apply an edit of another setting. An action is one HTTP request,
one read or one write of `config.toml`. A token is its relay, id and name; a key stands
for its token, and id 0 for a key the user typed. The relay is external and modelled
from how the client uses it: ids grow, the answer to the POST does not contain the id,
it may be lost, and a token may be deleted at any time. `made` is a history variable.
The login's error exits and the `create` fallback of a failed key lookup are the
code's. The relay's paging (100 tokens) is not modelled.

### RolloutStore and DurableLog

*State.* `plain` and `zst` are the `.jsonl` file and its compressed sibling, as
sequences of lines; a line has its record, its ordinal and whether its newline was
written, so that a torn write and the line that a later append glues to it are in the
model. `cold` says whether the plain file is older than `MIN_ROLLOUT_AGE`. `writer` has,
per process, the recorder's pending items and where its task stands in the command it
handles; `fd` is its handle, `"gone"` once the name was removed. `worker` is the
compression of one file. `recorded`, `acked` and `overlapped` are history variables.

*Actions.* One per system call on the files, or per step in a process's memory.
`Create` and `Resume` are `create_thread` and `resume_thread` under the writer lock;
`AppendItems`, `Persist`, `Flush`, `Shutdown`, `DiscardThread` the thread store's
operations, each of which ends in the writer task's `Materialize`, `DropZst`,
`OpenLogFile` or `OpenForAppend`, `WriteItem` and `Acknowledge`; `IoError`, `WriteFails`
and `Crash` may come at each of them, and `Failed` is `write_pending_with_recovery`.
`ColdFileState` to `UnlinkPlain` are the steps of `compress_rollout_if_cold_blocking`.

*Abstraction function.* `History` is what a reader finds, by ordinal: a record that a
retry has repeated has one ordinal and counts once, and an ordinal without a record
would show as `Junk`, which `DurableLog` does not allow. `Log` is `DurableLog` with `log <- History`. In a state with
`overlapped` (the worker has removed a file that a recorder was using) the abstract
log promises nothing any more: that is the finding `rollout_compressed_away`.

*Left out.* The Legacy history mode: the model is of the Paginated mode, in which every line
has an ordinal, and `OpenForAppend` always finds the next one (in Legacy mode `ordinal.rs`
gives none, so that `HistoryInOrder` and the refinement, which go by ordinal, say nothing
about it). `append_rollout_item_to_path` (`recorder.rs`), which appends one item to the file
of a thread that is not loaded without taking the writer lock. Overflow of ordinals, loss of power, the SQLite projection, a caller that
is cancelled in the middle of a command and then discards the recorder; seven days do
not pass within a command. Two consequences of the code that the model shows and that
are no finding: a write that fails after the whole record but before the newline
repeats the record under the same ordinal; and a crash in the first line leaves a
rollout that cannot be resumed.

### MemoryJobs

*State.* `job`, `global` and `output` are the stage-1 rows, the phase-2 row and
`stage1_outputs`; a row holds the token and what is left of its lease, backoff and
cooldown. `updated`, `thread` and `polluted` are what the threads' table says. A worker
holds what it took from its claim. Ownership tokens are UUIDs in the code; here they are
numbers in the order they were given, so that `cut` (the tokens given when a thread's
memory was deleted) and `consolidated` (the last successful phase 2) can be compared
with them. Nothing in the code's actions looks at that order.

*Actions.* One per transaction of `memories.rs`, named after its function, and the
workers' steps between transactions: listing, reading the rollout, spawning an agent,
heartbeat, the failed shutdown that leaves an agent behind, death. `Tick` is an hour.

*Abstractions.* `Update` moves the contents of a rollout and `threads.updated_at` in one step.
In the code the touch follows the write and is coalesced for five seconds
(`thread_metadata_sync.rs`), and `memories.rs` truncates it from milliseconds to seconds; a
claim asks for a thread that has been idle for at least an hour (the setting is clamped),
so it cannot fall between the two. `DeleteThreadMemory` is both the deletion of
the memory's rows and that of the thread's row, which follows in the other database
(`delete_thread_memory` and its caller in `threads.rs`), and `MarkPolluted` is the three
statements of `mark_thread_memory_mode_polluted` in two databases; a claim between two of
those statements is not in the model. A polluted thread stays so: that `memory_mode` is
set to enabled again (`threads.rs`) is not modelled.
The watermarks and the retry counter of the phase-2 row decide nothing
and are dropped. The ranking of inputs is any subset of the eligible outputs, the git
diff a choice. That only one consolidation runs at a time is not claimed: a memory
reset, an expired lease or an orphaned agent lets two overlap, and then the tokens
decide which one counts (`ConsolidationsInOrder`).

### RemoteControl

*State.* `log` is what one client sends on its streams, kept by the backend, chosen in
`Init` among all well-formed scripts; `pos` and `cursor` are places in it. `reader` is
the reader task with the message it handles, `clients`, `closing` and `chunkDone` the
tracker, `conns` the app server's connections with the events each was sent and their
outbound tasks. `queue`, `nextOut`, `buffer` and `toSend` are the writer's, `wire` the frames
it has handed to the WebSocket, `received` what the backend has; `assigned`, all that was
numbered, is a history variable.

*Actions.* `Receive` takes an envelope and reassembles chunks; `HandleSkip` to `Record`
are `handle_message` and what the reader does after it, cut at each await, where
`Drop` may abort it; `Bookkeep` is `bookkeep_join_set`, `Expire` the idle sweep;
`Emit`, `Ping`, `Write`, `Send` and `Ack` the outbound side. `Send` is the return of
`websocket_writer.send`, which only hands a frame over; the writer then takes the next event,
whatever is still in flight. That a frame reaches the backend is `Arrive` (external), and
`Drop` loses what is in flight. `Connect` resumes behind the cursor
and repeats what is not acknowledged. `Retain` is `VecDeque::retain`, which `Ack` applies
to the buffer.

`DeliveredInSequence` looks at two neighbouring events of a connection that are both
messages: the later one is the next whole message of the stream, which gives order,
no repetition and no gap for all of them.

*Abstractions.* One client; clients share only the queues and the limit of 128
assemblies, which is assumed not to be reached. The backend (external) resumes exactly
behind the cursor, and reads nothing more from an old WebSocket once a new one is up; that
`Drop` clears `wire` at once loses no behaviour, since what would arrive later may as well
arrive before. The client (external) sends the chunks of a message together, never chunks an
initialize, and goes on counting its sequence ids when it initializes a stream again without
closing it: the code accepts an initialize with a lower id (`client_tracker.rs`) and does not
reset the completed chunk number, so a client that started from 1 again there would have its
first chunked messages ignored, and `DeliveredInSequence` says nothing of such a client.
`Record` is two lock scopes of the reader, the one that records the delivery and the one that
forgets the stream after a close. `Ack` and `Ping` envelopes have no cursor here.
Enrollment, authentication, backoff, tracker shutdown, clients without a stream id and
oversized or malformed chunks are left out. That a connection's first message is its initialize
is not claimed: a reader aborted between `ConnectionOpened` and the initialize opens
again on the replay, or passes an older message on. Messages for a stream without a
client are dropped and the cursor advances over them.

## Runs

`CHECK_DEADLOCK FALSE` everywhere: a session that has shut down, or a CLI process that
has exited, really stops, and the other models stop at their bounds.

| Run | Instance | What it shows |
|---|---|---|
| `turns_user` | 2 inputs, 2 turns, 1 interrupt, 1 tool call or approval per turn, compact and review tasks, suspension, shutdown; no mail, no realtime conversation, no guardian | when only the client starts turns, each ends with one report (`OneTerminalEvent`, `NoSilentDeath`), unless it is suspended (`SuspendedIsSilent`); one task runs (`OneRunner`) and `start_task`'s assertion holds (`StartFindsNoTask`); input is neither lost nor doubled (`DeliveredOnce`, `NoInputStranded`); an approval is not dropped under a waiting task (`ApprovalNotDropped`); the status settles (`IdleNotRunning`), except for a suspended turn whose thread could not be closed |
| `turns_mailbox` | 1 input, trigger mail, 1 injection, guardian, 2 turns | the inductive invariant `IInv` of the proofs, `ActiveTaskAlive` with three kinds of actors starting and aborting turns, and `DeliveredOnce` when all three kinds of items cross turns |
| `turns_realtime` | 1 text of a realtime conversation, shell tasks, 2 turns, fairness | `IInv`, `ActiveTaskAlive` and `DeliveredOnce` when the fanout task and the loop both steer, start and abort turns; `OpsReturn`: no op hangs, those that await the fanout task included; `FinishedTaskFreesSession` |
| `relay_login` | 2 logins, 1 editor, 2 relays, 3 token ids, distinct names | `ConfigCoherent`, `CreatedKeyIsMine`, `FailedLeavesNoTrace` |
| `rollout` | 2 processes, 2 items, 2 failing calls, 1 crash, the worker | what was acknowledged stays readable (`AckedReadableUnlessOverlapped`), in order and under one ordinal each (`HistoryInOrder`), through every change of representation (`NeverGone`); `RolloutStore` implements `DurableLog` (`ImplementsDurableLog`) |
| `memory_jobs` | 1 thread, 2 extractors, 2 consolidators, 2 updates, 3 claims | `NoUpdateMissed`, `OutputNeverOlder`, `ForgottenStaysForgotten`, `ConsolidationsInOrder` with expiring leases and late workers |
| `remote_control` | 2 streams, scripts of up to 4 envelopes, server events as long as script and events are 3 at most, 2 connections, 1 loss of the WebSocket, 1 time-out | a connection's events are well formed (`EventsWellFormed`) and none is orphaned (`NoOrphan`); client messages arrive consecutively (`DeliveredInSequence`), server envelopes all and in order (`NothingLost`, `ReceivedInOrder`), with several frames in flight and lost at once |

Five runs show a disagreement between the code and what it says of itself:

| Run | Property | What happens |
|---|---|---|
| `turn_overwritten` | `NoSilentDeath` | a turn started for mail by a finishing task and one started by the loop are both in `start_task`; the second assignment of `turn.task` kills the first, running, without a terminal event. `debug_assert!(turn.task.is_none())` fails. A realtime conversation is such a second starter too: with `Inputs = {u1}`, `Texts = {r1}`, 2 turns and no mail, `NoSilentDeath` and `StartFindsNoTask` are violated in the same way |
| `mail_forgotten` | `TriggerMailTakenUp` | mail arrives while a turn finishes; an interrupt takes the taskless turn; the finishing task finds nothing of its own to clear and nobody starts the mail |
| `relay_key_mixup` | `CreatedKeyIsMine` | both logins keep the default key name; one saves the other's key |
| `rollout_compressed_away` | `AckedReadable` | a session resumes a rollout that is a week old; the worker, which takes no lock, finds it unchanged and removes it; what the session then flushes goes to an unlinked file |
| `remote_wrong_close` | `OwnConnectionClosed` | the outbound task of a replaced connection ends late, and `bookkeep_join_set` closes the connection that has its stream now |

Two more behaviours are reachable and have no run of their own: an item injected by
`inject_no_new_turn` into a reservation that `start_if_idle` then gives back is lost with
it; and an editor that read `config.toml` before a login's write restores the old
document, since the read-modify-write is not locked.

*Bounds.* A session is at rest, or stops, when a bound is used up, and no op waits for one in
`turns_realtime`. Its two liveness properties also hold with an input, mail under a durable
sleep and 3 turns instead of the conversation, its invariants also with 1 input beside
the text. Two turns are enough for a turn to be replaced by another, three for a
replacement to race with a turn started for mail. Turn ids, interrupts and tool calls
are capped by `MaxTurns`, `MaxInterrupts` and `MaxToolCalls`, the relay's ids by
`MaxTokens`: two creations beside an older token. For the rollout, two failures are a
failed write and its failed retry, and two processes a crash and its resumption; one
command records at most `MaxBatch` items, both of them. For the
memory jobs, three claims are a first owner, the one who takes over and one after a
deletion; with two threads and no consolidator (2.3 million states) the same properties
hold. For remote control, two connections are one and its replacement, four envelopes
an initialize, a message in two chunks and another. `MaxTraffic` bounds a script and the
server events together; with `Capacity` 2 it leaves room for two events and three frames,
in flight and lost together.

`turns_user` leaves out mail, the realtime conversation and the guardian because several of
its properties are false with them; what then happens is:

- with mail, `StartFindsNoTask` and `NoSilentDeath` fail as in `turn_overwritten`, and
  `NoInputStranded` fails because `abort_all_tasks` drops a reservation into which
  `maybe_start_turn_for_pending_work` then stores the mail it has drained;
- with a realtime conversation, the fanout task and the loop are both in `start_task`:
  `StartFindsNoTask`, and with it `NoSilentDeath`, fail;
- with the guardian, two tasks may overlap for the 100 ms that the guardian waits for
  the one it aborts, while the loop starts the next ("`Session` has at most one `Task`
  running at a time", `codex-rs/docs/protocol_v1.md`). A task that finishes in that
  window takes the task of whatever turn is active (`on_task_finished` compares
  nothing), so the new turn's own end finds no task and is not reported.

*Fairness* (`FairSpec`). Weak fairness of every actor's own steps (`Own`): its abort and start
procedures, the loop's continuations, the guardian's take and a task's
`on_task_finished`. It is per actor because an actor is one tokio task: tokio keeps polling a
runnable task, mutexes are fair queues, and the wait for an aborted task ends with a timer. There is no fairness for what a running
task does (it waits for the model, tools and the user), for the client's ops, or for the
texts of a realtime conversation.

## Proofs

All proofs are for arbitrary constants under named assumptions: `ConstantsAssumption`
(bounds are naturals, the sets of items are disjoint, `None`, `Loop`, `Realtime` and
`Guardian` are distinct from turns), `LoginAssumption`, `MemoryAssumption` (bounds are
naturals; lease, retries and updates are positive), `RolloutAssumption` (bounds are naturals; `Meta`, `Junk`
and the items differ; `None` is neither a process nor a file) and `RemoteAssumption`
(bounds are naturals, the capacity is positive, `None` is no stream, number or record).

`SessionTurnsProofs` proves `Spec => []IInv`, and from it `TypeOK` and
`ActiveTaskAlive`: the task in the active turn has not ended, whoever ends a task has
taken it out first. This is not inductive alone. An aborter must be known to abort a
turn it has cancelled (`LocalsSet`) that can never come back into the active turn
(`CancelledTaken`), and a turn that is being started must be fresh and started by one
actor only (`JobsFresh`), since otherwise installing it might revive an ended one.
Nearly all actions move one actor, so `OneActorStep` states once what such a step
must satisfy, and each action has a lemma that checks it. The exceptions
(`AbortWait`, `StartInstall`, `ExecApproval`) move two or three actors and are proved
directly. This holds with mail, injections, a realtime conversation and the guardian: the races above lose
turns' reports, but never leave the session pointing at a dead task.

`SessionItemsProofs` proves `DeliveredOnce`, for all constants as well. The proof follows
one item at a time: a step leaves it where it is (`Stays`), takes it out of its place for
good (`Leaves`) or brings it in (`Comes`), or moves it from one place to another, and
`StepOnce` combines these. What makes this inductive is that a container somebody is going
to overwrite is empty: `HandsOK` (only an actor between a drain and its extend or record
has something in its hands) and `FreshOK` (a turn whose id is not allocated yet has no
input). Both are needed because `hand` and `input` are assigned, not extended.

`SessionSoloProofs` proves the other properties of `turns_user` for any number of turns,
inputs, interrupts and tool calls, under the hypothesis `Solo`: no mail, no
realtime conversation (`Texts = {}`) and no guardian. The hypothesis is that of the run: with
any of them two actors start or abort turns at once, and several of the properties are false, as described under Runs. All but the
last property allow injections. The invariant `SoloOK` has six parts.

- `SoloPcs`: the loop alone aborts and starts; a task only runs and finishes.
- `Sole`: a task that runs, or is about to take itself out of the active turn, is the
  active one or the one the loop waits for; the loop starts a task only when there is none.
  `OneRunner` and `StartFindsNoTask` follow, and a finishing task takes itself and no other
  out of the active turn, although `on_task_finished` does not compare.
- `AbortOK`: why the loop aborts its victim, and which ends were reported of it so far.
- `LogsOK`: a turn that goes on has no end in its log, one that ended has exactly one,
  with the loop's victim excepted, for which `AbortOK` speaks. `OneTerminalEvent`,
  `SuspendedIsSilent` and `NoSilentDeath` follow.
- `Newest`: the turn the loop starts, the active one and the one it waits for is the newest
  that was started.
- `StatusOK`: while the status is Running somebody is still going to report an end, or the
  last turn that reported its start is suspended (`LastSuspended`). `IdleNotRunning` follows.
  The exception is the code's: a suspended turn has no terminal event, and when its thread
  cannot be closed afterwards the loop goes on with the status as it was. `Newest` is what
  makes the exception end with the next turn that starts.

Where approvals and input wait is a second layer. `StatesOK` says whose turn state the
loop, the active turn and a finishing task refer to: the one the loop prepares belongs to
a turn that is not spawned, so that a finishing task never clears it. `WaitersOK`: an
approval that a task waits for is in the turn state of the active turn, or in the one the
loop keeps while it waits for that task. With it, a step that keeps the waiters keeps
`ApprovalNotDropped`; `clear_pending` runs when the task was stopped. `QueuesOK`: input
waits only in the turn state of the active task, of the loop's victim or of the turn the
loop is about to start. `NoInputStranded` follows if nothing is injected; an injection may
go into a turn whose task has been taken, and `FinishClear` or an abort drops it.

`RelayLoginProofs` proves `TypeOK`, `ConfigCoherent` and `FailedLeavesNoTrace` from
`ProviderInv`: not only the file but every document that a process has read and not
written back holds a provider written as a whole by a login that succeeded, and such a
login changes nothing afterwards. If `SharedName = FALSE` it also proves
`CreatedKeyIsMine`, from `NewestIsMine`: ids only grow and nobody else uses the name,
so the newest token of the name is one's own. `relay_key_mixup` shows that the
assumption is needed.

`MemoryJobsProofs` proves `NoUpdateMissed`, `ForgottenStaysForgotten`,
`OutputNeverOlder`, `ConsolidationsInOrder` and `TypeOK` from one inductive invariant,
`IInv`, which also holds on the instances TLC explores. The properties speak of rows
only; what makes them inductive is what the workers carry. `RowsOK`: a row was claimed
after the last deletion, and an output's contents are at least as new as its stamp and
as the job's last success, so a thread that passes for up to date has current contents.
`ClaimedOK`: a worker that owns the row has the row's watermark. `LoadedOK`: what an owner
has read is not older than the stored output, because only an owner stores and a later
owner has another token; and if the thread was deleted meanwhile, the token is among
those cut off, so that it no longer owns anything. `GlobalOK`: the running phase-2 row was
claimed after the last consolidation. `JobEnds`, `ConsolidatorStep` and `MemoryDeleted`
state once what a kind of step must satisfy.

`RolloutStoreProofs` proves `AckedReadableUnlessOverlapped`, `HistoryInOrder`, `NeverGone`,
`TypeOK` and, step by step, `ImplementsDurableLog` from one inductive invariant, `IInv`.
`FileOK` is what every file holds, the worker's temporary copy included: records in the
order of recording, ordinals that never go back and that name one item each. `RecordingOK`
relates a recorder to the file it writes: what is pending comes after everything a reader
finds (`Bounded`), except for the one record that may stand there already without its
newline, which is why a retry repeats a record and never skips or reorders one.
`LockOK` makes the recorder unique. `WorkerOK` says that the worker's copy lies between the
file it first saw and the file as it is, so that what it unlinks, if no recorder came
in between, is in the compressed file. `PromiseOK` adds that no ordinal is missing as long
as `overlapped` is false. For the refinement, a step either leaves `History` alone or
appends the next ordinal's item (`LogImplemented`); ordinals are found with least and
greatest elements (`LeastElement`, from the well-foundedness of the naturals), which takes
the place of an induction over the file.

`RemoteControlProofs` proves all invariants of `remote_control`: `TypeOK`,
`EventsWellFormed`, `NoOrphan`, `DeliveredInSequence`, `NothingLost` and `ReceivedInOrder`.
Its `IInv` has two halves.

- *Outbound* (`OutInv`). Per stream, what the backend has is a beginning of what was
  numbered; the buffer is an end of it, and so is what is in flight followed by what the
  writer has still to send; and neither end starts behind the end of that beginning. So the
  next frame to arrive is the next one or one the backend has, and what is lost with a
  WebSocket is in the buffer. The envelopes are strictly ordered,
  so that an acknowledgement, however old, removes a beginning of the buffer
  (`UpperSet`, `RetainEnd`) that the backend has. Without the ends `NothingLost` would be
  lost by the next acknowledgement, and `ReceivedInOrder` by the next repetition.
- *Inbound* (`InInv`). `LogOK` is what the proofs need of the client's script: within a
  session the sequence ids grow, except for the two chunks of a message. It is derived
  from `Numbered` by counting (`SeqGrows`). `GivenOK` says of the last message a
  client was given that its number is the tracker's `last_inbound_seq_id`, that no whole
  message of its stream lies between it and the reader (`Clear`), and that only chunks lie
  between the cursor and it, so that a replay can never reach back over a close into
  an older session. `AssemblyOK` says that an assembly stands for a head which is not
  behind the reader, and that a tail the reader meets ahead of what was given finds
  its head in the assembly, although the assembly outlives the WebSocket while the reader
  goes back to the cursor: chunks it meets again are older and ignored
  (`ReceiveOutcome`). `DoneOK` bounds the completed chunk numbers by a tail behind the
  cursor, in the same session, so that no new chunk passes for a completed one.
  `ClientsOK` and `ConnsOK` keep a connection's close to one task.

Every conjunct of this invariant was checked by TLC on the instance of `remote_control`
before it was proved.

Only model-checked: liveness (`OpsReturn`, `FinishedTaskFreesSession`), which is beyond the
prover. What the five runs of the second table refute is false in general; two of those
properties hold under a hypothesis that the run drops: `NoSilentDeath` is proved under
`Solo`, `CreatedKeyIsMine` for distinct names. Every invariant and action property that a passing run checks is stated by a theorem, those of `turns_user`
other than `DeliveredOnce` and `TypeOK` under `Solo`.

## Plan

Done: `SessionTurns`, `RelayLogin`, `RolloutStore` with `DurableLog`, `MemoryJobs`,
`RemoteControl`, and the proofs above. Next:

1. For a session with mail but no guardian: which of the properties proved under `Solo`
   survive when they speak only of turns that no other actor's start overlapped.
2. `AgentRegistry` (spawn slots, nicknames, paths; whether `total_count` is given back
   when `register_spawned_thread` replaces an entry), then unified exec and the auth
   manager, in place of a run that has become redundant.

## Not modelled

The share of the repository that the modules map is small by intention: most of its
lines are user interface, protocol types, tests beside the code, providers and
platform sandboxes, which hold no protocol between concurrent parties.
`PROJECT.json` gives the reason for each. The agent registry, unified exec and the
authentication manager do hold one and are in the plan.
