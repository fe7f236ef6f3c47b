---------------------------- MODULE RolloutStore ----------------------------
(***************************************************************************)
(* The rollout file of one thread: the recorder's writer task              *)
(* (rollout/src/recorder.rs), the lock that the thread store takes around  *)
(* it (thread-store/src/local), and the worker that compresses cold        *)
(* rollouts (rollout/src/compression.rs).                                  *)
(*                                                                         *)
(* Several processes share the file.  An action is one system call on it,  *)
(* or a step that only changes a process's own memory.  Processes crash;   *)
(* the machine does not, so a completed write stays.                       *)
(***************************************************************************)
EXTENDS Integers, Sequences

CONSTANTS Process,       \* the processes that may open the thread
          Item,          \* the items that sessions record, each once
          Meta,          \* the SessionMeta record
          Junk,          \* the fragment of a line, which does not parse
          None,          \* no file, no lock holder
          MaxBatch,      \* bound: items that one command records
          MaxFailures,   \* bound: failing system calls
          MaxCrashes     \* bound: crashes of sessions

\* A line is a record, under its ordinal, and whether its newline was written.
LineType == [item : Item \cup {Meta, Junk}, ord : Nat, nl : BOOLEAN]

ASSUME RolloutAssumption ==
    /\ MaxBatch \in Nat /\ MaxFailures \in Nat /\ MaxCrashes \in Nat
    /\ Meta # Junk /\ {Meta, Junk} \cap Item = {}
    /\ None \notin Process /\ None \notin Seq(LineType)

VARIABLES plain,         \* the lines of the .jsonl file, or None
          zst,           \* the lines in the .jsonl.zst file, or None
          cold,          \* the plain file is older than MIN_ROLLOUT_AGE
          lock,          \* the holder of the thread's writer lock
          writer,        \* the recorder of each process
          worker,        \* the compression worker of the home
          failures,      \* counts failing system calls
          crashes,       \* counts crashes
          recorded,      \* history: the items in the order they were recorded
          acked,         \* history: the items acknowledged to a session
          overlapped     \* history: the worker removed a file that a recorder used

vars == <<plain, zst, cold, lock, writer, worker, failures, crashes, recorded, acked,
          overlapped>>
history == <<recorded, acked, overlapped>>

-----------------------------------------------------------------------------
(* Files.                                                                  *)

Line(i, o, nl) == [item |-> i, ord |-> o, nl |-> nl]

Fragment == Line(Junk, 0, FALSE)

Terminated(f) == f = <<>> \/ f[Len(f)].nl

\* An append after an unterminated line makes one line of the two, which does
\* not parse.
Write(f, l) == IF Terminated(f)
               THEN Append(f, l)
               ELSE [f EXCEPT ![Len(f)] = Line(Junk, 0, l.nl)]

\* Mutant: the file is not inspected before it is appended to.
NotRepaired(f) == f

\* ensure_rollout_is_newline_terminated
EnsureNewlineTerminated(f) == IF Terminated(f) THEN f ELSE [f EXCEPT ![Len(f)].nl = TRUE]

\* What a failed write_line has left in the file: nothing, a part of the line, or
\* all of it but the newline.
Partial(f, l) == {f, Write(f, Fragment), Write(f, Line(l.item, l.ord, FALSE))}

Parses(l) == l.item # Junk

\* existing_rollout_path: the plain file hides its compressed sibling.
Found == IF plain # None THEN plain ELSE zst

\* load_rollout_items: a reader gets the lines that parse.
Lines == IF Found = None THEN <<>> ELSE Found

ItemsIn(f) == {f[n].item : n \in DOMAIN f} \ {Junk}

ReadItems == ItemsIn(Lines)

-----------------------------------------------------------------------------
(* The recorder. `op' is the command that its task handles and `pc' where  *)
(* it stands: not running; at the start of open_log_file or                *)
(* open_rollout_for_append, before the compressed file is removed, before  *)
(* the open; writing; waiting for a command.                               *)

Ops == {"none", "resume", "add", "flush", "persist", "shutdown"}
Pcs == {"off", "materialize", "dropzst", "open", "write", "idle"}

Off == [pc |-> "off", op |-> "none", attempt |-> 1, pending |-> <<>>, meta |-> FALSE,
        fd |-> "none", deferred |-> FALSE, refresh |-> FALSE, next |-> 0, added |-> {}]

Idle == [pc |-> "idle", before |-> None, tmp |-> None, raced |-> FALSE]

Init == /\ plain = None /\ zst = None /\ cold = FALSE
        /\ lock = None
        /\ writer = [p \in Process |-> Off]
        /\ worker = Idle
        /\ failures = 0 /\ crashes = 0
        /\ recorded = <<>> /\ acked = {} /\ overlapped = FALSE

IsDeferred(w) == w.fd = "none" /\ w.deferred

\* Mutant: the recorder is opened whatever the lock says.
AcquireIgnored(p) == lock' = p

\* WriterLockCoordinator::acquire: try_lock, a conflict is an error.
Acquire(p) == lock = None /\ lock' = p

\* The recorder is dropped: its file and the lock are closed.
Close(p) == /\ writer' = [writer EXCEPT ![p] = Off]
            /\ lock' = IF lock = p THEN None ELSE lock

\* create_thread: a new rollout, which is not materialized yet.
Create(p) ==
    /\ writer[p].pc = "off" /\ Found = None
    /\ Acquire(p)
    /\ writer' = [writer EXCEPT ![p] = [Off EXCEPT !.pc = "idle", !.meta = TRUE,
                                                    !.deferred = TRUE]]
    /\ UNCHANGED <<plain, zst, cold, worker, failures, crashes, history>>

\* resume_thread, up to open_rollout_for_append: the thread's metadata is read from
\* the rollout.
Resume(p) ==
    /\ writer[p].pc = "off" /\ Meta \in ReadItems
    /\ Acquire(p)
    /\ writer' = [writer EXCEPT ![p] = [Off EXCEPT !.pc = "materialize", !.op = "resume"]]
    /\ UNCHANGED <<plain, zst, cold, worker, failures, crashes, history>>

\* The writer starts on a command: write_pending_once with or without a file.
Begin(w, op) == [w EXCEPT !.op = op, !.attempt = 1,
                          !.pc = IF w.fd = "none" THEN "materialize" ELSE "write"]

\* durable_write of AppendItems: the items are recorded, and flushed if the file
\* exists (AddItems), then flushed (Flush).
AppendItems(p, items) ==
    LET w == [writer[p] EXCEPT !.pending = @ \o items,
                               !.added = @ \cup {items[n] : n \in DOMAIN items}]
    IN /\ writer[p].pc = "idle"
       /\ \A n \in DOMAIN items : items[n] \notin {recorded[k] : k \in DOMAIN recorded}
       /\ writer' = [writer EXCEPT ![p] = Begin(w, IF IsDeferred(w) THEN "flush" ELSE "add")]
       /\ recorded' = recorded \o items
       /\ UNCHANGED <<plain, zst, cold, lock, worker, failures, crashes, acked, overlapped>>

\* persist writes even when nothing is pending.
Persist(p) ==
    /\ writer[p].pc = "idle"
    /\ writer' = [writer EXCEPT ![p] = Begin(@, "persist")]
    /\ UNCHANGED <<plain, zst, cold, lock, worker, failures, crashes, history>>

Flush(p) ==
    /\ writer[p].pc = "idle"
    /\ ~(IsDeferred(writer[p]) /\ writer[p].pending = <<>>)
    /\ writer' = [writer EXCEPT ![p] = Begin(@, "flush")]
    /\ UNCHANGED <<plain, zst, cold, lock, worker, failures, crashes, history>>

\* shutdown; a recorder that is deferred and has nothing to write just ends.
Shutdown(p) ==
    /\ writer[p].pc = "idle"
    /\ IF IsDeferred(writer[p]) /\ writer[p].pending = <<>>
       THEN Close(p)
       ELSE writer' = [writer EXCEPT ![p] = Begin(@, "shutdown")] /\ lock' = lock
    /\ UNCHANGED <<plain, zst, cold, worker, failures, crashes, history>>

\* discard_thread: the recorder is dropped with what it has pending.
DiscardThread(p) ==
    /\ writer[p].pc = "idle"
    /\ Close(p)
    /\ UNCHANGED <<plain, zst, cold, worker, failures, crashes, history>>

\* Mutant: the retries are not bounded.
FailedAgain(w) == [w EXCEPT !.attempt = @ + 1, !.fd = "none", !.pc = "materialize"]

\* write_pending_with_recovery and rollout_writer, when write_pending_once has
\* failed: the file is dropped, there is one retry, then the error is the answer.
\* The error of AddItems is only logged, and Flush follows.
Failed(w) == CASE w.attempt = 1 ->
                    [w EXCEPT !.attempt = 2, !.fd = "none", !.pc = "materialize"]
               [] w.attempt = 2 /\ w.op = "add" ->
                    [w EXCEPT !.attempt = 1, !.fd = "none", !.pc = "materialize", !.op = "flush"]
               [] OTHER ->
                    [w EXCEPT !.attempt = 1, !.fd = "none", !.pc = "idle", !.op = "none"]

Fail(p) == IF writer[p].op = "resume"
           THEN Close(p)
           ELSE writer' = [writer EXCEPT ![p] = Failed(@)] /\ lock' = lock

\* A system call fails before it has any effect.
IoError(p) ==
    /\ writer[p].pc \in {"materialize", "dropzst", "open"} /\ failures < MaxFailures
    /\ failures' = failures + 1
    /\ Fail(p)
    /\ UNCHANGED <<plain, zst, cold, worker, crashes, history>>

\* A recorder uses the plain file from the moment it has found it.  That may come
\* between the worker's last look at the file and its removal.
Uses(p) == writer[p].fd = "plain" \/ writer[p].pc \in {"dropzst", "open"}
NowUsed == worker' = [worker EXCEPT !.raced = (worker.pc = "unlink")]

\* Mutant: the compressed file is removed before the plain one is linked.
MaterializeUnsafe(p) ==
    /\ writer[p].pc = "materialize"
    /\ IF plain = None /\ zst # None
       THEN /\ zst' = None
            /\ writer' = [writer EXCEPT ![p].pc = "dropzst", ![p].refresh = TRUE]
       ELSE /\ writer' = [writer EXCEPT ![p].pc = "open", ![p].refresh = (plain = None)]
            /\ UNCHANGED zst
    /\ NowUsed
    /\ UNCHANGED <<plain, cold, lock, failures, crashes, history>>

\* materialize_rollout_for_append: a compressed rollout is unpacked beside its
\* name and linked to it, with its old modification time.
Materialize(p) ==
    /\ writer[p].pc = "materialize"
    /\ IF plain = None /\ zst # None
       THEN /\ plain' = zst /\ cold' = TRUE
            /\ writer' = [writer EXCEPT ![p].pc = "dropzst", ![p].refresh = TRUE]
       ELSE /\ writer' = [writer EXCEPT ![p].pc = "open", ![p].refresh = (plain = None)]
            /\ UNCHANGED <<plain, cold>>
    /\ NowUsed
    /\ UNCHANGED <<zst, lock, failures, crashes, history>>

DropZst(p) ==
    /\ writer[p].pc = "dropzst"
    /\ zst' = None
    /\ writer' = [writer EXCEPT ![p].pc = "open"]
    /\ UNCHANGED <<plain, cold, lock, worker, failures, crashes, history>>

\* open_log_file: the file is created if it is missing.
OpenLogFile(p) ==
    LET f == IF plain = None THEN <<>> ELSE plain
    IN /\ writer[p].pc = "open" /\ writer[p].op # "resume"
       /\ plain' = EnsureNewlineTerminated(f)
       /\ cold' = (cold /\ plain' = plain /\ ~writer[p].refresh)
       /\ writer' = [writer EXCEPT ![p].pc = "write", ![p].fd = "plain",
                                   ![p].deferred = FALSE, ![p].refresh = FALSE]
       /\ UNCHANGED <<zst, lock, worker, failures, crashes, history>>

\* ordinal_state_for_rollout: the file is scanned from its end for a line that parses.
LastRecord(f) == CHOOSE n \in DOMAIN f :
    Parses(f[n]) /\ \A m \in DOMAIN f : m > n => ~Parses(f[m])

LastOrdinal(f) == f[LastRecord(f)].ord

\* open_rollout_for_append: the file must exist and begin with its metadata.
OpenForAppend(p) ==
    /\ writer[p].pc = "open" /\ writer[p].op = "resume"
    /\ IF plain = None
       THEN Close(p) /\ UNCHANGED <<plain, cold>>
       ELSE /\ plain' = EnsureNewlineTerminated(plain)
            /\ cold' = (cold /\ plain' = plain /\ ~writer[p].refresh)
            /\ IF plain # <<>> /\ plain[1].item = Meta
               THEN /\ writer' = [writer EXCEPT ![p] =
                          [Off EXCEPT !.pc = "idle", !.fd = "plain",
                                      !.next = LastOrdinal(plain) + 1]]
                    /\ lock' = lock
               ELSE Close(p)
    /\ UNCHANGED <<zst, worker, failures, crashes, history>>

\* What the writer writes next: the metadata, then the pending items.
Todo(w) == IF w.meta THEN Meta ELSE Head(w.pending)
HasTodo(w) == w.meta \/ w.pending # <<>>

Written(w) == IF w.meta THEN [w EXCEPT !.meta = FALSE, !.next = @ + 1]
                        ELSE [w EXCEPT !.pending = Tail(@), !.next = @ + 1]

\* The file under the recorder's handle; a file that was removed is out of
\* everybody's sight.
Store(p, f) == IF writer[p].fd = "plain"
               THEN plain' = f /\ cold' = (cold /\ f = plain)
               ELSE UNCHANGED <<plain, cold>>

StorePart(p, l) == IF writer[p].fd = "plain"
                   THEN \E f \in Partial(plain, l) : Store(p, f)
                   ELSE UNCHANGED <<plain, cold>>

\* write_rollout_item of the next record, which becomes visible as a whole.
WriteItem(p) ==
    LET w == writer[p] IN
    /\ w.pc = "write" /\ HasTodo(w)
    /\ Store(p, Write(plain, Line(Todo(w), w.next, TRUE)))
    /\ writer' = [writer EXCEPT ![p] = Written(w)]
    /\ UNCHANGED <<zst, lock, worker, failures, crashes, history>>

\* The write fails, or stops half way.
WriteFails(p) ==
    LET w == writer[p] IN
    /\ w.pc = "write" /\ HasTodo(w) /\ failures < MaxFailures
    /\ failures' = failures + 1
    /\ StorePart(p, Line(Todo(w), w.next, TRUE))
    /\ Fail(p)
    /\ UNCHANGED <<zst, worker, crashes, history>>

\* Everything is written: the command is acknowledged.
Acknowledge(p) ==
    LET w == writer[p] IN
    /\ w.pc = "write" /\ ~HasTodo(w)
    /\ acked' = IF w.op = "add" THEN acked ELSE acked \cup w.added
    /\ CASE w.op = "add" -> writer' = [writer EXCEPT ![p] = Begin(w, "flush")] /\ lock' = lock
         [] w.op = "shutdown" -> Close(p)
         [] OTHER -> writer' = [writer EXCEPT ![p].pc = "idle", ![p].op = "none",
                                           ![p].attempt = 1] /\ lock' = lock
    /\ UNCHANGED <<plain, zst, cold, worker, failures, crashes, recorded, overlapped>>

\* The process dies, perhaps in the middle of a line; the lock dies with it.
Crash(p) ==
    LET w == writer[p] IN
    /\ w.pc # "off" /\ crashes < MaxCrashes
    /\ crashes' = crashes + 1
    /\ IF w.pc = "write" /\ HasTodo(w)
       THEN StorePart(p, Line(Todo(w), w.next, TRUE))
       ELSE UNCHANGED <<plain, cold>>
    /\ Close(p)
    /\ UNCHANGED <<zst, worker, failures, history>>

-----------------------------------------------------------------------------
(* The compression worker, one per home.  It does not take the writer lock.*)

\* MIN_ROLLOUT_AGE, seven days, passes without a write.  No command takes that long.
Age == /\ plain # None /\ ~cold
       /\ \A p \in Process : writer[p].pc \in {"off", "idle"}
       /\ cold' = TRUE
       /\ UNCHANGED <<plain, zst, lock, writer, worker, failures, crashes, history>>

\* compress_rollout_if_cold_blocking: the file is cold and has no sibling.
ColdFileState ==
    /\ worker.pc = "idle" /\ plain # None /\ cold /\ zst = None
    /\ worker' = [Idle EXCEPT !.pc = "encode", !.before = plain]
    /\ UNCHANGED <<plain, zst, cold, lock, writer, failures, crashes, history>>

EncodeZstd ==
    /\ worker.pc = "encode"
    /\ worker' = [worker EXCEPT !.pc = "check", !.tmp = plain]
    /\ UNCHANGED <<plain, zst, cold, lock, writer, failures, crashes, history>>

\* same_file_state: neither length nor modification time has changed.
SameFileState == plain = worker.before /\ cold

CheckUnchanged ==
    /\ worker.pc = "check"
    /\ worker' = IF SameFileState THEN [worker EXCEPT !.pc = "persist"] ELSE Idle
    /\ UNCHANGED <<plain, zst, cold, lock, writer, failures, crashes, history>>

\* persist_noclobber
PersistZst ==
    /\ worker.pc = "persist"
    /\ IF zst = None
       THEN zst' = worker.tmp /\ worker' = [worker EXCEPT !.pc = "recheck"]
       ELSE zst' = zst /\ worker' = Idle
    /\ UNCHANGED <<plain, cold, lock, writer, failures, crashes, history>>

\* Mutant: the second look is left out.
RecheckSkipped ==
    /\ worker.pc = "recheck"
    /\ worker' = [worker EXCEPT !.pc = "unlink",
                                !.raced = \E p \in Process : Uses(p)]
    /\ UNCHANGED <<plain, zst, cold, lock, writer, failures, crashes, history>>

RecheckUnchanged ==
    /\ worker.pc = "recheck"
    /\ IF SameFileState
       THEN /\ worker' = [worker EXCEPT !.pc = "unlink",
                                        !.raced = \E p \in Process : Uses(p)]
            /\ zst' = zst
       ELSE worker' = Idle /\ zst' = None
    /\ UNCHANGED <<plain, cold, lock, writer, failures, crashes, history>>

\* The plain file is removed; a recorder that has it open keeps writing to it.
UnlinkPlain ==
    /\ worker.pc = "unlink"
    /\ plain' = None /\ cold' = FALSE
    /\ writer' = [p \in Process |-> IF writer[p].fd = "plain"
                                    THEN [writer[p] EXCEPT !.fd = "gone"] ELSE writer[p]]
    /\ worker' = Idle
    /\ overlapped' = (overlapped \/ worker.raced)
    /\ UNCHANGED <<zst, lock, failures, crashes, recorded, acked>>

\* The worker fails or its process dies between two of its steps.
WorkerStops ==
    /\ worker.pc # "idle"
    /\ worker' = Idle
    /\ UNCHANGED <<plain, zst, cold, lock, writer, failures, crashes, history>>

-----------------------------------------------------------------------------
Batches == {q \in UNION {[1..n -> Item] : n \in 1..MaxBatch} :
               \A k, m \in DOMAIN q : q[k] = q[m] => k = m}

Session(p) ==
    \/ Create(p) \/ Resume(p)
    \/ \E items \in Batches : AppendItems(p, items)
    \/ Persist(p) \/ Flush(p) \/ Shutdown(p) \/ DiscardThread(p)
    \/ IoError(p) \/ Materialize(p) \/ DropZst(p) \/ OpenLogFile(p) \/ OpenForAppend(p)
    \/ WriteItem(p) \/ WriteFails(p) \/ Acknowledge(p)
    \/ Crash(p)

Worker == \/ Age \/ ColdFileState \/ EncodeZstd \/ CheckUnchanged \/ PersistZst
          \/ RecheckUnchanged \/ UnlinkPlain \/ WorkerStops

Next == (\E p \in Process : Session(p)) \/ Worker

Spec == Init /\ [][Next]_vars

-----------------------------------------------------------------------------
WriterType == [pc : Pcs, op : Ops, attempt : {1, 2}, pending : Seq(Item), meta : BOOLEAN,
               fd : {"none", "plain", "gone"}, deferred : BOOLEAN, refresh : BOOLEAN,
               next : Nat, added : SUBSET Item]

WorkerType == [pc : {"idle", "encode", "check", "persist", "recheck", "unlink"},
               before : Seq(LineType) \cup {None}, tmp : Seq(LineType) \cup {None},
               raced : BOOLEAN]

\* The state is what the code's types allow.
TypeOK ==
    /\ plain \in Seq(LineType) \cup {None}
    /\ zst \in Seq(LineType) \cup {None}
    /\ cold \in BOOLEAN
    /\ lock \in Process \cup {None}
    /\ writer \in [Process -> WriterType]
    /\ worker \in WorkerType
    /\ failures \in 0..MaxFailures
    /\ crashes \in 0..MaxCrashes
    /\ recorded \in Seq(Item)
    /\ acked \in SUBSET Item
    /\ overlapped \in BOOLEAN

\* An item that persist, flush or shutdown has acknowledged is found by every reader
\* from then on (recorder.rs, persist and flush), through failed and torn writes,
\* retries, crashes and compression.
AckedReadable == acked \subseteq ReadItems

\* The same, as long as the worker has not removed a file that a recorder had open.
AckedReadableUnlessOverlapped == overlapped \/ AckedReadable

\* A reader sees the items in the order they were recorded, ordinals never go back,
\* and an ordinal names one item (ordinal.rs): a retried write may repeat a record,
\* but under the ordinal it was first given.
HistoryInOrder ==
    \A m, n \in DOMAIN Lines : m < n /\ Parses(Lines[m]) /\ Parses(Lines[n]) =>
        /\ Lines[m].ord <= Lines[n].ord
        /\ (Lines[m].ord = Lines[n].ord) <=> (Lines[m].item = Lines[n].item)
        /\ \A j, k \in DOMAIN recorded :
              Lines[m].item = recorded[j] /\ Lines[n].item = recorded[k] => j <= k

\* A reader never finds the rollout gone once it was materialized: a compressed or
\* a plain file stands at every moment of a change of representation
\* (compression.rs), and the compressed one, if hidden, has nothing of its own.
NeverGone ==
    /\ acked # {} => Found # None
    /\ ~overlapped /\ plain # None /\ zst # None =>
          ItemsIn(zst) \subseteq ReadItems

\* What a reader finds, by ordinal: the records that a retry has repeated count once.
\* A missing ordinal shows as Junk.
NextOrdinal(f) == IF \E n \in DOMAIN f : Parses(f[n]) THEN LastOrdinal(f) + 1 ELSE 0

At(f, o) == {n \in DOMAIN f : Parses(f[n]) /\ f[n].ord = o}

ItemAt(f, o) == IF At(f, o) = {} THEN Junk ELSE f[CHOOSE n \in At(f, o) : TRUE].item

HistoryOf(f) == [k \in 1..NextOrdinal(f) |-> ItemAt(f, k - 1)]

History == HistoryOf(Lines)

Log == INSTANCE DurableLog WITH log <- History, broken <- overlapped

\* The rollout implements an append-only log whose acknowledgements hold.
ImplementsDurableLog == Log!Spec
=============================================================================
