---------------------------- MODULE SessionTurns ----------------------------
(***************************************************************************)
(* The life of the turns of one session: codex-rs/core/src/tasks/mod.rs,   *)
(* session/{handlers,turn_input,input_queue,inject,turn_suspension}.rs,    *)
(* tasks/regular.rs and the loop of session/turn.rs.                       *)
(*                                                                         *)
(* Four kinds of actor run concurrently on the tokio runtime and share     *)
(* the active turn (a mutex), the turn states it points to and the         *)
(* mailbox:                                                                *)
(*   Loop      the submission loop, which handles one Op at a time;        *)
(*   Realtime  the fanout task of a realtime conversation, which submits   *)
(*             the texts handed off to it (realtime_conversation.rs);      *)
(*   Guardian  the task spawned by guardian/review.rs to abort a turn      *)
(*             whose approvals are denied too often;                       *)
(*   1..MaxTurns  the tasks of the turns, one spawned task per turn, which *)
(*             also run on_task_finished and may start the next turn.      *)
(* An action is what an actor does between two points where it can yield   *)
(* with nothing locked.                                                    *)
(***************************************************************************)
EXTENDS Naturals, FiniteSets

CONSTANTS
  Inputs,        \* inputs the client submits with Op::TurnInput
  Texts,         \* texts a realtime conversation hands off; empty without one
  Mails,         \* inter-agent communications sent to this session
  TriggerMails,  \* the mails with trigger_turn set
  Injections,    \* items that inject_no_new_turn is asked to inject
  MaxTurns,      \* bound on the number of turns created
  MaxInterrupts, \* bound on the number of Op::Interrupt
  MaxToolCalls,  \* bound on the tool calls and stop-hook blocks of a turn
  OtherKinds,    \* the standalone tasks the client may ask for
  GuardianOn,    \* TRUE when the approvals are reviewed by the guardian
  DurableSleep,  \* TRUE when an extension has put the thread to durable sleep
  Loop, Guardian, Realtime, None

Turns  == 1..MaxTurns
UserItems == Inputs \cup Texts
Items  == UserItems \cup Mails \cup Injections
Actors == {Loop, Guardian, Realtime} \cup Turns

(* TurnState objects: a turn's own reservation, and the two that start_task
   creates when the active turn was dropped under it (Arc identity). *)
TurnStates == Turns \X {"reserved", "attached", "installed"}

Kinds   == {"regular", "compact", "review", "shell"}
Results == {"ok", "failed", "aborted"}
Reasons == {"Interrupted", "Replaced", "Suspended"}
Fates   == {"unsent", "live", "consumed", "dropped", "rejected"}
Marks   == {"started", "completed", "aborted", "marker", "suspended"}
Closings == {"no", "shutdown", "suspend"}
Statuses == {"PendingInit", "Running", "Interrupted", "Completed", "Errored",
             "Shutdown"}

RunPcs == {"spawned", "begin", "drain", "record", "sample", "approval",
           "after", "loopcheck", "returned"}
FinishPcs == {"finTake", "finRecord", "finEvent", "finClear"}
AbortPcs == {"abTake", "abWait", "abMarker", "abEvent", "abClear"}
StartPcs == {"mbCheck", "mbReserve", "mbDrain", "mbExtend",
             "stDrain", "stAttach", "stExtend", "stInstall"}
LoopPcs == {"ready", "siReserve", "siSettings", "spTake", "convStop", "stopping",
            "stopped"}
EndPcs  == {"idle", "gTake", "done", "killed"}
Pcs == RunPcs \cup FinishPcs \cup AbortPcs \cup StartPcs \cup LoopPcs \cup EndPcs

ASSUME ConstantsAssumption ==
  /\ MaxTurns \in Nat /\ MaxInterrupts \in Nat /\ MaxToolCalls \in Nat
  /\ TriggerMails \subseteq Mails
  /\ UserItems \cap Mails = {} /\ UserItems \cap Injections = {} /\ Mails \cap Injections = {}
  /\ Inputs \cap Texts = {}
  /\ OtherKinds \subseteq Kinds \ {"regular"}
  /\ GuardianOn \in BOOLEAN /\ DurableSleep \in BOOLEAN
  /\ Loop # Guardian /\ Loop \notin Turns /\ Guardian \notin Turns
  /\ Realtime \notin Turns \cup {Loop, Guardian}
  /\ None \notin Turns /\ None \notin TurnStates /\ None \notin Reasons

VARIABLES
  activeState, \* Session.active_turn: its TurnState, None when there is no turn,
  activeTask,  \*   and its RunningTask, None while the turn is only reserved
  pc,          \* per actor: where it is,
  hand,        \*   the input it has drained and not yet stored or recorded,
  home,        \*   the TurnState it has an Arc of,
  job,         \*   the turn it is going to start,
  victim,      \*   the turn it is aborting,
  reason,      \*   and why (TurnAbortReason)
  kind,        \* per turn: the kind of its task,
  input,       \*   the input handed to the task and not yet recorded,
  result,      \*   what its run returned,
  calls,       \*   and its tool calls
  pending,     \* per TurnState: pending_input,
  accepts,     \*   whether mailbox_delivery_phase is CurrentTurn,
  waiters,     \*   and the turns with a pending approval in it
  mailbox,     \* InputQueue.mailbox_pending_mails
  cancelled,   \* turns whose CancellationToken is cancelled
  status,      \* Session.agent_status
  closing,     \* whether and why the loop is in shutdown_session_runtime
  born,        \* number of turn ids allocated
  interrupts,  \* number of Op::Interrupt handled
  log,         \* per turn: events emitted and history markers (history variable)
  fate         \* per item: what became of it (history variable)

activeVars == <<activeState, activeTask>>
locals     == <<hand, home, job, victim, reason>>
turnVars   == <<kind, input, result, calls>>
stateVars  == <<pending, accepts, waiters>>
others     == <<cancelled, status, closing, born, interrupts, log>>
vars == <<activeVars, pc, locals, turnVars, stateVars, mailbox, others, fate>>

Init ==
  /\ activeState = None /\ activeTask = None
  /\ pc = [a \in Actors |-> IF a = Loop THEN "ready" ELSE "idle"]
  /\ hand = [a \in Actors |-> {}]
  /\ home = [a \in Actors |-> None]
  /\ job = [a \in Actors |-> None]
  /\ victim = [a \in Actors |-> None]
  /\ reason = [a \in Actors |-> None]
  /\ kind = [t \in Turns |-> "regular"]
  /\ input = [t \in Turns |-> {}]
  /\ result = [t \in Turns |-> "ok"]
  /\ calls = [t \in Turns |-> 0]
  /\ pending = [s \in TurnStates |-> {}]
  /\ accepts = [s \in TurnStates |-> TRUE]
  /\ waiters = [s \in TurnStates |-> {}]
  /\ mailbox = {} /\ cancelled = {}
  /\ status = "PendingInit" /\ closing = "no"
  /\ born = 0 /\ interrupts = 0
  /\ log = [t \in Turns |-> {}]
  /\ fate = [i \in Items |-> "unsent"]

-----------------------------------------------------------------------------
(* Helpers *)

Settle(items, f) == fate' = [i \in Items |-> IF i \in items THEN f ELSE fate[i]]

(* run_hooks_and_record_inputs: each item is recorded unless a hook stops it, and
   only user input can be stopped.  It is blocked when something was stopped and
   no user input accepted. *)
Stoppable(items) == SUBSET (items \cap UserItems)
RecordItems(items, stopped) ==
  fate' = [i \in Items |-> IF i \in stopped THEN "dropped"
                           ELSE IF i \in items THEN "consumed" ELSE fate[i]]
Blocked(items, stopped) == stopped # {} /\ (items \ stopped) \cap UserItems = {}

Goto(a, p) == pc' = [pc EXCEPT ![a] = p]
Mark(t, m) == log' = [log EXCEPT ![t] = @ \cup {m}]

(* The locals of the actors in S go out of scope. *)
Reset(S) ==
  /\ hand' = [a \in Actors |-> IF a \in S THEN {} ELSE hand[a]]
  /\ home' = [a \in Actors |-> IF a \in S THEN None ELSE home[a]]
  /\ job' = [a \in Actors |-> IF a \in S THEN None ELSE job[a]]
  /\ victim' = [a \in Actors |-> IF a \in S THEN None ELSE victim[a]]
  /\ reason' = [a \in Actors |-> IF a \in S THEN None ELSE reason[a]]

(* Where an actor goes when the procedure it runs returns. *)
ReturnPc(a) ==
  CASE a = Loop -> IF closing = "no" THEN "ready" ELSE "stopping"
    [] a = Realtime -> "ready"
    [] OTHER -> "done"

Return(a) == Goto(a, ReturnPc(a)) /\ Reset({a})

HasTask == activeTask # None
Steerable(t) == kind[t] \in {"regular", "shell"}
HasTrigger == mailbox \cap TriggerMails # {}

(* ActiveTurn::default() behind the mutex, without a task. *)
Reserve(s) == activeState' = s /\ activeTask' = None

(* Option::take on the active turn. *)
TakeActive == activeState' = None /\ activeTask' = None

(* InputQueue.extend_pending_input_and_accept_mailbox_delivery_for_turn_state *)
ExtendAndAccept(s, items) ==
  /\ pending' = [pending EXCEPT ![s] = @ \cup items]
  /\ accepts' = [accepts EXCEPT ![s] = TRUE]
  /\ UNCHANGED waiters

(* InputQueue.extend_pending_input_for_turn_state *)
Extend(s, items) ==
  /\ pending' = [pending EXCEPT ![s] = @ \cup items]
  /\ UNCHANGED <<accepts, waiters>>

(* InputQueue.clear_pending *)
ClearPending(s) ==
  /\ pending' = [pending EXCEPT ![s] = {}]
  /\ waiters' = [waiters EXCEPT ![s] = {}]
  /\ UNCHANGED accepts

(* InputQueue.has_pending_input *)
HasPendingInput ==
  IF activeState = None THEN mailbox # {}
  ELSE accepts[activeState] /\ (pending[activeState] # {} \/ mailbox # {})

(* A TurnState some actor or the active turn still refers to. *)
LiveStates == ({activeState} \cup {home[a] : a \in Actors}) \ {None}

-----------------------------------------------------------------------------
(* The submission loop: one Op at a time. *)

LoopReady == pc[Loop] = "ready"

(* Mutant: the turn id is not used up. *)
ReuseTurnId(k, items) ==
  /\ born < MaxTurns
  /\ kind' = [kind EXCEPT ![born + 1] = k]
  /\ input' = [input EXCEPT ![born + 1] = items]
  /\ UNCHANGED <<result, calls, born>>

(* A turn context under a fresh turn id. *)
NewTurn(k, items) ==
  /\ born < MaxTurns
  /\ born' = born + 1
  /\ kind' = [kind EXCEPT ![born + 1] = k]
  /\ input' = [input EXCEPT ![born + 1] = items]
  /\ UNCHANGED <<result, calls>>

(* Session::steer_input on a running task that takes input. *)
SteerInput(u) ==
  /\ HasTask /\ Steerable(activeTask)
  /\ ExtendAndAccept(activeState, {u})
  /\ Settle({u}, "live")
  /\ UNCHANGED <<pc, job, reason, turnVars, born>>

(* NotSubmitted or an error: a review or compact task runs, the expected turn is
   not the active one, the input is empty, its output schema or its settings do
   not fit, the session is not idle, is in Plan mode or has trigger mail. *)
NotSubmitted(u) ==
  /\ Settle({u}, "rejected")
  /\ UNCHANGED <<pc, job, reason, turnVars, born, stateVars>>

(* Mutant: start_task where spawn_task is meant, nothing is aborted. *)
StartBeside(a, k, items) ==
  /\ NewTurn(k, items)
  /\ Goto(a, "stDrain")
  /\ job' = [job EXCEPT ![a] = born + 1]
  /\ UNCHANGED reason

(* A turn context is built and spawn_task first aborts what is active. *)
ReplaceWith(a, k, items) ==
  /\ NewTurn(k, items)
  /\ Goto(a, "abTake")
  /\ reason' = [reason EXCEPT ![a] = "Replaced"]
  /\ job' = [job EXCEPT ![a] = born + 1]

(* turn_input::start_or_steer, run by the loop and by the realtime conversation
   (route_realtime_text_input): steer the running task or, NoActiveTurn, start a
   turn. *)
StartOrSteer(a, u) ==
  /\ pc[a] = "ready" /\ fate[u] = "unsent"
  /\ \/ SteerInput(u)
     \/ NotSubmitted(u)
     \/ /\ ~HasTask
        /\ ReplaceWith(a, "regular", {u})
        /\ Settle({u}, "live")
        /\ UNCHANGED stateVars
  /\ UNCHANGED <<activeVars, hand, home, victim, mailbox, cancelled, status, closing,
                 interrupts, log>>

(* turn_input::steer: TurnInputMode::Steer { expected_turn_id: t }. *)
Steer(u, t) ==
  /\ LoopReady /\ fate[u] = "unsent"
  /\ \/ activeTask = t /\ SteerInput(u)
     \/ NotSubmitted(u)
  /\ UNCHANGED <<activeVars, hand, home, victim, mailbox, cancelled, status, closing,
                 interrupts, log>>

(* turn_input::start_if_idle up to the reservation: trigger mail and Plan mode
   reject the input first. *)
StartIfIdle(u) ==
  /\ LoopReady /\ fate[u] = "unsent"
  /\ \/ NotSubmitted(u)
     \/ /\ ~HasTrigger
        /\ NewTurn("regular", {u})
        /\ Goto(Loop, "siReserve")
        /\ job' = [job EXCEPT ![Loop] = born + 1]
        /\ Settle({u}, "live")
        /\ UNCHANGED <<reason, stateVars>>
  /\ UNCHANGED <<activeVars, hand, home, victim, mailbox, cancelled, status, closing,
                 interrupts, log>>

(* The input of the job that start_if_idle gives up is not submitted. *)
RejectJob ==
  /\ Settle(input[job[Loop]], "rejected")
  /\ input' = [input EXCEPT ![job[Loop]] = {}]
  /\ Return(Loop)

(* The reservation: NotIdle when any active turn is there.  The second look at
   the mailbox sees what the first saw: mail enters only through this loop. *)
StartIfIdleReserve ==
  /\ pc[Loop] = "siReserve"
  /\ \/ /\ activeState # None
        /\ RejectJob
        /\ UNCHANGED activeVars
     \/ /\ activeState = None
        /\ Reserve(<<job[Loop], "reserved">>)
        /\ Goto(Loop, "siSettings")
        /\ home' = [home EXCEPT ![Loop] = <<job[Loop], "reserved">>]
        /\ UNCHANGED <<hand, job, victim, reason, input, fate>>
  /\ UNCHANGED <<kind, result, calls, stateVars, mailbox, others>>

(* Session::clear_reserved_idle_turn *)
ClearReserved(s) ==
  IF activeState = s /\ activeTask = None THEN TakeActive ELSE UNCHANGED activeVars

(* Settings are prepared and applied; a failure gives the reservation back.
   Automatic input waits in the reserved turn state, user input goes to the
   task. *)
StartIfIdleSettings ==
  /\ pc[Loop] = "siSettings"
  /\ \/ /\ ClearReserved(home[Loop])
        /\ RejectJob
        /\ UNCHANGED stateVars
     \/ /\ Goto(Loop, "stDrain")
        /\ \/ UNCHANGED <<input, stateVars>>
           \/ /\ Extend(home[Loop], input[job[Loop]])
              /\ input' = [input EXCEPT ![job[Loop]] = {}]
        /\ UNCHANGED <<activeVars, locals, fate>>
  /\ UNCHANGED <<kind, result, calls, mailbox, others>>

(* handlers::inter_agent_communication *)
InterAgentCommunication(m) ==
  /\ LoopReady /\ fate[m] = "unsent"
  /\ mailbox' = mailbox \cup {m}
  /\ Settle({m}, "live")
  /\ IF m \in TriggerMails \/ DurableSleep THEN Goto(Loop, "mbCheck") ELSE UNCHANGED pc
  /\ UNCHANGED <<activeVars, locals, turnVars, stateVars, others>>

(* handlers::interrupt, Session::interrupt_task *)
Interrupt ==
  /\ LoopReady /\ interrupts < MaxInterrupts
  /\ interrupts' = interrupts + 1
  /\ Goto(Loop, "abTake")
  /\ reason' = [reason EXCEPT ![Loop] = "Interrupted"]
  /\ UNCHANGED <<activeVars, hand, home, job, victim, turnVars, stateVars, mailbox,
                 cancelled, status, closing, born, log, fate>>

(* handlers::compact, review and run_user_shell_command: a standalone task
   replaces what runs; a shell command joins a running task instead. *)
SpawnStandalone(k) ==
  /\ LoopReady
  /\ k = "shell" => ~HasTask
  /\ ReplaceWith(Loop, k, {})
  /\ UNCHANGED <<activeVars, hand, home, victim, stateVars, mailbox, cancelled, status,
                 closing, interrupts, log, fate>>

(* handlers::exec_approval, Session::notify_approval: the waiter is looked up
   in the turn state of the active turn. *)
ExecApproval(t) ==
  /\ LoopReady /\ activeState # None
  /\ t \in waiters[activeState]
  /\ waiters' = [waiters EXCEPT ![activeState] = @ \ {t}]
  /\ IF pc[t] = "approval" THEN Goto(t, "drain") ELSE UNCHANGED pc
  /\ UNCHANGED <<activeVars, locals, turnVars, pending, accepts, mailbox, others, fate>>

(* realtime_conversation::handle_start and handle_close: both first stop the
   conversation that runs. *)
RealtimeConversation ==
  /\ LoopReady /\ Texts # {}
  /\ Goto(Loop, "convStop")
  /\ UNCHANGED <<activeVars, locals, turnVars, stateVars, mailbox, others, fate>>

(* handlers::shutdown, or the channel of the ops is closed:
   shutdown_session_runtime begins by stopping the conversation. *)
Shutdown ==
  /\ LoopReady
  /\ closing' = "shutdown"
  /\ Goto(Loop, "convStop")
  /\ UNCHANGED <<activeVars, locals, turnVars, stateVars, mailbox, cancelled, status, born,
                 interrupts, log, fate>>

(* stop_conversation_state awaits the fanout task, which routes the texts it has
   received before it ends.  Then a conversation may start, or the shutdown goes
   on with abort_all_tasks(Interrupted). *)
ConversationStopped ==
  /\ pc[Loop] = "convStop" /\ pc[Realtime] \in {"idle", "ready"}
  /\ IF closing = "no"
     THEN /\ \E p \in {"idle", "ready"} :
               pc' = [pc EXCEPT ![Loop] = "ready", ![Realtime] = p]
          /\ UNCHANGED reason
     ELSE /\ pc' = [pc EXCEPT ![Loop] = "abTake", ![Realtime] = "idle"]
          /\ reason' = [reason EXCEPT ![Loop] = "Interrupted"]
  /\ UNCHANGED <<activeVars, hand, home, job, victim, turnVars, stateVars, mailbox, others,
                 fate>>

(* The transport closes and the fanout task ends by itself. *)
TransportClosed ==
  /\ pc[Realtime] = "ready"
  /\ Goto(Realtime, "idle")
  /\ UNCHANGED <<activeVars, locals, turnVars, stateVars, mailbox, others, fate>>

(* ... and ends with ShutdownComplete, which is not sent when the channel was
   closed. *)
ShutdownComplete ==
  /\ pc[Loop] = "stopping"
  /\ Goto(Loop, "stopped")
  /\ status' \in {"Shutdown"} \cup (IF closing = "shutdown" THEN {status} ELSE {})
  /\ UNCHANGED <<activeVars, locals, turnVars, stateVars, mailbox, cancelled, closing,
                 born, interrupts, log, fate>>

(* The flush or the close of the thread fails after a suspension: the op returns
   the error and the loop goes on. *)
SuspendFails ==
  /\ pc[Loop] = "stopping" /\ closing = "suspend"
  /\ Goto(Loop, "ready")
  /\ closing' = "no"
  /\ UNCHANGED <<activeVars, locals, turnVars, stateVars, mailbox, cancelled, status, born,
                 interrupts, log, fate>>

(* turn_suspension::suspend_turn_and_shutdown: the first look, then the flush. *)
SuspendTurn ==
  /\ LoopReady /\ HasTask /\ Steerable(activeTask)
  /\ Goto(Loop, "spTake")
  /\ UNCHANGED <<activeVars, locals, turnVars, stateVars, mailbox, others, fate>>

(* The second look and the take, under one lock, then cancel(). *)
SuspendTake ==
  /\ pc[Loop] = "spTake"
  /\ IF HasTask /\ Steerable(activeTask)
     THEN /\ TakeActive
          /\ cancelled' = cancelled \cup {activeTask}
          /\ Mark(activeTask, "suspended")
          /\ Goto(Loop, "abWait")
          /\ home' = [home EXCEPT ![Loop] = activeState]
          /\ victim' = [victim EXCEPT ![Loop] = activeTask]
          /\ reason' = [reason EXCEPT ![Loop] = "Suspended"]
     ELSE /\ Goto(Loop, "ready")
          /\ UNCHANGED <<activeVars, cancelled, log, home, victim, reason>>
  /\ UNCHANGED <<hand, job, turnVars, stateVars, mailbox, status, closing, born,
                 interrupts, fate>>

-----------------------------------------------------------------------------
(* abort_all_tasks and abort_turn_if_active, run by any actor but the tasks. *)

(* take_active_turn when there is a task: mark_interrupted, cancel(), and the
   aborter keeps the turn state it took. *)
TakeTask(a, why) ==
  /\ TakeActive
  /\ cancelled' = cancelled \cup {activeTask}
  /\ status' = IF why = "Interrupted" THEN "Interrupted" ELSE status
  /\ Goto(a, "abWait")
  /\ home' = [home EXCEPT ![a] = activeState]
  /\ victim' = [victim EXCEPT ![a] = activeTask]
  /\ reason' = [reason EXCEPT ![a] = why]
  /\ UNCHANGED <<hand, job>>

(* Mutant: a reservation is aborted as if it had a task. *)
AbortReservation(a) ==
  /\ pc[a] = "abTake"
  /\ TakeTask(a, reason[a])
  /\ UNCHANGED <<turnVars, stateVars, mailbox, closing, born, interrupts, log, fate>>

(* abort_all_tasks.  A reservation has no task: it is dropped, nothing is
   aborted, and an interrupt looks for no pending work. *)
AbortTake(a) ==
  /\ pc[a] = "abTake"
  /\ \/ HasTask /\ TakeTask(a, reason[a])
     \/ /\ ~HasTask
        /\ TakeActive
        /\ IF reason[a] = "Replaced"
           THEN /\ Goto(a, "stDrain")
                /\ reason' = [reason EXCEPT ![a] = None]
                /\ UNCHANGED <<hand, home, job, victim>>
           ELSE Return(a)
        /\ UNCHANGED <<cancelled, status>>
  /\ UNCHANGED <<turnVars, stateVars, mailbox, closing, born, interrupts, log, fate>>

(* handle.abort(): a task that has not ended by itself stops where it is.
   Mutant: the abort only asks. *)
LeftRunning(v) == pc[v]
Stopped(v) == IF pc[v] = "done" THEN "done" ELSE "killed"

(* What follows the wait: the marker if interrupted, the event unless suspended.
   Mutants: no event for a replaced turn, an event for a suspended one, and
   waiting again after the timeout. *)
SilentReplace(a) == IF reason[a] = "Interrupted" THEN "abMarker" ELSE "abClear"
ReportSuspended(a) == IF reason[a] = "Interrupted" THEN "abMarker" ELSE "abEvent"
WaitAgain(a) == IF pc[victim[a]] = "done" THEN "abEvent" ELSE "abWait"
AfterWait(a) ==
  CASE reason[a] = "Interrupted" -> "abMarker"
    [] reason[a] = "Replaced" -> "abEvent"
    [] OTHER -> "abClear"

(* handle_task_abort: done.notified() or the 100 ms timeout, then
   handle.abort(): what the task held is gone. *)
AbortWait(a) ==
  /\ pc[a] = "abWait"
  /\ LET v == victim[a] IN
     /\ pc' = [pc EXCEPT ![v] = Stopped(v), ![a] = AfterWait(a)]
     /\ Settle(hand[v] \cup input[v], "dropped")
     /\ input' = [input EXCEPT ![v] = {}]
     /\ Reset({v})
  /\ UNCHANGED <<activeVars, kind, result, calls, stateVars, mailbox, others>>

(* The interrupted-turn marker is recorded and flushed before TurnAborted. *)
AbortMarker(a) ==
  /\ pc[a] = "abMarker"
  /\ Goto(a, "abEvent")
  /\ Mark(victim[a], "marker")
  /\ UNCHANGED <<activeVars, locals, turnVars, stateVars, mailbox, cancelled, status,
                 closing, born, interrupts, fate>>

(* TurnAborted *)
AbortEvent(a) ==
  /\ pc[a] = "abEvent"
  /\ Goto(a, "abClear")
  /\ Mark(victim[a], "aborted")
  /\ status' = IF reason[a] = "Interrupted" THEN "Interrupted" ELSE "Errored"
  /\ UNCHANGED <<activeVars, locals, turnVars, stateVars, mailbox, cancelled, closing,
                 born, interrupts, fate>>

(* clear_pending; an interrupt then looks for pending work, a replacement
   starts its task, a suspension goes on to shutdown_session_runtime. *)
AbortClear(a) ==
  /\ pc[a] = "abClear"
  /\ Settle(pending[home[a]], "dropped")
  /\ ClearPending(home[a])
  /\ home' = [home EXCEPT ![a] = None]
  /\ victim' = [victim EXCEPT ![a] = None]
  /\ reason' = [reason EXCEPT ![a] = None]
  /\ Goto(a, CASE reason[a] = "Interrupted" -> "mbCheck"
               [] reason[a] = "Replaced" -> "stDrain"
               [] OTHER -> "convStop")
  /\ closing' = IF reason[a] = "Suspended" THEN "suspend" ELSE closing
  /\ UNCHANGED <<activeVars, hand, job, turnVars, mailbox, cancelled, status, born,
                 interrupts, log>>

-----------------------------------------------------------------------------
(* maybe_start_turn_for_pending_work and start_task, run by any actor. *)

MaybeStartCheck(a) ==
  /\ pc[a] = "mbCheck"
  /\ IF mailbox # {} /\ (HasTrigger \/ DurableSleep)
     THEN Goto(a, "mbReserve") /\ UNCHANGED locals
     ELSE Return(a)
  /\ UNCHANGED <<activeVars, turnVars, stateVars, mailbox, others, fate>>

MaybeStartReserve(a) ==
  /\ pc[a] = "mbReserve"
  /\ \/ /\ activeState # None
        /\ Return(a)
        /\ UNCHANGED <<activeVars, turnVars, born>>
     \/ /\ activeState = None
        /\ NewTurn("regular", {})
        /\ Reserve(<<born + 1, "reserved">>)
        /\ Goto(a, "mbDrain")
        /\ job' = [job EXCEPT ![a] = born + 1]
        /\ home' = [home EXCEPT ![a] = <<born + 1, "reserved">>]
        /\ UNCHANGED <<hand, victim, reason>>
  /\ UNCHANGED <<stateVars, mailbox, cancelled, status, closing, interrupts, log, fate>>

(* Mutant: the mailbox is read and not emptied. *)
PeekPendingInput(a) ==
  IF activeState = None
  THEN /\ hand' = [hand EXCEPT ![a] = mailbox]
       /\ UNCHANGED <<mailbox, pending>>
  ELSE IF accepts[activeState]
  THEN /\ hand' = [hand EXCEPT ![a] = mailbox \cup pending[activeState]]
       /\ pending' = [pending EXCEPT ![activeState] = {}]
       /\ UNCHANGED mailbox
  ELSE UNCHANGED <<hand, mailbox, pending>>

(* InputQueue.get_pending_input: the pending input of the active turn, if it
   accepts mailbox delivery, and with it the whole mailbox. *)
GetPendingInput(a) ==
  IF activeState = None
  THEN /\ hand' = [hand EXCEPT ![a] = mailbox]
       /\ mailbox' = {}
       /\ UNCHANGED pending
  ELSE IF accepts[activeState]
  THEN /\ hand' = [hand EXCEPT ![a] = mailbox \cup pending[activeState]]
       /\ mailbox' = {}
       /\ pending' = [pending EXCEPT ![activeState] = {}]
  ELSE UNCHANGED <<hand, mailbox, pending>>

MaybeStartDrain(a) ==
  /\ pc[a] = "mbDrain"
  /\ GetPendingInput(a)
  /\ Goto(a, "mbExtend")
  /\ UNCHANGED <<activeVars, home, job, victim, reason, turnVars, accepts, waiters,
                 others, fate>>

(* The mail goes back into the reserved turn state, wherever that is by now. *)
MaybeStartExtend(a) ==
  /\ pc[a] = "mbExtend"
  /\ Extend(home[a], hand[a])
  /\ hand' = [hand EXCEPT ![a] = {}]
  /\ Goto(a, "stDrain")
  /\ UNCHANGED <<activeVars, home, job, victim, reason, turnVars, mailbox, others, fate>>

(* start_task: InputQueue.drain_mailbox_input_items *)
StartDrain(a) ==
  /\ pc[a] = "stDrain"
  /\ hand' = [hand EXCEPT ![a] = mailbox]
  /\ mailbox' = {}
  /\ Goto(a, "stAttach")
  /\ UNCHANGED <<activeVars, home, job, victim, reason, turnVars, stateVars, others, fate>>

(* get_or_insert_with(ActiveTurn::default): the turn state, created under the
   given tag when nothing is active.  Mutant: it is taken to be there. *)
GetActive(a, tag) == activeState
GetOrInsert(a, tag) == IF activeState = None THEN <<job[a], tag>> ELSE activeState

(* First lock of the active turn: attach to it. *)
StartAttach(a) ==
  /\ pc[a] = "stAttach"
  /\ activeState' = GetOrInsert(a, "attached")
  /\ home' = [home EXCEPT ![a] = GetOrInsert(a, "attached")]
  /\ Goto(a, "stExtend")
  /\ UNCHANGED <<activeTask, hand, job, victim, reason, turnVars, stateVars, mailbox, others,
                 fate>>

(* The mail goes into the turn state it attached to, under that one's lock. *)
StartExtend(a) ==
  /\ pc[a] = "stExtend"
  /\ Extend(home[a], hand[a])
  /\ hand' = [hand EXCEPT ![a] = {}]
  /\ Goto(a, "stInstall")
  /\ UNCHANGED <<activeVars, home, job, victim, reason, turnVars, mailbox, others, fate>>

(* Second lock of the active turn, after the turn-start lifecycle: spawn the task and store it.  A
   RunningTask that is overwritten is dropped, which aborts it. *)
StartInstall(a) ==
  /\ pc[a] = "stInstall"
  /\ activeState' = GetOrInsert(a, "installed")
  /\ activeTask' = job[a]
  /\ IF HasTask
     THEN /\ pc' = [pc EXCEPT ![a] = ReturnPc(a), ![activeTask] = "killed",
                              ![job[a]] = "spawned"]
          /\ Settle(hand[activeTask] \cup input[activeTask], "dropped")
          /\ input' = [input EXCEPT ![activeTask] = {}]
          /\ Reset({a, activeTask})
     ELSE /\ pc' = [pc EXCEPT ![a] = ReturnPc(a), ![job[a]] = "spawned"]
          /\ Reset({a})
          /\ UNCHANGED <<fate, input>>
  /\ UNCHANGED <<kind, result, calls, stateVars, mailbox, others>>

-----------------------------------------------------------------------------
(* The task of a turn: RegularTask::run around run_turn, and the others. *)

Finish(t, r) ==
  /\ Goto(t, "returned")
  /\ result' = [result EXCEPT ![t] = r]

(* TurnStarted; a review emits none. *)
TaskStarted(t) ==
  /\ pc[t] = "spawned"
  /\ Goto(t, "begin")
  /\ IF kind[t] = "review" THEN UNCHANGED <<log, status>>
     ELSE Mark(t, "started") /\ status' = "Running"
  /\ UNCHANGED <<activeVars, locals, turnVars, stateVars, mailbox, cancelled, closing,
                 born, interrupts, fate>>

(* run_turn up to its loop: the fresh input is recorded and sampled before any
   pending input is drained; hooks that stop all of it, or the start of the
   session, end run_turn with nothing recorded. *)
RecordInput(t) ==
  /\ pc[t] = "begin" /\ kind[t] = "regular"
  /\ \E stopped \in Stoppable(input[t]) :
       /\ RecordItems(input[t], stopped)
       /\ \/ ~Blocked(input[t], stopped) /\ Goto(t, IF input[t] = {} THEN "drain" ELSE "sample")
          \/ stopped = input[t] /\ Goto(t, "loopcheck")
  /\ input' = [input EXCEPT ![t] = {}]
  /\ UNCHANGED <<activeVars, locals, kind, result, calls, stateVars, mailbox, others>>

(* Pre-sampling compaction or the first step's context fails: the error is
   terminal and the input the task was given is not recorded. *)
PreSamplingCompactFails(t) ==
  /\ pc[t] = "begin" /\ kind[t] = "regular"
  /\ Finish(t, "failed")
  /\ Settle(input[t], "dropped")
  /\ input' = [input EXCEPT ![t] = {}]
  /\ status' = "Errored"
  /\ UNCHANGED <<activeVars, locals, kind, calls, stateVars, mailbox, cancelled, closing,
                 born, interrupts, log>>

(* The work of a compact, review or shell task, and the error it reports. *)
StandaloneWork(t) ==
  /\ pc[t] = "begin" /\ kind[t] # "regular"
  /\ \/ Finish(t, "ok") /\ UNCHANGED status
     \/ Finish(t, "failed") /\ status' = "Errored"
  /\ UNCHANGED <<activeVars, locals, kind, input, calls, stateVars, mailbox, cancelled,
                 closing, born, interrupts, log, fate>>

DrainPending(t) ==
  /\ pc[t] = "drain"
  /\ GetPendingInput(t)
  /\ Goto(t, "record")
  /\ UNCHANGED <<activeVars, home, job, victim, reason, turnVars, accepts, waiters,
                 others, fate>>

(* What was drained is recorded; when hooks block it, the loop ends. *)
RecordPending(t) ==
  /\ pc[t] = "record"
  /\ \E stopped \in Stoppable(hand[t]) :
       /\ RecordItems(hand[t], stopped)
       /\ Goto(t, IF Blocked(hand[t], stopped) THEN "loopcheck" ELSE "sample")
  /\ hand' = [hand EXCEPT ![t] = {}]
  /\ UNCHANGED <<activeVars, home, job, victim, reason, turnVars, stateVars, mailbox,
                 others>>

(* InputQueue.accept_mailbox_delivery_for_current_turn(sub_id) *)
AcceptMailbox(t) ==
  accepts' = IF activeTask = t THEN [accepts EXCEPT ![activeState] = TRUE] ELSE accepts

(* InputQueue.defer_mailbox_delivery_to_next_turn(sub_id) *)
DeferMailbox(t) ==
  accepts' = IF activeTask = t /\ pending[activeState] \subseteq Mails \ TriggerMails
             THEN [accepts EXCEPT ![activeState] = FALSE] ELSE accepts

(* The model's final answer defers the mailbox to the next turn. *)
SampleAnswer(t) ==
  /\ pc[t] = "sample"
  /\ DeferMailbox(t)
  /\ Goto(t, "after")
  /\ UNCHANGED <<activeVars, locals, turnVars, pending, waiters, mailbox, others, fate>>

CountCall(t) ==
  /\ calls[t] < MaxToolCalls
  /\ calls' = [calls EXCEPT ![t] = @ + 1]

(* A tool call accepts the mailbox again; the follow-up drains it, or samples
   first when the context was compacted. *)
SampleToolCall(t) ==
  /\ pc[t] = "sample"
  /\ CountCall(t)
  /\ AcceptMailbox(t)
  /\ Goto(t, "drain") \/ UNCHANGED pc
  /\ UNCHANGED <<activeVars, locals, kind, input, result, pending, waiters, mailbox,
                 others, fate>>

(* Session::request_command_approval: the waiter goes into the active turn;
   with no active turn the sender is dropped at once. *)
AskApproval(t) ==
  /\ pc[t] = "sample"
  /\ CountCall(t)
  /\ AcceptMailbox(t)
  /\ Goto(t, "approval")
  /\ waiters' = IF activeState = None THEN waiters
                ELSE [waiters EXCEPT ![activeState] = @ \cup {t}]
  /\ UNCHANGED <<activeVars, locals, kind, input, result, pending, mailbox, others, fate>>

(* Some turn state still holds the sender of t's approval. *)
Waiting(t) == \E s \in LiveStates : t \in waiters[s]

(* The sender is gone: the wait ends with ReviewDecision::Abort, TurnAborted. *)
ApprovalDropped(t) ==
  /\ pc[t] = "approval"
  /\ ~Waiting(t)
  /\ Finish(t, "aborted")
  /\ UNCHANGED <<activeVars, locals, kind, input, calls, stateVars, mailbox, others, fate>>

(* A turn error, of the request or of the compaction after it: reported, and
   terminal for the turn; what is pending stays for on_task_finished. *)
SampleError(t) ==
  /\ pc[t] \in {"sample", "after"}
  /\ Finish(t, "failed")
  /\ status' = "Errored"
  /\ UNCHANGED <<activeVars, locals, kind, input, calls, stateVars, mailbox, cancelled,
                 closing, born, interrupts, log, fate>>

(* The cancelled token is observed wherever the task awaits with or_cancel; a
   compact task does not look at it. *)
ObserveCancel(t) ==
  /\ t \in cancelled /\ kind[t] # "compact"
  /\ pc[t] \in {"begin", "sample", "approval"}
  /\ Finish(t, "aborted")
  /\ \E stopped \in Stoppable(input[t]) : RecordItems(input[t], stopped)
  /\ input' = [input EXCEPT ![t] = {}]
  /\ UNCHANGED <<activeVars, locals, kind, calls, stateVars, mailbox, others>>

(* After a sampling request without follow-up: pending input continues the
   turn, else the stop hooks may block, else the loop breaks. *)
AfterSampling(t) ==
  /\ pc[t] = "after"
  /\ \/ /\ HasPendingInput
        /\ Goto(t, "drain")
        /\ UNCHANGED <<calls, accepts>>
     \/ /\ ~HasPendingInput
        /\ CountCall(t)
        /\ AcceptMailbox(t)
        /\ Goto(t, "drain")
     \/ /\ ~HasPendingInput
        /\ Goto(t, "loopcheck")
        /\ UNCHANGED <<calls, accepts>>
  /\ UNCHANGED <<activeVars, locals, kind, input, result, pending, waiters, mailbox,
                 others, fate>>

(* RegularTask::run: go round again while there is pending input. *)
LoopCheck(t) ==
  /\ pc[t] = "loopcheck"
  /\ Goto(t, IF HasPendingInput THEN "begin" ELSE "returned")
  /\ UNCHANGED <<activeVars, locals, turnVars, stateVars, mailbox, others, fate>>

-----------------------------------------------------------------------------
(* The end of the spawned task: on_task_finished. *)

(* Mutant: a task that failed does not finish its turn. *)
ReturnedFailed(t) ==
  /\ pc[t] = "returned"
  /\ IF t \in cancelled \/ result[t] = "failed"
     THEN Return(t) ELSE Goto(t, "finTake") /\ UNCHANGED locals
  /\ UNCHANGED <<activeVars, turnVars, stateVars, mailbox, others, fate>>

(* Only a task whose token is not cancelled finishes its turn. *)
TaskReturned(t) ==
  /\ pc[t] = "returned"
  /\ IF t \in cancelled THEN Return(t) ELSE Goto(t, "finTake") /\ UNCHANGED locals
  /\ UNCHANGED <<activeVars, turnVars, stateVars, mailbox, others, fate>>

(* InputQueue.take_pending_input_for_turn_state.  Mutants: the input stays in the
   turn state, with and without a copy of it being recorded. *)
CopyPending(t) ==
  /\ hand' = [hand EXCEPT ![t] = pending[activeState]]
  /\ UNCHANGED pending
LeavePending(t) == UNCHANGED <<hand, pending>>
TakePending(t) ==
  /\ hand' = [hand EXCEPT ![t] = pending[activeState]]
  /\ pending' = [pending EXCEPT ![activeState] = {}]

(* Take the task of the active turn, whichever it is, detach its handle, and
   take the turn's pending input. *)
FinishTake(t) ==
  /\ pc[t] = "finTake"
  /\ IF HasTask
     THEN /\ activeTask' = None
          /\ Goto(t, "finRecord")
          /\ home' = [home EXCEPT ![t] = activeState]
          /\ TakePending(t)
          /\ UNCHANGED <<job, victim, reason>>
     ELSE /\ Return(t)
          /\ UNCHANGED <<activeTask, pending>>
  /\ UNCHANGED <<activeState, turnVars, accepts, waiters, mailbox, others, fate>>

(* What the turn left pending is recorded. *)
FinishRecord(t) ==
  /\ pc[t] = "finRecord"
  /\ Goto(t, "finEvent")
  /\ \E stopped \in Stoppable(hand[t]) : RecordItems(hand[t], stopped)
  /\ hand' = [hand EXCEPT ![t] = {}]
  /\ UNCHANGED <<activeVars, home, job, victim, reason, turnVars, stateVars, mailbox,
                 others>>

(* TurnAborted, or TurnComplete with the terminal error if there was one. *)
FinishEvent(t) ==
  /\ pc[t] = "finEvent"
  /\ Goto(t, "finClear")
  /\ Mark(t, IF result[t] = "aborted" THEN "aborted" ELSE "completed")
  /\ status' = CASE result[t] = "aborted" -> "Interrupted"
                 [] result[t] = "failed" -> "Errored"
                 [] OTHER -> "Completed"
  /\ UNCHANGED <<activeVars, locals, turnVars, stateVars, mailbox, cancelled, closing,
                 born, interrupts, fate>>

(* Clear the active turn if it is still this one (Arc::ptr_eq); then the idle
   lifecycle runs and pending work may start the next turn. *)
FinishClear(t) ==
  /\ pc[t] = "finClear"
  /\ IF activeState = home[t] /\ activeTask = None
     THEN /\ TakeActive
          /\ Goto(t, "mbCheck")
          /\ Reset({t})
     ELSE /\ Return(t)
          /\ UNCHANGED activeVars
  /\ UNCHANGED <<turnVars, stateVars, mailbox, others, fate>>

-----------------------------------------------------------------------------
(* The guardian and the injections. *)

(* guardian/review.rs: too many denials in turn t spawn an abort of t. *)
GuardianDeny(t) ==
  /\ GuardianOn /\ pc[Guardian] = "idle"
  /\ pc[t] \in {"sample", "approval"} /\ activeTask = t
  /\ Goto(Guardian, "gTake")
  /\ victim' = [victim EXCEPT ![Guardian] = t]
  /\ UNCHANGED <<activeVars, hand, home, job, reason, turnVars, stateVars, mailbox,
                 others, fate>>

(* abort_turn_if_active(turn_id, Interrupted) *)
GuardianTake ==
  /\ pc[Guardian] = "gTake"
  /\ \/ HasTask /\ activeTask = victim[Guardian] /\ TakeTask(Guardian, "Interrupted")
     \/ /\ ~HasTask \/ activeTask # victim[Guardian]
        /\ Return(Guardian)
        /\ UNCHANGED <<activeVars, cancelled, status>>
  /\ UNCHANGED <<turnVars, stateVars, mailbox, closing, born, interrupts, log, fate>>

(* Session::inject_no_new_turn: into the active turn, whether or not it has a
   task, else straight into history. *)
InjectNoNewTurn(x) ==
  /\ fate[x] = "unsent"
  /\ \/ /\ activeState # None
        /\ ExtendAndAccept(activeState, {x})
        /\ Settle({x}, "live")
     \/ /\ activeState = None
        /\ Settle({x}, "consumed")
        /\ UNCHANGED stateVars
  /\ UNCHANGED <<activeVars, pc, locals, turnVars, mailbox, others>>

-----------------------------------------------------------------------------
LoopStep ==
  \/ \E u \in Inputs : StartOrSteer(Loop, u) \/ StartIfIdle(u) \/ \E t \in Turns : Steer(u, t)
  \/ \E m \in Mails : InterAgentCommunication(m)
  \/ \E k \in OtherKinds : SpawnStandalone(k)
  \/ \E t \in Turns : ExecApproval(t)
  \/ Interrupt \/ Shutdown \/ SuspendTurn \/ RealtimeConversation

LoopInternal ==
  \/ StartIfIdleReserve \/ StartIfIdleSettings \/ SuspendTake \/ ConversationStopped
  \/ ShutdownComplete \/ SuspendFails

Procedure(a) ==
  \/ AbortTake(a) \/ AbortWait(a) \/ AbortMarker(a) \/ AbortEvent(a) \/ AbortClear(a)
  \/ MaybeStartCheck(a) \/ MaybeStartReserve(a) \/ MaybeStartDrain(a) \/ MaybeStartExtend(a)
  \/ StartDrain(a) \/ StartAttach(a) \/ StartExtend(a) \/ StartInstall(a)

Running(t) ==
  \/ TaskStarted(t) \/ RecordInput(t) \/ PreSamplingCompactFails(t) \/ StandaloneWork(t)
  \/ DrainPending(t) \/ RecordPending(t) \/ SampleAnswer(t) \/ SampleToolCall(t)
  \/ AskApproval(t) \/ ApprovalDropped(t) \/ SampleError(t) \/ ObserveCancel(t)
  \/ AfterSampling(t) \/ LoopCheck(t)

Finishing(t) ==
  TaskReturned(t) \/ FinishTake(t) \/ FinishRecord(t) \/ FinishEvent(t) \/ FinishClear(t)

Next ==
  \/ LoopStep \/ LoopInternal
  \/ \E a \in Actors : Procedure(a)
  \/ \E t \in Turns : Running(t) \/ Finishing(t) \/ GuardianDeny(t)
  \/ GuardianTake
  \/ \E x \in Injections : InjectNoNewTurn(x)
  \/ \E u \in Texts : StartOrSteer(Realtime, u)
  \/ TransportClosed

(* What an actor does by itself once it has begun. *)
Own(a) ==
  \/ Procedure(a)
  \/ a = Loop /\ LoopInternal
  \/ a = Guardian /\ GuardianTake
  \/ a \in Turns /\ Finishing(a)

(* The runtime keeps polling every actor that can move, except for the model
   and the tools a running task waits for. *)
Fairness == \A a \in Actors : WF_vars(Own(a))

Spec == Init /\ [][Next]_vars
FairSpec == Spec /\ Fairness

-----------------------------------------------------------------------------
(* Properties *)

(* The types of the session's state. *)
TypeOK ==
  /\ activeState \in TurnStates \cup {None}
  /\ activeTask \in Turns \cup {None}
  /\ pc \in [Actors -> Pcs]
  /\ hand \in [Actors -> SUBSET Items]
  /\ home \in [Actors -> TurnStates \cup {None}]
  /\ job \in [Actors -> Turns \cup {None}]
  /\ victim \in [Actors -> Turns \cup {None}]
  /\ reason \in [Actors -> Reasons \cup {None}]
  /\ kind \in [Turns -> Kinds]
  /\ input \in [Turns -> SUBSET Items]
  /\ result \in [Turns -> Results]
  /\ calls \in [Turns -> Nat]
  /\ pending \in [TurnStates -> SUBSET Items]
  /\ accepts \in [TurnStates -> BOOLEAN]
  /\ waiters \in [TurnStates -> SUBSET Turns]
  /\ mailbox \in SUBSET Mails
  /\ cancelled \in SUBSET Turns
  /\ status \in Statuses
  /\ closing \in Closings
  /\ born \in 0..MaxTurns
  /\ interrupts \in 0..MaxInterrupts
  /\ log \in [Turns -> SUBSET Marks]
  /\ fate \in [Items -> Fates]

(* The task stored in the active turn has not ended: whoever ends a task, by
   finishing, aborting, suspending or overwriting it, has taken it out of the
   active turn first.  Otherwise the session would stay busy for ever, with
   steers accepted by a turn nobody runs (tasks/mod.rs, active_turn). *)
ActiveTaskAlive ==
  activeTask # None =>
    /\ activeState # None
    /\ pc[activeTask] \in RunPcs \cup {"finTake"}

(* What makes the two invariants above inductive.  An actor about to start a
   turn knows its id, one that aborts is no task and has cancelled its victim,
   and one that works on a turn state holds it. *)
JobPcs == {"siReserve", "siSettings", "mbDrain", "mbExtend", "stDrain", "stAttach",
           "stExtend", "stInstall"}
VictimPcs == {"abWait", "abMarker", "abEvent", "abClear"}
HomePcs == VictimPcs \cup
  {"siSettings", "mbDrain", "mbExtend", "stExtend", "finRecord", "finEvent", "finClear"}
LocalsSet ==
  \A a \in Actors :
    /\ pc[a] \in JobPcs \/ reason[a] = "Replaced" => job[a] # None
    /\ pc[a] \in VictimPcs => victim[a] \in cancelled
    /\ pc[a] \in VictimPcs \cup {"abTake"} => a \notin Turns
    /\ pc[a] \in HomePcs => home[a] # None

(* A turn about to be started has not been spawned, and two actors never start
   the same one. *)
JobsFresh ==
  /\ \A a \in Actors : job[a] # None =>
       job[a] <= born /\ pc[job[a]] = "idle"
  /\ \A a, b \in Actors : job[a] # None /\ job[a] = job[b] => a = b
  /\ \A t \in Turns : t > born => pc[t] = "idle"

(* A cancelled turn was spawned and has left the active turn for good. *)
CancelledTaken ==
  \A t \in cancelled : pc[t] # "idle" /\ t # activeTask

IInv == TypeOK /\ ActiveTaskAlive /\ LocalsSet /\ JobsFresh /\ CancelledTaken

(* The containers that hold item i. *)
Holders(i) ==
  {<<"pending", s>> : s \in {s \in TurnStates : i \in pending[s]}}
    \cup {<<"hand", a>> : a \in {a \in Actors : i \in hand[a]}}
    \cup {<<"input", t>> : t \in {t \in Turns : i \in input[t]}}
    \cup (IF i \in mailbox THEN {<<"mailbox", None>>} ELSE {})

(* Every item that was accepted and neither recorded nor discarded is in exactly
   one of the mailbox, a turn state, an actor's hands and a task's input, and an
   item that was is in none: no input is delivered twice, whatever the
   interleaving of drains, takes, extends and aborts (session/input_queue.rs). *)
DeliveredOnce ==
  \A i \in Items :
    /\ fate[i] = "live" <=> Holders(i) # {}
    /\ \A h, k \in Holders(i) : h = k

(* A turn does not both complete and abort: the task that finishes and the abort
   that overtakes it agree through the active turn and the cancellation token
   (tasks/mod.rs, on_task_finished and handle_task_abort). *)
OneTerminalEvent == \A t \in Turns : ~({"completed", "aborted"} \subseteq log[t])

(* A suspended turn has no terminal event, so that another worker can recover it
   under its id (session/turn_suspension.rs). *)
SuspendedIsSilent ==
  \A t \in Turns : "suspended" \in log[t] => log[t] \cap {"completed", "aborted"} = {}

(* A task that ended, by itself or stopped from outside, has reported TurnComplete
   or TurnAborted, or is suspended, or its aborter is about to report: no turn the
   client saw start dies silently (tasks/mod.rs, on_task_finished and
   handle_task_abort). *)
NoSilentDeath ==
  \A t \in Turns : pc[t] \in {"killed", "done"} =>
    \/ log[t] \cap {"completed", "aborted", "suspended"} # {}
    \/ \E a \in Actors : victim[a] = t

(* Input waits only in a turn state that somebody will still drain, record or
   clear (ActiveTurn dropped with input in it would lose the input). *)
NoInputStranded ==
  \A s \in TurnStates : s \notin LiveStates => pending[s] = {}

(* start_task's debug_assert!(turn.task.is_none()) at both of its locks. *)
StartFindsNoTask ==
  \A a \in Actors : pc[a] \in {"stAttach", "stInstall"} => ~HasTask

(* At most one task talks to the model and writes the conversation's history. *)
OneRunner == Cardinality({t \in Turns : pc[t] \in RunPcs}) <= 1

(* The last turn that was reported started has been suspended. *)
LastSuspended ==
  \E t \in Turns : /\ {"started", "suspended"} \subseteq log[t]
                   /\ \A u \in Turns : u > t => "started" \notin log[u]

(* Once the session is idle and every actor is at rest, the status that other
   agents and clients watch says Running only of a suspended turn, which has no
   terminal event, when the thread could not be closed after it: every other
   TurnStarted is followed by an event that ends it, whichever actor emits that
   (session/mod.rs, deliver_event_raw; agent/status.rs; turn_suspension.rs). *)
IdleNotRunning ==
  (activeState = None
     /\ \A a \in Actors : pc[a] \in {"ready", "stopped", "idle", "done", "killed"})
    => status # "Running" \/ LastSuspended

(* A pending approval's sender is not dropped while its task goes on waiting:
   tasks observe the cancellation, or are aborted, before clear_pending
   (tasks/mod.rs, abort_all_tasks). *)
ApprovalNotDropped ==
  [][\A t \in Turns :
       pc[t] = "approval" /\ Waiting(t) /\ pc'[t] = "approval" => Waiting(t)']_vars

(* Every op the loop accepts is handled to its end: an abort never waits for ever
   for the task it aborts (GRACEFULL_INTERRUPTION_TIMEOUT_MS). *)
OpsReturn == pc[Loop] # "ready" ~> pc[Loop] \in {"ready", "stopped"}

(* A task whose run returned leaves the active turn, so that the session becomes
   idle or its next turn starts (tasks/mod.rs, on_task_finished). *)
ActiveTaskReturned == HasTask /\ pc[activeTask] \in {"returned", "finTake", "done"}
FinishedTaskFreesSession == ActiveTaskReturned ~> ~ActiveTaskReturned

(* Trigger mail that waits while the session is idle is taken up, by a turn that
   drains it or one that is running: "Starts a regular turn when the session is
   idle and pending work is waiting" (tasks/mod.rs). *)
TriggerMailTakenUp ==
  HasTrigger /\ activeState = None ~> ~HasTrigger \/ HasTask \/ closing # "no"
=============================================================================
