-------------------------- MODULE SessionSoloProofs --------------------------
(***************************************************************************)
(* A session that no other agent sends mail to, that has no realtime       *)
(* conversation and whose approvals the guardian does not review: the      *)
(* invariants of SessionTurns that hold of such a session, for every       *)
(* number of turns, inputs, injections and interrupts.  With mail, or with *)
(* a conversation that hands texts off, two actors may start turns at      *)
(* once, and some of these invariants are false (the run turn_overwritten  *)
(* shows one); here the loop is the only one that starts and aborts, as    *)
(* Sole says.                                                              *)
(***************************************************************************)
EXTENDS SessionTurnsProofs, FiniteSetTheorems

(* No mail, no text of a realtime conversation, and no guardian. *)
Solo == Mails = {} /\ Texts = {} /\ GuardianOn = FALSE

(* The only actor that starts or aborts a turn is the loop, and a task only runs
   and finishes. *)
TaskPcs == {"idle", "mbCheck", "done", "killed"} \cup RunPcs \cup FinishPcs
SoloLoopPcs ==
  LoopPcs \cup AbortPcs \cup {"mbCheck", "stDrain", "stAttach", "stExtend", "stInstall"}
SoloPcs ==
  /\ mailbox = {} /\ pc[Guardian] = "idle" /\ pc[Realtime] = "idle"
  /\ pc[Loop] \in SoloLoopPcs
  /\ \A t \in Turns : pc[t] \in TaskPcs

(* A task that runs is the active one, or the one the loop waits for after it took
   and cancelled it, and the loop starts a task only when there is none. *)
AlonePcs == VictimPcs \cup {"siSettings", "stDrain", "stAttach", "stExtend", "stInstall"}
Sole ==
  /\ \A t \in Turns : pc[t] \in RunPcs \cup {"finTake"} =>
       t = activeTask \/ (pc[Loop] = "abWait" /\ victim[Loop] = t)
  /\ pc[Loop] \in AlonePcs => activeTask = None

(* What the loop knows of the turn it aborts: why, and what was reported of it. *)
Ends == {"completed", "aborted", "suspended"}
Victim(t) == pc[Loop] \in VictimPcs /\ victim[Loop] = t
AbortOK ==
  /\ pc[Loop] = "abTake" => reason[Loop] \in {"Interrupted", "Replaced"}
  /\ closing # "no" => pc[Loop] \in AbortPcs \cup {"mbCheck", "convStop", "stopping", "stopped"}
  /\ closing # "no" /\ pc[Loop] \in AbortPcs => reason[Loop] # "Replaced"
  /\ pc[Loop] = "convStop" => closing # "no"
  /\ pc[Loop] \in VictimPcs =>
       /\ reason[Loop] \in Reasons
       /\ pc[victim[Loop]] \in RunPcs \cup {"finTake", "done", "killed"}
       /\ pc[Loop] # "abWait" => pc[victim[Loop]] \in {"done", "killed"}
       /\ log[victim[Loop]] \cap Ends =
            CASE reason[Loop] = "Suspended" -> {"suspended"}
              [] reason[Loop] # "Suspended" /\ pc[Loop] = "abClear" -> {"aborted"}
              [] OTHER -> {}
       /\ reason[Loop] = "Suspended" => pc[Loop] \in {"abWait", "abClear"}

(* A turn that goes on has no end in its log, one that ended has one. *)
LogsOK ==
  \A t \in Turns :
    /\ \A x, y \in log[t] \cap Ends : x = y
    /\ pc[t] \in {"idle", "finTake", "finRecord", "finEvent"} \cup RunPcs /\ ~Victim(t) =>
         log[t] \cap Ends = {}
    /\ pc[t] \in {"finClear", "mbCheck", "done", "killed"} /\ ~Victim(t) =>
         log[t] \cap Ends # {}

(* The turn the loop starts, the active turn and the one the loop waits for are
   each the newest that was started, and a turn not yet started has not reported
   that it was. *)
Newest ==
  /\ job[Loop] # None => job[Loop] = born
  /\ \A u \in Turns :
       /\ pc[u] = "idle" => "started" \notin log[u]
       /\ activeTask # None /\ u > activeTask => pc[u] = "idle"
       /\ pc[Loop] = "abWait" /\ u > victim[Loop] => pc[u] = "idle"

(* While the status is Running somebody is still going to change it, or the turn
   it speaks of is suspended. *)
Settling ==
  \/ activeTask # None /\ "started" \in log[activeTask]
  \/ \E t \in Turns : pc[t] \in {"finRecord", "finEvent"}
  \/ pc[Loop] \in {"abWait", "abMarker", "abEvent"} /\ reason[Loop] # "Suspended"
StatusOK == status = "Running" => LastSuspended \/ Settling

SoloOK == SoloPcs /\ Sole /\ AbortOK /\ LogsOK /\ Newest /\ StatusOK

(* The program counters of the tasks and those of the loop while it aborts. *)
LEMMA PcFacts ==
  /\ \A p \in RunPcs : p \notin {"idle", "mbCheck", "done", "killed"} \cup FinishPcs
  /\ "abWait" \in VictimPcs /\ VictimPcs \subseteq AbortPcs /\ AbortPcs \subseteq SoloLoopPcs
BY DEF RunPcs, FinishPcs, VictimPcs, AbortPcs, SoloLoopPcs

(* A suspended turn remains the last one reported started as long as no other is. *)
LEMMA LastSuspendedKept ==
  ASSUME LastSuspended, \A u \in Turns : log[u] \subseteq log'[u],
         \A u \in Turns : "started" \in log'[u] => "started" \in log[u]
  PROVE  LastSuspended'
<1>1. PICK t \in Turns : /\ {"started", "suspended"} \subseteq log[t]
                        /\ \A u \in Turns : u > t => "started" \notin log[u]
  BY DEF LastSuspended
<1>2. {"started", "suspended"} \subseteq log'[t]
  BY <1>1
<1>3. \A u \in Turns : u > t => "started" \notin log'[u]
  BY <1>1
<1> QED BY <1>2, <1>3 DEF LastSuspended

(* A newest turn, started and suspended, is the last one reported started. *)
LEMMA SuspendedLast ==
  ASSUME NEW v \in Turns, {"started", "suspended"} \subseteq log'[v],
         \A u \in Turns : u > v => "started" \notin log'[u]
  PROVE  LastSuspended'
BY DEF LastSuspended

(* A step that reports no start keeps the status explained. *)
LEMMA StatusKept ==
  ASSUME StatusOK, status' = "Running" => status = "Running",
         \A u \in Turns : log[u] \subseteq log'[u],
         \A u \in Turns : "started" \in log'[u] => "started" \in log[u],
         Settling /\ status' = "Running" => LastSuspended' \/ Settling'
  PROVE  StatusOK'
BY LastSuspendedKept DEF StatusOK

(* A step that starts no task keeps the turns in order. *)
LEMMA NewestKept ==
  ASSUME Newest, job'[Loop] # None => job'[Loop] = born',
         \A u \in Turns : pc[u] = "idle" <=> pc'[u] = "idle",
         \A u \in Turns : "started" \in log'[u] => "started" \in log[u] \/ pc[u] # "idle",
         activeTask' \in {activeTask, None},
         pc'[Loop] = "abWait" =>
           \/ pc[Loop] = "abWait" /\ victim'[Loop] = victim[Loop]
           \/ activeTask # None /\ victim'[Loop] = activeTask
  PROVE  Newest'
<1>1. \A u \in Turns : pc'[u] = "idle" => "started" \notin log'[u]
  BY DEF Newest
<1>2. \A u \in Turns : activeTask' # None /\ u > activeTask' => pc'[u] = "idle"
  BY DEF Newest
<1>3. \A u \in Turns : pc'[Loop] = "abWait" /\ u > victim'[Loop] => pc'[u] = "idle"
  BY DEF Newest
<1> QED BY <1>1, <1>2, <1>3 DEF Newest

(* What a step of a task does not touch. *)
TaskFrame(t) ==
  /\ \A b \in Actors : b # t => pc'[b] = pc[b]
  /\ victim'[Loop] = victim[Loop] /\ reason'[Loop] = reason[Loop]
  /\ job'[Loop] = job[Loop]
  /\ UNCHANGED <<closing, mailbox, born>>

(* A task that runs goes on running, or returns, and may report anything but an
   end: whatever it makes of the status, it is the active task or the loop waits
   for it. *)
LEMMA RunStep ==
  ASSUME IInv, SoloOK, NEW t \in Turns, pc[t] \in RunPcs,
         pc'[t] \in RunPcs \cup {"finTake"}, TaskFrame(t), UNCHANGED activeTask,
         \A u \in Turns : u # t => log'[u] = log[u],
         log'[t] = log[t] \/ log'[t] = log[t] \cup {"started"},
         status' = "Running" => status = "Running" \/ "started" \in log'[t]
  PROVE  SoloOK'
<1> USE Basics, PcFacts DEF IInv, SoloOK, TaskFrame
<1>1. /\ pc'[Loop] = pc[Loop] /\ pc'[Guardian] = pc[Guardian] /\ pc'[Realtime] = pc[Realtime]
      /\ \A u \in Turns : log'[u] \cap Ends = log[u] \cap Ends
  BY DEF Ends
<1>2. SoloPcs'
  BY <1>1 DEF SoloPcs, TaskPcs, FinishPcs
<1>3. Sole'
  BY <1>1 DEF Sole
<1>4. AbortOK'
  <2>1. pc[Loop] \in VictimPcs => victim[Loop] \in Turns
    BY DEF LocalsSet, TypeOK
  <2>2. ASSUME pc[Loop] \in VictimPcs
        PROVE  /\ pc'[victim[Loop]] \in RunPcs \cup {"finTake", "done", "killed"}
               /\ pc[Loop] # "abWait" => pc'[victim[Loop]] \in {"done", "killed"}
    BY <2>1, <2>2 DEF AbortOK
  <2> QED BY <1>1, <2>1, <2>2 DEF AbortOK
<1>5. LogsOK'
  BY <1>1 DEF LogsOK, Victim, FinishPcs
<1>6. Newest'
  <2>1. \A u \in Turns : pc[u] = "idle" <=> pc'[u] = "idle"
    BY DEF FinishPcs
  <2>2. \A u \in Turns : "started" \in log'[u] => "started" \in log[u] \/ pc[u] # "idle"
    BY DEF FinishPcs
  <2>3. job'[Loop] # None => job'[Loop] = born'
    BY DEF Newest
  <2> QED BY <1>1, <2>1, <2>2, <2>3, NewestKept
<1>7. StatusOK'
  <2>1. ASSUME NEW u \in Turns, pc[u] \in {"finRecord", "finEvent"}
        PROVE  pc'[u] \in {"finRecord", "finEvent"}
    BY <2>1 DEF FinishPcs
  <2>2. CASE "started" \in log'[t] /\ t = activeTask
    BY <2>2 DEF StatusOK, Settling
  <2>3. CASE "started" \in log'[t] /\ t # activeTask
    <3>1. pc[Loop] = "abWait" /\ victim[Loop] = t
      BY <2>3 DEF Sole
    <3>2. CASE reason[Loop] = "Suspended"
      <4>1. "suspended" \in log[t]
        BY <3>1, <3>2 DEF AbortOK
      <4>2. \A u \in Turns : u > t => u # t /\ "started" \notin log[u]
        BY <3>1 DEF Newest
      <4> QED BY <2>3, <4>1, <4>2, SuspendedLast DEF StatusOK
    <3>3. CASE reason[Loop] # "Suspended"
      BY <1>1, <3>1, <3>3 DEF StatusOK, Settling
    <3> QED BY <3>2, <3>3
  <2>4. CASE "started" \notin log'[t]
    <3>1. \A u \in Turns : log'[u] = log[u]
      BY <2>4
    <3>2. Settling => Settling'
      <4>1. activeTask \in Turns \cup {None}
        BY DEF TypeOK
      <4> QED BY <1>1, <2>1, <3>1, <4>1 DEF Settling
    <3> QED BY <2>4, <3>1, <3>2, StatusKept
  <2> QED BY <2>2, <2>3, <2>4
<1> QED BY <1>2, <1>3, <1>4, <1>5, <1>6, <1>7

(* The steps of a running task, all of this kind. *)
LEMMA RunningSolo ==
  ASSUME IInv, SoloOK, NEW t \in Turns, Running(t)
  PROVE  SoloOK'
<1> USE Basics DEF IInv
<1>1. mailbox = {}
  BY DEF SoloOK, SoloPcs
<1>2. /\ pc[t] \in RunPcs /\ pc'[t] \in RunPcs
      /\ \A b \in Actors : b # t => pc'[b] = pc[b]
  <2> USE DEF Running, Finish, Goto, RunPcs, TypeOK
  <2>1. CASE TaskStarted(t) \/ RecordInput(t) \/ PreSamplingCompactFails(t) \/ StandaloneWork(t)
    BY <2>1 DEF TaskStarted, RecordInput, PreSamplingCompactFails, StandaloneWork
  <2>2. CASE DrainPending(t) \/ RecordPending(t) \/ SampleAnswer(t) \/ SampleToolCall(t)
    BY <2>2 DEF DrainPending, RecordPending, SampleAnswer, SampleToolCall
  <2>3. CASE AskApproval(t) \/ ApprovalDropped(t) \/ SampleError(t) \/ ObserveCancel(t)
    BY <2>3 DEF AskApproval, ApprovalDropped, SampleError, ObserveCancel
  <2>4. CASE AfterSampling(t) \/ LoopCheck(t)
    BY <2>4 DEF AfterSampling, LoopCheck
  <2> QED BY <2>1, <2>2, <2>3, <2>4
<1>3. mailbox' = mailbox
  BY <1>1 DEF Running, TaskStarted, RecordInput, PreSamplingCompactFails, StandaloneWork,
     DrainPending, GetPendingInput, RecordPending, SampleAnswer, SampleToolCall, AskApproval,
     ApprovalDropped, SampleError, ObserveCancel, AfterSampling, LoopCheck
<1>4. UNCHANGED <<activeTask, victim, reason, job, closing, born>>
  BY DEF Running, TaskStarted, RecordInput, PreSamplingCompactFails, StandaloneWork,
     DrainPending, RecordPending, SampleAnswer, SampleToolCall, AskApproval,
     ApprovalDropped, SampleError, ObserveCancel, AfterSampling, LoopCheck,
     activeVars, locals, others
<1>5. \/ log' = log /\ (status' = status \/ status' # "Running")
      \/ Mark(t, "started")
  BY DEF Running, TaskStarted, RecordInput, PreSamplingCompactFails,
     StandaloneWork, DrainPending, RecordPending, SampleAnswer, SampleToolCall, AskApproval,
     ApprovalDropped, SampleError, ObserveCancel, AfterSampling, LoopCheck, others
<1>6. /\ \A u \in Turns : u # t => log'[u] = log[u]
      /\ log'[t] = log[t] \/ log'[t] = log[t] \cup {"started"}
      /\ status' = "Running" => status = "Running" \/ "started" \in log'[t]
  <2>1. CASE Mark(t, "started")
    BY <2>1 DEF Mark, TypeOK
  <2> QED BY <1>5, <2>1
<1> QED BY <1>2, <1>3, <1>4, <1>6, RunStep DEF TaskFrame

(* A task returns in its own frame: its locals are not the loop's. *)
LEMMA ReturnFrame ==
  ASSUME TypeOK, NEW t \in Turns, Return(t), UNCHANGED <<closing, mailbox, born>>
  PROVE  TaskFrame(t) /\ pc'[t] = "done"
BY Basics DEF TypeOK, Return, ReturnPc, Goto, Reset, TaskFrame

(* A task that was taken and cancelled ends while the loop waits for it. *)
LEMMA VictimReturns ==
  ASSUME IInv, SoloOK, NEW t \in Turns, pc[t] \in RunPcs \cup {"finTake"}, t # activeTask,
         pc'[t] = "done", TaskFrame(t), UNCHANGED <<activeTask, log, status>>
  PROVE  SoloOK'
<1> USE Basics, PcFacts DEF IInv, SoloOK, TaskFrame
<1>1. pc'[Loop] = pc[Loop] /\ pc'[Guardian] = pc[Guardian] /\ pc'[Realtime] = pc[Realtime]
  OBVIOUS
<1>2. pc[Loop] = "abWait" /\ victim[Loop] = t
  BY DEF Sole
<1>3. SoloPcs'
  BY <1>1 DEF SoloPcs, TaskPcs
<1>4. Sole'
  BY <1>1, <1>2 DEF Sole
<1>5. AbortOK'
  BY <1>1, <1>2 DEF AbortOK
<1>6. LogsOK'
  BY <1>1, <1>2 DEF LogsOK, Victim
<1>7. Newest'
  <2>1. \A u \in Turns : pc[u] = "idle" <=> pc'[u] = "idle"
    BY DEF FinishPcs
  <2> QED BY <1>1, <2>1, NewestKept DEF Newest
<1>8. StatusOK'
  <2>1. ASSUME NEW u \in Turns, pc[u] \in {"finRecord", "finEvent"}
        PROVE  pc'[u] \in {"finRecord", "finEvent"}
    BY <2>1 DEF FinishPcs
  <2>2. Settling => Settling'
    BY <1>1, <2>1 DEF Settling
  <2> QED BY <2>2, StatusKept
<1> QED BY <1>3, <1>4, <1>5, <1>6, <1>7, <1>8

(* Only a task whose token is not cancelled goes on to finish its turn. *)
LEMMA TaskReturnedSolo ==
  ASSUME IInv, SoloOK, NEW t \in Turns, TaskReturned(t)
  PROVE  SoloOK'
<1> USE Basics DEF IInv, TaskReturned, activeVars, others, locals
<1>1. pc[t] \in RunPcs
  BY DEF RunPcs
<1>2. CASE t \in cancelled
  <2>1. t # activeTask
    BY <1>2 DEF CancelledTaken
  <2> QED BY <1>1, <1>2, <2>1, ReturnFrame, VictimReturns
<1>3. CASE t \notin cancelled
  <2>1. pc'[t] = "finTake" /\ TaskFrame(t)
    BY <1>3 DEF Goto, TaskFrame, TypeOK
  <2> QED BY <1>1, <1>3, <2>1, RunStep
<1> QED BY <1>2, <1>3

(* A task that finishes its turn takes itself out of the active turn, never
   another task. *)
LEMMA FinishTakeSolo ==
  ASSUME IInv, SoloOK, NEW t \in Turns, FinishTake(t)
  PROVE  SoloOK'
<1> USE Basics, PcFacts DEF IInv, FinishTake, others
<1>1. CASE ~HasTask
  <2>1. t # activeTask
    BY <1>1 DEF HasTask
  <2> QED BY <1>1, <2>1, ReturnFrame, VictimReturns
<1>2. CASE HasTask
  <2>1. activeTask = t
    BY <1>2 DEF SoloOK, Sole, AlonePcs, HasTask
  <2>2. TaskFrame(t) /\ pc'[t] = "finRecord" /\ activeTask' = None /\ UNCHANGED <<log, status>>
    BY <1>2 DEF TaskFrame, Goto, TypeOK
  <2> HIDE DEF FinishTake
  <2>3. pc'[Loop] = pc[Loop] /\ pc'[Guardian] = pc[Guardian] /\ pc'[Realtime] = pc[Realtime]
    BY <2>2 DEF TaskFrame
  <2>4. pc[Loop] \notin VictimPcs
    BY <1>2 DEF SoloOK, Sole, AlonePcs, HasTask
  <2>5. SoloPcs'
    BY <2>2, <2>3 DEF SoloOK, SoloPcs, TaskPcs, TaskFrame, FinishPcs
  <2>6. Sole'
    BY <2>1, <2>2, <2>3, <2>4 DEF SoloOK, Sole, TaskFrame, FinishPcs
  <2>7. AbortOK'
    BY <2>2, <2>3, <2>4 DEF SoloOK, AbortOK, TaskFrame
  <2>8. LogsOK'
    <3>1. pc[t] = "finTake"
      BY DEF FinishTake
    <3> QED BY <2>2, <2>3, <2>4, <3>1 DEF SoloOK, LogsOK, Victim, TaskFrame
  <2>9. Newest'
    <3>1. pc[t] = "finTake"
      BY DEF FinishTake
    <3>2. \A u \in Turns : pc[u] = "idle" <=> pc'[u] = "idle"
      BY <2>2, <3>1 DEF TaskFrame
    <3> QED BY <2>2, <2>3, <2>4, <3>2, NewestKept DEF SoloOK, Newest, TaskFrame
  <2>10. StatusOK'
    <3>1. Settling'
      BY <2>2 DEF Settling
    <3> QED BY <3>1 DEF StatusOK
  <2> QED BY <2>5, <2>6, <2>7, <2>8, <2>9, <2>10 DEF SoloOK
<1> QED BY <1>1, <1>2

(* A task that is finishing its turn is not being aborted. *)
LEMMA FinisherSafe ==
  ASSUME AbortOK, NEW t \in Turns,
         pc[t] \in {"finRecord", "finEvent", "finClear", "mbCheck"}
  PROVE  ~Victim(t)
BY PcFacts DEF AbortOK, Victim, FinishPcs

(* A finishing task moves on, within its turn. *)
LEMMA FinishStep ==
  ASSUME IInv, SoloOK, NEW t \in Turns, NEW p, NEW q, pc[t] = p, pc'[t] = q,
         \/ p = "finRecord" /\ q = "finEvent"
         \/ p = "finEvent" /\ q = "finClear"
         \/ p = "finClear" /\ q = "mbCheck"
         \/ p \in {"finClear", "mbCheck"} /\ q = "done",
         TaskFrame(t), UNCHANGED activeTask, \A u \in Turns : u # t => log'[u] = log[u],
         IF p = "finEvent" THEN \E x \in Ends : log'[t] = log[t] \cup {x}
                           ELSE log'[t] = log[t],
         IF p = "finEvent" THEN status' # "Running" ELSE status' = status
  PROVE  SoloOK'
<1> USE Basics DEF IInv, SoloOK
<1>1. /\ pc'[Loop] = pc[Loop] /\ pc'[Guardian] = pc[Guardian] /\ pc'[Realtime] = pc[Realtime]
      /\ q \notin RunPcs
  BY DEF TaskFrame, RunPcs
<1>2. ~Victim(t) /\ victim'[Loop] = victim[Loop] /\ ~Victim(t)'
  <2>1. ~Victim(t)
    BY FinisherSafe
  <2> QED BY <1>1, <2>1 DEF Victim, TaskFrame
<1>3. SoloPcs'
  BY <1>1 DEF SoloPcs, TaskPcs, TaskFrame, FinishPcs
<1>4. Sole'
  BY <1>1, <1>2 DEF Sole, TaskFrame
<1>5. AbortOK'
  <2>1. ASSUME pc[Loop] \in VictimPcs
        PROVE  victim[Loop] \in Turns /\ victim[Loop] # t
    BY <1>2, <2>1 DEF LocalsSet, TypeOK, Victim
  <2>2. ASSUME pc[Loop] \in VictimPcs
        PROVE  /\ pc'[victim[Loop]] = pc[victim[Loop]]
               /\ log'[victim[Loop]] = log[victim[Loop]]
    BY <2>1, <2>2 DEF TaskFrame
  <2> QED BY <1>1, <2>2 DEF AbortOK, TaskFrame
<1>6. LogsOK'
  <2>1. ASSUME NEW u \in Turns, u # t
        PROVE  pc'[u] = pc[u] /\ log'[u] = log[u] /\ (Victim(u)' <=> Victim(u))
    BY <1>1, <2>1 DEF TaskFrame, Victim
  <2>2. CASE p = "finEvent"
    <3>1. log[t] \cap Ends = {}
      BY <1>2, <2>2 DEF LogsOK
    <3>2. PICK x \in Ends : log'[t] = log[t] \cup {x}
      BY <2>2
    <3>3. log'[t] \cap Ends = {x}
      BY <3>1, <3>2
    <3> QED BY <2>1, <2>2, <3>3, <1>1 DEF LogsOK
  <2>3. CASE p # "finEvent"
    BY <1>1, <1>2, <2>1, <2>3 DEF LogsOK
  <2> QED BY <2>2, <2>3
<1>7. \A u \in Turns : /\ log[u] \subseteq log'[u]
                       /\ "started" \in log'[u] => "started" \in log[u]
  BY DEF Ends
<1>8. Newest'
  <2>1. \A u \in Turns : pc[u] = "idle" <=> pc'[u] = "idle"
    BY DEF TaskFrame
  <2> QED BY <1>1, <1>2, <1>7, <2>1, NewestKept DEF Newest, TaskFrame
<1>9. StatusOK'
  <2>1. ASSUME NEW u \in Turns, pc[u] \in {"finRecord", "finEvent"}, p # "finEvent"
        PROVE  pc'[u] \in {"finRecord", "finEvent"}
    BY <2>1 DEF TaskFrame
  <2>2. activeTask \in Turns \cup {None}
    BY DEF TypeOK
  <2>3. CASE p = "finEvent"
    BY <2>3 DEF StatusOK
  <2>4. CASE p # "finEvent"
    <3>1. Settling => Settling'
      BY <1>1, <1>7, <2>1, <2>2, <2>4 DEF Settling, TaskFrame
    <3> QED BY <1>7, <2>4, <3>1, StatusKept
  <2> QED BY <2>3, <2>4
<1> QED BY <1>3, <1>4, <1>5, <1>6, <1>8, <1>9

(* on_task_finished from the record of what was left to its end. *)
LEMMA FinishSolo ==
  ASSUME IInv, SoloOK, NEW t \in Turns, FinishRecord(t) \/ FinishEvent(t) \/ FinishClear(t)
  PROVE  SoloOK'
<1> USE Basics DEF IInv, activeVars, others, locals
<1>1. CASE FinishRecord(t)
  <2>1. TaskFrame(t) /\ pc'[t] = "finEvent"
    BY <1>1 DEF FinishRecord, Goto, TaskFrame, TypeOK
  <2> QED BY <1>1, <2>1, FinishStep DEF FinishRecord
<1>2. CASE FinishEvent(t)
  <2>1. TaskFrame(t) /\ pc'[t] = "finClear"
    BY <1>2 DEF FinishEvent, Goto, TaskFrame, TypeOK
  <2>2. PICK x \in Ends : Mark(t, x)
    BY <1>2 DEF FinishEvent, Ends
  <2>3. log'[t] = log[t] \cup {x} /\ \A u \in Turns : u # t => log'[u] = log[u]
    BY <2>2 DEF Mark, TypeOK
  <2>4. status' # "Running"
    BY <1>2 DEF FinishEvent
  <2> QED BY <1>2, <2>1, <2>3, <2>4, FinishStep DEF FinishEvent
<1>3. CASE FinishClear(t)
  <2>1. activeTask' = activeTask /\ TaskFrame(t) /\ pc'[t] \in {"mbCheck", "done"}
    <3>1. CASE activeState = home[t] /\ activeTask = None
      <4>1. /\ Goto(t, "mbCheck") /\ Reset({t}) /\ activeTask' = activeTask
            /\ UNCHANGED <<closing, mailbox, born>>
        BY <1>3, <3>1 DEF FinishClear, TakeActive
      <4>2. pc'[t] = "mbCheck" /\ \A b \in Actors : b # t => pc'[b] = pc[b]
        BY <4>1 DEF Goto, TypeOK
      <4>3. /\ victim'[Loop] = victim[Loop] /\ reason'[Loop] = reason[Loop]
            /\ job'[Loop] = job[Loop]
        BY <4>1 DEF Reset
      <4> QED BY <4>1, <4>2, <4>3 DEF TaskFrame
    <3>2. CASE ~(activeState = home[t] /\ activeTask = None)
      BY <1>3, <3>2, ReturnFrame DEF FinishClear
    <3> QED BY <3>1, <3>2
  <2> QED BY <1>3, <2>1, FinishStep DEF FinishClear
<1> QED BY <1>1, <1>2, <1>3

(* There is no mail, so that a finished task starts nothing. *)
LEMMA CheckSolo ==
  ASSUME IInv, SoloOK, NEW t \in Turns, MaybeStartCheck(t)
  PROVE  SoloOK'
<1> USE DEF IInv
<1>1. Return(t)
  BY DEF SoloOK, SoloPcs, MaybeStartCheck
<1>2. TaskFrame(t) /\ pc'[t] = "done"
  BY <1>1, ReturnFrame DEF MaybeStartCheck, others
<1> QED BY <1>2, FinishStep DEF MaybeStartCheck, activeVars, others

(* What a step of the loop that aborts nothing does not touch. *)
LoopFrame ==
  /\ \A b \in Actors : b # Loop => pc'[b] = pc[b]
  /\ UNCHANGED <<log, mailbox>>

(* The loop moves on, before or after an abort; it takes no task out of the active
   turn. *)
LEMMA LoopStill ==
  ASSUME IInv, SoloOK, LoopFrame, UNCHANGED activeTask, status' = status \/ status' # "Running",
         pc[Loop] \notin VictimPcs, pc'[Loop] \in SoloLoopPcs \ VictimPcs,
         pc'[Loop] \in AlonePcs => activeTask = None,
         pc'[Loop] = "abTake" => reason'[Loop] \in {"Interrupted", "Replaced"},
         closing' # "no" => /\ pc'[Loop] \in {"abTake", "mbCheck", "convStop", "stopping", "stopped"}
                            /\ pc'[Loop] = "abTake" => reason'[Loop] # "Replaced",
         pc'[Loop] = "convStop" => closing' # "no",
         job'[Loop] # None => job'[Loop] = born'
  PROVE  SoloOK'
<1> USE Basics, PcFacts DEF IInv, SoloOK, LoopFrame
<1>1. /\ pc'[Guardian] = pc[Guardian] /\ pc'[Realtime] = pc[Realtime]
      /\ \A t \in Turns : pc'[t] = pc[t]
  OBVIOUS
<1>2. SoloPcs'
  BY <1>1 DEF SoloPcs
<1>3. Sole'
  BY <1>1 DEF Sole
<1>4. AbortOK'
  BY DEF AbortOK, AbortPcs
<1>5. LogsOK'
  BY <1>1 DEF LogsOK, Victim
<1>6. Newest'
  BY <1>1, NewestKept
<1>7. StatusOK'
  <2>1. Settling => Settling'
    BY <1>1 DEF Settling, VictimPcs
  <2> QED BY <2>1, StatusKept
<1> QED BY <1>2, <1>3, <1>4, <1>5, <1>6, <1>7

(* Ops that touch neither the active turn nor an actor. *)
LEMMA StutterSolo ==
  ASSUME SoloOK, 
         UNCHANGED <<pc, activeTask, job, victim, reason, closing, born, mailbox, log, status>>
  PROVE  SoloOK'
BY DEF SoloOK, SoloPcs, Sole, AbortOK, LogsOK, Victim, Newest, StatusOK, Settling,
   LastSuspended

(* The loop takes the task of the active turn, to abort or to suspend it. *)
LEMMA TakeSolo ==
  ASSUME IInv, SoloOK, pc[Loop] \in {"abTake", "spTake"}, NEW v \in Turns, activeTask = v,
         activeTask' = None, \A b \in Actors : b # Loop => pc'[b] = pc[b],
         pc'[Loop] = "abWait", victim'[Loop] = v, reason'[Loop] \in Reasons,
         closing' = closing, closing # "no" => reason'[Loop] # "Replaced", mailbox' = mailbox,
         job'[Loop] = job[Loop], born' = born, status' = "Running" => status = "Running",
         \A u \in Turns : u # v => log'[u] = log[u],
         log'[v] = IF reason'[Loop] = "Suspended" THEN log[v] \cup {"suspended"} ELSE log[v]
  PROVE  SoloOK'
<1> USE Basics DEF IInv, SoloOK
<1>1. /\ \A t \in Turns : pc'[t] = pc[t] /\ ~Victim(t)
      /\ pc'[Guardian] = pc[Guardian] /\ pc'[Realtime] = pc[Realtime]
      /\ pc[Loop] \notin VictimPcs
      /\ "abWait" \in VictimPcs /\ "abWait" \in AbortPcs
      /\ pc[v] \in RunPcs \cup {"finTake"}
  BY DEF Victim, VictimPcs, AbortPcs, ActiveTaskAlive
<1>2. SoloPcs'
  BY <1>1 DEF SoloPcs, SoloLoopPcs
<1>3. Sole'
  BY <1>1 DEF Sole
<1>4. log[v] \cap Ends = {}
  BY <1>1 DEF LogsOK
<1>5. log'[v] \cap Ends = IF reason'[Loop] = "Suspended" THEN {"suspended"} ELSE {}
  BY <1>4 DEF Ends
<1>6. AbortOK'
  BY <1>1, <1>5 DEF AbortOK
<1>7. LogsOK'
  <2>1. \A t \in Turns : Victim(t)' <=> t = v
    BY <1>1 DEF Victim
  <2>2. \A x, y \in log'[v] \cap Ends : x = y
    BY <1>5
  <2>3. ASSUME NEW t \in Turns, t # v
        PROVE  pc'[t] = pc[t] /\ log'[t] = log[t] /\ ~Victim(t) /\ ~Victim(t)'
    BY <1>1, <2>1, <2>3
  <2> QED BY <2>1, <2>2, <2>3 DEF LogsOK
<1>8. \A u \in Turns : /\ log[u] \subseteq log'[u]
                       /\ "started" \in log'[u] => "started" \in log[u]
  OBVIOUS
<1>9. Newest'
  BY <1>1, <1>8, NewestKept DEF Newest
<1>10. StatusOK'
  <2>1. CASE "started" \in log[v] /\ reason'[Loop] = "Suspended"
    <3>1. \A u \in Turns : u > v => "started" \notin log'[u]
      BY <1>8 DEF Newest
    <3> QED BY <2>1, <3>1, SuspendedLast DEF StatusOK
  <2>2. CASE reason'[Loop] # "Suspended"
    BY <2>2 DEF StatusOK, Settling
  <2>3. CASE "started" \notin log[v] /\ reason'[Loop] = "Suspended"
    <3>1. Settling => Settling'
      BY <1>1, <2>3 DEF Settling
    <3> QED BY <1>8, <3>1, StatusKept
  <2> QED BY <2>1, <2>2, <2>3
<1> QED BY <1>2, <1>3, <1>6, <1>7, <1>9, <1>10

(* The loop's own step moves only the loop. *)
LEMMA LoopGoto ==
  ASSUME TypeOK, NEW p, Goto(Loop, p)
  PROVE  pc'[Loop] = p /\ \A b \in Actors : b # Loop => pc'[b] = pc[b]
BY Basics DEF TypeOK, Goto

(* Where the loop goes when a procedure returns. *)
LEMMA LoopReturns ==
  ASSUME TypeOK, Return(Loop)
  PROVE  /\ pc'[Loop] = (IF closing = "no" THEN "ready" ELSE "stopping")
         /\ job'[Loop] = None
         /\ \A b \in Actors : b # Loop => pc'[b] = pc[b]
BY Basics DEF TypeOK, Return, ReturnPc, Reset, Goto

(* The ops of the loop. *)
LEMMA LoopStepSolo ==
  ASSUME Solo, IInv, SoloOK, LoopStep
  PROVE  SoloOK'
<1> USE Basics DEF IInv, activeVars, locals, others
<1>1. ASSUME LoopReady, UNCHANGED <<activeTask, status, log, mailbox>>, NEW p,
             Goto(Loop, p), p \in {"abTake", "siReserve", "spTake", "convStop"},
             p = "abTake" => reason'[Loop] \in {"Interrupted", "Replaced"},
             closing' = IF p = "convStop" THEN "shutdown" ELSE closing,
             UNCHANGED <<job, born>> \/ job'[Loop] = born'
      PROVE  SoloOK'
  <2>1. closing = "no"
    BY <1>1 DEF SoloOK, AbortOK, AbortPcs, LoopReady
  <2>2. pc[Loop] \notin VictimPcs
    BY <1>1 DEF LoopReady, VictimPcs
  <2>3. p \in SoloLoopPcs \ VictimPcs /\ p \notin AlonePcs
    BY <1>1 DEF SoloLoopPcs, LoopPcs, AbortPcs, VictimPcs, AlonePcs
  <2>4. job'[Loop] # None => job'[Loop] = born'
    BY <1>1 DEF SoloOK, Newest
  <2> QED BY <1>1, <2>1, <2>2, <2>3, <2>4, LoopGoto, LoopStill DEF LoopFrame
<1>2. ASSUME NEW u \in Inputs, StartOrSteer(Loop, u) PROVE SoloOK'
  <2>1. CASE SteerInput(u) \/ NotSubmitted(u)
    BY <1>2, <2>1, StutterSolo DEF StartOrSteer, SteerInput, NotSubmitted
  <2>2. CASE ReplaceWith(Loop, "regular", {u})
    BY <1>1, <1>2, <2>2 DEF StartOrSteer, ReplaceWith, NewTurn, LoopReady, TypeOK
  <2> QED BY <1>2, <2>1, <2>2 DEF StartOrSteer
<1>3. ASSUME NEW u \in Inputs, NEW t \in Turns, Steer(u, t) PROVE SoloOK'
  BY <1>3, StutterSolo DEF Steer, SteerInput, NotSubmitted
<1>4. ASSUME NEW u \in Inputs, StartIfIdle(u) PROVE SoloOK'
  <2>1. CASE NotSubmitted(u)
    BY <1>4, <2>1, StutterSolo DEF StartIfIdle, NotSubmitted
  <2>2. CASE ~NotSubmitted(u)
    BY <1>1, <1>4, <2>2 DEF StartIfIdle, NewTurn, TypeOK
  <2> QED BY <2>1, <2>2
<1>5. ASSUME NEW k \in OtherKinds, SpawnStandalone(k) PROVE SoloOK'
  BY <1>1, <1>5 DEF SpawnStandalone, ReplaceWith, NewTurn, TypeOK
<1>6. ASSUME NEW t \in Turns, ExecApproval(t) PROVE SoloOK'
  <2>1. CASE pc[t] = "approval"
    <3>1. pc[t] \in RunPcs /\ pc'[t] \in RunPcs /\ \A b \in Actors : b # t => pc'[b] = pc[b]
      BY <1>6, <2>1 DEF ExecApproval, Goto, TypeOK, RunPcs
    <3> QED BY <1>6, <3>1, RunStep DEF ExecApproval, TaskFrame
  <2>2. CASE pc[t] # "approval"
    BY <1>6, <2>2, StutterSolo DEF ExecApproval
  <2> QED BY <2>1, <2>2
<1>7. CASE Interrupt
  BY <1>1, <1>7 DEF Interrupt, TypeOK
<1>8. CASE Shutdown
  BY <1>1, <1>8 DEF Shutdown
<1>9. CASE SuspendTurn
  BY <1>1, <1>9 DEF SuspendTurn
<1>10. ~RealtimeConversation
  BY DEF RealtimeConversation, Solo
<1> QED BY <1>2, <1>3, <1>4, <1>5, <1>6, <1>7, <1>8, <1>9, <1>10 DEF LoopStep, Solo

(* start_if_idle reserves, gives up or goes on to start its turn; a suspension
   takes the task or finds none; the shutdown goes on, ends or fails. *)
LEMMA LoopInternalSolo ==
  ASSUME IInv, SoloOK, LoopInternal
  PROVE  SoloOK'
<1> USE Basics DEF IInv, activeVars, locals, others
<1>1. ASSUME pc[Loop] \in {"siReserve", "siSettings", "spTake"},
             UNCHANGED <<activeTask, status, log, mailbox, closing>>,
             \A b \in Actors : b # Loop => pc'[b] = pc[b],
             pc'[Loop] \in {"ready", "siSettings", "stDrain"},
             pc'[Loop] # "ready" => activeTask = None,
             UNCHANGED born, job'[Loop] \in {job[Loop], None}
      PROVE  SoloOK'
  <2>1. closing = "no"
    BY <1>1 DEF SoloOK, AbortOK, AbortPcs
  <2>2. pc[Loop] \notin VictimPcs /\ (job'[Loop] # None => job'[Loop] = born')
    BY <1>1 DEF VictimPcs, SoloOK, Newest
  <2>3. /\ pc'[Loop] \in SoloLoopPcs \ VictimPcs /\ pc'[Loop] \notin {"abTake", "convStop"}
        /\ pc'[Loop] \in AlonePcs => activeTask = None
    BY <1>1 DEF SoloLoopPcs, LoopPcs, AbortPcs, VictimPcs, AlonePcs
  <2> QED BY <1>1, <2>1, <2>2, <2>3, LoopStill DEF LoopFrame
<1>2. pc[Loop] \in {"siReserve", "siSettings", "spTake"} => closing = "no"
  BY DEF SoloOK, AbortOK, AbortPcs
<1>3. CASE StartIfIdleReserve
  <2>1. CASE RejectJob /\ UNCHANGED activeVars
    BY <1>1, <1>2, <1>3, <2>1, LoopReturns DEF StartIfIdleReserve, RejectJob
  <2>2. CASE activeState = None /\ Goto(Loop, "siSettings") /\ activeTask' = None
    <3>1. activeTask = None
      BY <2>2 DEF ActiveTaskAlive
    <3> QED BY <1>1, <1>3, <2>2, <3>1, LoopGoto DEF StartIfIdleReserve
  <2> QED BY <1>3, <2>1, <2>2 DEF StartIfIdleReserve, Reserve
<1>4. CASE StartIfIdleSettings
  <2>1. activeTask = None
    BY <1>4 DEF StartIfIdleSettings, SoloOK, Sole, AlonePcs
  <2>2. activeTask' = None
    BY <1>4, <2>1 DEF StartIfIdleSettings, ClearReserved, TakeActive
  <2>3. CASE RejectJob
    BY <1>1, <1>2, <1>4, <2>1, <2>2, <2>3, LoopReturns DEF StartIfIdleSettings, RejectJob
  <2>4. CASE ~RejectJob
    BY <1>1, <1>4, <2>1, <2>2, <2>4, LoopGoto DEF StartIfIdleSettings
  <2> QED BY <1>4, <2>3, <2>4 DEF StartIfIdleSettings
<1>5. CASE SuspendTake
  <2>1. CASE HasTask /\ Steerable(activeTask)
    <3>1. PICK v \in Turns : v = activeTask
      BY <2>1 DEF HasTask, TypeOK
    <3>2. /\ activeTask' = None /\ Goto(Loop, "abWait") /\ Mark(v, "suspended")
          /\ UNCHANGED <<closing, mailbox, status, born, job>> /\ pc[Loop] = "spTake"
      BY <1>5, <2>1, <3>1 DEF SuspendTake, TakeActive
    <3>3. victim'[Loop] = v /\ reason'[Loop] = "Suspended"
      BY <1>5, <2>1, <3>1 DEF SuspendTake, TypeOK
    <3>4. log'[v] = log[v] \cup {"suspended"} /\ \A u \in Turns : u # v => log'[u] = log[u]
      BY <3>2 DEF Mark, TypeOK
    <3>5. reason'[Loop] \in Reasons /\ reason'[Loop] # "Replaced"
      BY <3>3 DEF Reasons
    <3> QED BY <3>1, <3>2, <3>3, <3>4, <3>5, LoopGoto, TakeSolo
  <2>2. CASE ~(HasTask /\ Steerable(activeTask))
    BY <1>1, <1>5, <2>2, LoopGoto DEF SuspendTake
  <2> QED BY <2>1, <2>2
<1>6. ASSUME pc[Loop] \in {"convStop", "stopping"}, UNCHANGED <<activeTask, log, mailbox, job, born>>,
             status' = status \/ status' # "Running",
             \A b \in Actors : b # Loop => pc'[b] = pc[b],
             pc'[Loop] \in {"abTake", "stopped", "ready"},
             pc'[Loop] = "abTake" => reason'[Loop] = "Interrupted",
             pc'[Loop] = "ready" => closing' = "no"
      PROVE  SoloOK'
  <2>1. pc[Loop] \notin VictimPcs /\ (job'[Loop] # None => job'[Loop] = born')
    BY <1>6 DEF VictimPcs, SoloOK, Newest
  <2>2. /\ pc'[Loop] \in SoloLoopPcs \ VictimPcs /\ pc'[Loop] # "convStop"
        /\ pc'[Loop] \notin AlonePcs
    BY <1>6 DEF SoloLoopPcs, LoopPcs, AbortPcs, VictimPcs, AlonePcs
  <2> QED BY <1>6, <2>1, <2>2, LoopStill DEF LoopFrame
<1>7. CASE ConversationStopped
  <2>1. closing # "no" /\ pc[Realtime] = "idle"
    BY <1>7 DEF ConversationStopped, SoloOK, AbortOK, SoloPcs
  <2>2. /\ pc'[Loop] = "abTake" /\ \A b \in Actors : b # Loop => pc'[b] = pc[b]
        /\ reason'[Loop] = "Interrupted"
    BY <1>7, <2>1 DEF ConversationStopped, TypeOK
  <2> QED BY <1>6, <1>7, <2>2 DEF ConversationStopped
<1>8. CASE ShutdownComplete
  BY <1>6, <1>8, LoopGoto DEF ShutdownComplete
<1>9. CASE SuspendFails
  BY <1>6, <1>9, LoopGoto DEF SuspendFails
<1> QED BY <1>3, <1>4, <1>5, <1>7, <1>8, <1>9 DEF LoopInternal

(* In such a session only the loop aborts and starts turns. *)
LEMMA OnlyLoop ==
  ASSUME SoloOK, NEW a \in Actors,
         pc[a] \in AbortPcs \cup {"mbReserve", "mbDrain", "mbExtend", "stDrain", "stAttach",
                                  "stExtend", "stInstall"}
  PROVE  a = Loop /\ pc[a] \notin {"mbReserve", "mbDrain", "mbExtend"}
<1>1. /\ pc[Guardian] = "idle" /\ pc[Realtime] = "idle" /\ pc[Loop] \in SoloLoopPcs
      /\ \A t \in Turns : pc[t] \in TaskPcs
  BY DEF SoloOK, SoloPcs
<1>2. a \notin Turns
  BY <1>1 DEF TaskPcs, RunPcs, FinishPcs, AbortPcs
<1>3. a # Guardian /\ a # Realtime
  BY <1>1 DEF AbortPcs
<1> QED BY <1>1, <1>2, <1>3 DEF Actors, SoloLoopPcs, LoopPcs, AbortPcs

(* abort_all_tasks takes the task, drops a reservation, or finds nothing. *)
LEMMA AbortTakeSolo ==
  ASSUME IInv, SoloOK, AbortTake(Loop)
  PROVE  SoloOK'
<1> USE Basics DEF IInv, activeVars, locals, others
<1>1. /\ pc[Loop] = "abTake" /\ reason[Loop] \in {"Interrupted", "Replaced"}
      /\ closing # "no" => reason[Loop] # "Replaced"
      /\ UNCHANGED <<closing, mailbox, log, born>>
  BY DEF AbortTake, SoloOK, AbortOK, AbortPcs
<1>2. CASE HasTask
  <2>1. PICK v \in Turns : v = activeTask
    BY <1>2 DEF HasTask, TypeOK
  <2>2. TakeTask(Loop, reason[Loop])
    BY <1>2 DEF AbortTake
  <2>3. /\ activeTask' = None /\ Goto(Loop, "abWait")
        /\ victim'[Loop] = v /\ reason'[Loop] = reason[Loop] /\ job' = job
        /\ status' = "Running" => status = "Running"
    BY <2>1, <2>2 DEF TakeTask, TakeActive, TypeOK
  <2>4. reason'[Loop] \in Reasons /\ reason'[Loop] # "Suspended"
    BY <1>1, <2>3 DEF Reasons
  <2> QED BY <1>1, <2>1, <2>3, <2>4, LoopGoto, TakeSolo
<1>3. CASE ~HasTask
  <2>1. activeTask = None /\ activeTask' = None /\ status' = status
    BY <1>3 DEF AbortTake, TakeActive, HasTask
  <2>2. /\ \A b \in Actors : b # Loop => pc'[b] = pc[b]
        /\ IF reason[Loop] = "Replaced" THEN pc'[Loop] = "stDrain"
           ELSE pc'[Loop] = (IF closing = "no" THEN "ready" ELSE "stopping")
        /\ job'[Loop] \in {job[Loop], None}
    <3>1. CASE reason[Loop] = "Replaced"
      BY <1>3, <3>1, LoopGoto DEF AbortTake
    <3>2. CASE reason[Loop] # "Replaced"
      BY <1>3, <3>2, LoopReturns DEF AbortTake
    <3> QED BY <3>1, <3>2
  <2>3. pc[Loop] \notin VictimPcs /\ (job'[Loop] # None => job'[Loop] = born')
    BY <1>1, <2>2 DEF VictimPcs, SoloOK, Newest
  <2>4. pc'[Loop] \in SoloLoopPcs \ VictimPcs /\ pc'[Loop] \notin {"abTake", "convStop"}
    BY <2>2 DEF SoloLoopPcs, LoopPcs, VictimPcs
  <2> QED BY <1>1, <2>1, <2>2, <2>3, <2>4, LoopStill DEF LoopFrame
<1> QED BY <1>2, <1>3

(* The wait ends: the task has ended or is stopped. *)
LEMMA AbortWaitSolo ==
  ASSUME IInv, SoloOK, AbortWait(Loop)
  PROVE  SoloOK'
<1> USE Basics DEF IInv, SoloOK, activeVars, others
<1>1. PICK v \in Turns : v = victim[Loop]
  <2>1. victim[Loop] \in cancelled /\ cancelled \subseteq Turns
    BY DEF AbortWait, LocalsSet, VictimPcs, TypeOK
  <2> QED BY <2>1
<1>2. /\ pc[Loop] = "abWait" /\ pc[Loop] \in VictimPcs /\ reason[Loop] \in Reasons
      /\ UNCHANGED <<activeTask, mailbox, closing, log, status, born>> /\ Reset({v})
  BY <1>1 DEF AbortWait, VictimPcs, AbortOK
<1>3. reason'[Loop] = reason[Loop] /\ victim'[Loop] = v /\ job'[Loop] = job[Loop]
  BY <1>1, <1>2 DEF Reset
<1>4. /\ pc'[Loop] = AfterWait(Loop) /\ pc'[v] = Stopped(v)
      /\ \A b \in Actors : b # Loop /\ b # v => pc'[b] = pc[b]
  BY <1>1 DEF AbortWait, TypeOK
<1>5. pc'[v] \in {"done", "killed"}
  BY <1>4 DEF Stopped
<1>6. /\ reason[Loop] = "Suspended" => pc'[Loop] = "abClear"
      /\ reason[Loop] # "Suspended" => pc'[Loop] \in {"abMarker", "abEvent"}
  BY <1>2, <1>4 DEF AfterWait, Reasons
<1>7. /\ pc'[Loop] \in VictimPcs /\ pc'[Loop] \in AbortPcs
      /\ pc'[Guardian] = pc[Guardian] /\ pc'[Realtime] = pc[Realtime]
  BY <1>4, <1>6 DEF VictimPcs, AbortPcs
<1>8. SoloPcs'
  BY <1>2, <1>4, <1>5, <1>7 DEF SoloPcs, SoloLoopPcs, TaskPcs
<1>9. Sole'
  BY <1>1, <1>2, <1>4, <1>5, <1>7, PcFacts DEF Sole, AlonePcs
<1>10. AbortOK'
  BY <1>1, <1>2, <1>3, <1>5, <1>6, <1>7 DEF AbortOK, VictimPcs
<1>11. LogsOK'
  <2>1. \A t \in Turns : (Victim(t) <=> t = v) /\ (Victim(t)' <=> t = v)
    BY <1>1, <1>2, <1>3, <1>7 DEF Victim
  <2> QED BY <1>2, <1>4, <2>1 DEF LogsOK
<1>12. pc[v] \in RunPcs \cup {"finTake", "done", "killed"}
  BY <1>1, <1>2 DEF AbortOK
<1>13. Newest'
  <2>1. \A u \in Turns : pc[u] = "idle" <=> pc'[u] = "idle"
    BY <1>4, <1>5, <1>12, PcFacts
  <2>2. pc'[Loop] # "abWait"
    BY <1>6
  <2> QED BY <1>2, <1>3, <2>1, <2>2, NewestKept DEF Newest
<1>14. StatusOK'
  <2>1. ASSUME NEW u \in Turns, pc[u] \in {"finRecord", "finEvent"}
        PROVE  pc'[u] \in {"finRecord", "finEvent"}
    BY <1>4, <1>12, <2>1, PcFacts DEF FinishPcs
  <2>2. Settling => Settling'
    BY <1>2, <1>3, <1>6, <2>1 DEF Settling
  <2> QED BY <1>2, <2>2, StatusKept
<1> QED BY <1>8, <1>9, <1>10, <1>11, <1>13, <1>14

(* The marker and the event of the aborted turn. *)
LEMMA AbortReportSolo ==
  ASSUME IInv, SoloOK, AbortMarker(Loop) \/ AbortEvent(Loop)
  PROVE  SoloOK'
<1> USE Basics DEF IInv, SoloOK, activeVars, locals
<1>1. PICK v \in Turns : v = victim[Loop]
  <2>1. victim[Loop] \in cancelled /\ cancelled \subseteq Turns
    BY DEF AbortMarker, AbortEvent, LocalsSet, VictimPcs, TypeOK
  <2> QED BY <2>1
<1>2. /\ pc[Loop] \in {"abMarker", "abEvent"} /\ pc[Loop] \in VictimPcs
      /\ UNCHANGED <<activeTask, mailbox, closing, victim, reason, job, born>>
  BY DEF AbortMarker, AbortEvent, VictimPcs
<1>3. /\ reason[Loop] \in Reasons \ {"Suspended"} /\ pc[v] \in {"done", "killed"}
      /\ log[v] \cap Ends = {} /\ activeTask = None
  BY <1>1, <1>2 DEF AbortOK, Sole, AlonePcs
<1>4. /\ pc'[Loop] \in {"abEvent", "abClear"} /\ pc'[Loop] \in VictimPcs
      /\ pc'[Loop] \in AbortPcs
      /\ \A b \in Actors : b # Loop => pc'[b] = pc[b]
  BY LoopGoto DEF AbortMarker, AbortEvent, VictimPcs, AbortPcs
<1>5. /\ \A u \in Turns : u # v => log'[u] = log[u]
      /\ log'[v] \cap Ends = IF pc'[Loop] = "abClear" THEN {"aborted"} ELSE {}
  <2>1. CASE AbortMarker(Loop)
    <3>1. log'[v] = log[v] \cup {"marker"} /\ \A u \in Turns : u # v => log'[u] = log[u]
      BY <1>1, <2>1 DEF AbortMarker, Mark, TypeOK
    <3>2. pc'[Loop] = "abEvent" /\ "marker" \notin Ends
      BY <2>1, LoopGoto DEF AbortMarker, Ends
    <3> QED BY <1>3, <3>1, <3>2
  <2>2. CASE AbortEvent(Loop)
    <3>1. log'[v] = log[v] \cup {"aborted"} /\ \A u \in Turns : u # v => log'[u] = log[u]
      BY <1>1, <2>2 DEF AbortEvent, Mark, TypeOK
    <3>2. pc'[Loop] = "abClear" /\ "aborted" \in Ends
      BY <2>2, LoopGoto DEF AbortEvent, Ends
    <3> QED BY <1>3, <3>1, <3>2
  <2> QED BY <2>1, <2>2
<1>6. SoloPcs'
  BY <1>2, <1>4 DEF SoloPcs, SoloLoopPcs
<1>7. Sole'
  BY <1>1, <1>2, <1>3, <1>4 DEF Sole
<1>8. AbortOK'
  BY <1>1, <1>2, <1>3, <1>4, <1>5 DEF AbortOK, AbortPcs
<1>9. LogsOK'
  <2>1. \A t \in Turns : (Victim(t) <=> t = v) /\ (Victim(t)' <=> t = v)
    BY <1>1, <1>2, <1>4 DEF Victim
  <2>2. \A x, y \in log'[v] \cap Ends : x = y
    BY <1>5
  <2> QED BY <1>1, <1>4, <1>5, <2>1, <2>2 DEF LogsOK
<1>10. \A u \in Turns : /\ log[u] \subseteq log'[u]
                        /\ "started" \in log'[u] => "started" \in log[u]
  BY <1>1 DEF AbortMarker, AbortEvent, Mark, TypeOK
<1>11. Newest'
  BY <1>2, <1>4, <1>10, NewestKept DEF Newest
<1>12. StatusOK'
  <2>1. CASE AbortMarker(Loop)
    <3>1. Settling'
      BY <1>2, <1>3, <2>1, LoopGoto DEF Settling, AbortMarker
    <3> QED BY <3>1 DEF StatusOK
  <2>2. CASE AbortEvent(Loop)
    BY <2>2 DEF StatusOK, AbortEvent
  <2> QED BY <2>1, <2>2
<1> QED BY <1>6, <1>7, <1>8, <1>9, <1>11, <1>12

(* The abort ends with its turn reported, or suspended and the session closing. *)
LEMMA AbortClearSolo ==
  ASSUME IInv, SoloOK, AbortClear(Loop)
  PROVE  SoloOK'
<1> USE Basics DEF IInv, SoloOK, activeVars
<1>1. PICK v \in Turns : v = victim[Loop]
  <2>1. victim[Loop] \in cancelled /\ cancelled \subseteq Turns
    BY DEF AbortClear, LocalsSet, VictimPcs, TypeOK
  <2> QED BY <2>1
<1>2. /\ pc[Loop] = "abClear" /\ pc[Loop] \in VictimPcs /\ pc[Loop] \in AbortPcs
      /\ UNCHANGED <<activeTask, mailbox, log, status, job, born>>
      /\ closing' = IF reason[Loop] = "Suspended" THEN "suspend" ELSE closing
  BY DEF AbortClear, VictimPcs, AbortPcs
<1>3. /\ reason[Loop] \in Reasons /\ pc[v] \in {"done", "killed"}
      /\ log[v] \cap Ends # {} /\ activeTask = None
      /\ closing # "no" => reason[Loop] # "Replaced"
  BY <1>1, <1>2 DEF AbortOK, Sole, AlonePcs
<1>4. /\ \A b \in Actors : b # Loop => pc'[b] = pc[b]
      /\ reason[Loop] = "Interrupted" => pc'[Loop] = "mbCheck"
      /\ reason[Loop] = "Replaced" => pc'[Loop] = "stDrain"
      /\ reason[Loop] = "Suspended" => pc'[Loop] = "convStop"
  BY DEF AbortClear, Goto, TypeOK
<1>5. /\ pc'[Loop] \in {"mbCheck", "stDrain", "convStop"} /\ pc'[Loop] \notin VictimPcs
      /\ pc'[Guardian] = pc[Guardian] /\ pc'[Realtime] = pc[Realtime]
  BY <1>3, <1>4 DEF Reasons, VictimPcs
<1>6. SoloPcs'
  BY <1>2, <1>4, <1>5 DEF SoloPcs, SoloLoopPcs, LoopPcs
<1>7. Sole'
  BY <1>2, <1>3, <1>4 DEF Sole
<1>8. AbortOK'
  <2>1. closing' # "no" => reason[Loop] # "Replaced"
    BY <1>2, <1>3
  <2> QED BY <1>2, <1>3, <1>4, <1>5, <2>1 DEF AbortOK, AbortPcs, Reasons
<1>9. LogsOK'
  <2>1. \A t \in Turns : (Victim(t) <=> t = v) /\ ~Victim(t)'
    BY <1>1, <1>2, <1>5 DEF Victim
  <2>2. pc'[v] \notin {"idle", "finTake", "finRecord", "finEvent"} \cup RunPcs
    BY <1>3, <1>4 DEF RunPcs
  <2> QED BY <1>2, <1>3, <1>4, <2>1, <2>2 DEF LogsOK
<1>10. Newest'
  BY <1>2, <1>4, <1>5, NewestKept DEF Newest
<1>11. StatusOK'
  <2>1. Settling => Settling'
    BY <1>2, <1>3, <1>4 DEF Settling
  <2> QED BY <1>2, <2>1, StatusKept
<1> QED BY <1>6, <1>7, <1>8, <1>9, <1>10, <1>11

(* The loop looks for pending work and finds none, or gets ready to start a turn. *)
LEMMA StartSolo ==
  ASSUME IInv, SoloOK,
         MaybeStartCheck(Loop) \/ StartDrain(Loop) \/ StartAttach(Loop) \/ StartExtend(Loop)
  PROVE  SoloOK'
<1> USE Basics DEF IInv, activeVars, locals, others
<1>1. mailbox = {} /\ UNCHANGED <<activeTask, status, log, closing, mailbox, born>>
  BY DEF SoloOK, SoloPcs, MaybeStartCheck, StartDrain, StartAttach, StartExtend
<1>2. /\ pc[Loop] \in {"mbCheck", "stDrain", "stAttach", "stExtend"}
      /\ \A b \in Actors : b # Loop => pc'[b] = pc[b]
      /\ pc[Loop] = "mbCheck" => pc'[Loop] = (IF closing = "no" THEN "ready" ELSE "stopping")
      /\ pc[Loop] # "mbCheck" => pc'[Loop] \in {"stAttach", "stExtend", "stInstall"}
      /\ job'[Loop] \in {job[Loop], None}
  <2>1. CASE MaybeStartCheck(Loop)
    BY <1>1, <2>1, LoopReturns DEF MaybeStartCheck
  <2>2. CASE StartDrain(Loop)
    BY <2>2, LoopGoto DEF StartDrain
  <2>3. CASE StartAttach(Loop)
    BY <2>3, LoopGoto DEF StartAttach
  <2>4. CASE StartExtend(Loop)
    BY <2>4, LoopGoto DEF StartExtend
  <2> QED BY <2>1, <2>2, <2>3, <2>4
<1>3. pc[Loop] # "mbCheck" => closing = "no" /\ activeTask = None
  BY <1>2 DEF SoloOK, AbortOK, AbortPcs, Sole, AlonePcs
<1>4. pc[Loop] \notin VictimPcs /\ (job'[Loop] # None => job'[Loop] = born')
  BY <1>1, <1>2 DEF VictimPcs, SoloOK, Newest
<1>5. /\ pc'[Loop] \in SoloLoopPcs \ VictimPcs /\ pc'[Loop] \notin {"abTake", "convStop"}
      /\ pc'[Loop] \in AlonePcs => activeTask = None
  BY <1>2, <1>3 DEF SoloLoopPcs, LoopPcs, VictimPcs, AlonePcs
<1>6. closing' # "no" => pc'[Loop] = "stopping"
  BY <1>1, <1>2, <1>3
<1> QED BY <1>1, <1>2, <1>4, <1>5, <1>6, LoopStill DEF LoopFrame

(* The task is spawned and stored where there was none: nothing is overwritten. *)
LEMMA StartInstallSolo ==
  ASSUME IInv, SoloOK, StartInstall(Loop)
  PROVE  SoloOK'
<1> USE Basics DEF IInv, SoloOK, others
<1>1. PICK j \in Turns : j = job[Loop] /\ pc[j] = "idle"
  <2>1. job[Loop] # None /\ job[Loop] \in Turns
    BY DEF StartInstall, LocalsSet, JobPcs, TypeOK
  <2>2. pc[job[Loop]] = "idle"
    BY <2>1 DEF JobsFresh
  <2> QED BY <2>1, <2>2
<1>2. /\ pc[Loop] = "stInstall" /\ activeTask = None /\ closing = "no"
      /\ UNCHANGED <<log, status, closing, mailbox, born>>
  BY DEF StartInstall, Sole, AlonePcs, AbortOK, AbortPcs
<1>3. /\ activeTask' = j /\ pc'[Loop] = "ready" /\ pc'[j] = "spawned"
      /\ \A b \in Actors : b # Loop /\ b # j => pc'[b] = pc[b]
  BY <1>1, <1>2 DEF StartInstall, HasTask, ReturnPc, TypeOK
<1>4. /\ \A t \in Turns : ~Victim(t) /\ ~Victim(t)'
      /\ pc'[Guardian] = pc[Guardian] /\ pc'[Realtime] = pc[Realtime]
      /\ "spawned" \in RunPcs
  BY <1>2, <1>3 DEF Victim, VictimPcs, RunPcs
<1>5. SoloPcs'
  BY <1>2, <1>3, <1>4 DEF SoloPcs, SoloLoopPcs, LoopPcs, TaskPcs
<1>6. Sole'
  BY <1>2, <1>3 DEF Sole, AlonePcs, VictimPcs
<1>7. AbortOK'
  BY <1>2, <1>3 DEF AbortOK, VictimPcs
<1>8. LogsOK'
  BY <1>1, <1>2, <1>3, <1>4, PcFacts DEF LogsOK
<1>9. Newest'
  <2>1. j = born /\ \A u \in Turns : u > j => pc[u] = "idle" /\ u # j
    BY <1>1 DEF Newest, JobsFresh, Turns
  <2>2. \A u \in Turns : u > j => pc'[u] = "idle"
    BY <1>3, <2>1
  <2>3. job'[Loop] = None
    BY <1>2 DEF StartInstall, HasTask, Reset
  <2>4. \A u \in Turns : pc'[u] = "idle" => "started" \notin log'[u]
    BY <1>2, <1>3 DEF Newest
  <2> QED BY <1>3, <2>2, <2>3, <2>4 DEF Newest
<1>10. StatusOK'
  <2>1. Settling => Settling'
    BY <1>1, <1>2, <1>3 DEF Settling
  <2> QED BY <1>2, <2>1, StatusKept
<1> QED BY <1>5, <1>6, <1>7, <1>8, <1>9, <1>10

(* The procedures, which only the loop runs beyond their first check. *)
LEMMA ProcedureSolo ==
  ASSUME IInv, SoloOK, NEW a \in Actors, Procedure(a)
  PROVE  SoloOK'
<1>1. CASE MaybeStartCheck(a)
  <2>1. a # Guardian /\ a # Realtime
    BY <1>1 DEF MaybeStartCheck, SoloOK, SoloPcs
  <2> QED BY <1>1, <2>1, CheckSolo, StartSolo DEF Actors
<1>2. CASE ~MaybeStartCheck(a)
  <2>1. pc[a] \in AbortPcs \cup {"mbReserve", "mbDrain", "mbExtend", "stDrain", "stAttach",
                                 "stExtend", "stInstall"}
    BY <1>2 DEF Procedure, AbortTake, AbortWait, AbortMarker, AbortEvent, AbortClear,
       MaybeStartReserve, MaybeStartDrain, MaybeStartExtend, StartDrain, StartAttach,
       StartExtend, StartInstall, AbortPcs
  <2>2. a = Loop /\ pc[a] \notin {"mbReserve", "mbDrain", "mbExtend"}
    BY <2>1, OnlyLoop
  <2>3. ~(MaybeStartReserve(a) \/ MaybeStartDrain(a) \/ MaybeStartExtend(a))
    BY <2>2 DEF MaybeStartReserve, MaybeStartDrain, MaybeStartExtend
  <2> QED BY <1>2, <2>2, <2>3, AbortTakeSolo, AbortWaitSolo, AbortReportSolo,
             AbortClearSolo, StartSolo, StartInstallSolo DEF Procedure
<1> QED BY <1>1, <1>2

(* The first state has no turn. *)
LEMMA InitSolo == Init => SoloOK
<1> SUFFICES ASSUME Init PROVE SoloOK
  OBVIOUS
<1> USE Basics DEF Init
<1>1. /\ pc[Loop] = "ready" /\ pc[Guardian] = "idle" /\ pc[Realtime] = "idle"
      /\ \A t \in Turns : pc[t] = "idle"
      /\ \A t \in Turns : log[t] = {}
  OBVIOUS
<1>2. SoloPcs
  BY <1>1 DEF SoloPcs, SoloLoopPcs, LoopPcs, TaskPcs
<1>3. Sole
  BY <1>1 DEF Sole, AlonePcs, VictimPcs, RunPcs
<1>4. AbortOK
  BY <1>1 DEF AbortOK, AbortPcs, VictimPcs
<1>5. LogsOK
  BY <1>1 DEF LogsOK
<1>6. StatusOK
  BY DEF StatusOK
<1>7. Newest
  BY <1>1 DEF Newest
<1> QED BY <1>2, <1>3, <1>4, <1>5, <1>6, <1>7 DEF SoloOK

(* Every step of such a session preserves the invariant. *)
LEMMA NextSolo ==
  ASSUME Solo
  PROVE  IInv /\ SoloOK /\ [Next]_vars => SoloOK'
<1> SUFFICES ASSUME IInv, SoloOK, [Next]_vars PROVE SoloOK'
  OBVIOUS
<1>1. ASSUME NEW t \in Turns, Running(t) \/ Finishing(t) PROVE SoloOK'
  BY <1>1, RunningSolo, TaskReturnedSolo, FinishTakeSolo, FinishSolo DEF Finishing
<1>2. \A t \in Turns : ~GuardianDeny(t)
  BY DEF GuardianDeny, Solo
<1>3. ~GuardianTake
  BY DEF GuardianTake, SoloOK, SoloPcs
<1>4. ASSUME NEW x \in Injections, InjectNoNewTurn(x) PROVE SoloOK'
  BY <1>4, StutterSolo DEF InjectNoNewTurn, activeVars, locals, others
<1>5. CASE UNCHANGED vars
  BY <1>5, StutterSolo DEF vars, activeVars, locals, others
<1>6. ~TransportClosed
  BY DEF TransportClosed, SoloOK, SoloPcs
<1> QED BY <1>1, <1>2, <1>3, <1>4, <1>5, <1>6, LoopStepSolo, LoopInternalSolo, ProcedureSolo
        DEF Next, Solo

(* A session without mail, realtime texts and guardian satisfies the invariant. *)
THEOREM SoloHolds ==
  ASSUME Solo
  PROVE  Spec => [](IInv /\ SoloOK)
<1>1. Init => IInv /\ SoloOK
  BY InitInv, InitSolo
<1>2. IInv /\ SoloOK /\ [Next]_vars => (IInv /\ SoloOK)'
  BY NextInv, NextSolo
<1> QED BY <1>1, <1>2, PTL DEF Spec

(* No turn of such a session both completes and aborts, whichever of the task that
   finishes and the abort that overtakes it comes first (tasks/mod.rs,
   on_task_finished and handle_task_abort). *)
THEOREM OneEndPerTurn ==
  ASSUME Solo
  PROVE  Spec => []OneTerminalEvent
<1>1. IInv /\ SoloOK => OneTerminalEvent
  BY DEF SoloOK, LogsOK, Ends, OneTerminalEvent
<1> QED BY <1>1, SoloHolds, PTL

(* A turn it suspends for another worker has, and gets, no terminal event
   (session/turn_suspension.rs). *)
THEOREM SuspensionSilent ==
  ASSUME Solo
  PROVE  Spec => []SuspendedIsSilent
<1>1. IInv /\ SoloOK => SuspendedIsSilent
  BY DEF SoloOK, LogsOK, Ends, SuspendedIsSilent
<1> QED BY <1>1, SoloHolds, PTL

(* No turn of it dies without a report: a task that ended has its event, or is
   suspended, or its aborter is about to report it (tasks/mod.rs,
   handle_task_abort).  A second starter, mail or a realtime text routed while the
   loop is in start_task, would break this. *)
THEOREM EveryEndReported ==
  ASSUME Solo
  PROVE  Spec => []NoSilentDeath
<1>1. IInv /\ SoloOK => NoSilentDeath
  BY Basics DEF SoloOK, LogsOK, Ends, Victim, NoSilentDeath
<1> QED BY <1>1, SoloHolds, PTL

(* start_task's debug_assert!(turn.task.is_none()) holds in it at both locks, as
   nobody but the loop is in start_task; with mail or a realtime conversation it
   fails. *)
THEOREM StartAssertionHolds ==
  ASSUME Solo
  PROVE  Spec => []StartFindsNoTask
<1>1. ASSUME IInv, SoloOK, NEW a \in Actors, pc[a] \in {"stAttach", "stInstall"}
      PROVE  ~HasTask
  <2>1. a = Loop
    BY <1>1, OnlyLoop
  <2> QED BY <1>1, <2>1 DEF SoloOK, Sole, AlonePcs, HasTask
<1>2. IInv /\ SoloOK => StartFindsNoTask
  BY <1>1 DEF StartFindsNoTask
<1> QED BY <1>2, SoloHolds, PTL

(* A set with at most one element. *)
LEMMA AtMostOne ==
  ASSUME NEW S, NEW x, S \subseteq {x}
  PROVE  Cardinality(S) <= 1
<1>1. IsFiniteSet({x}) /\ Cardinality({x}) = 1
  BY FS_Singleton
<1> QED BY <1>1, FS_Subset

(* At most one of its tasks talks to the model and writes history at a time. *)
THEOREM OneTaskRuns ==
  ASSUME Solo
  PROVE  Spec => []OneRunner
<1>1. ASSUME IInv, SoloOK PROVE OneRunner
  <2>1. \E x : {t \in Turns : pc[t] \in RunPcs} \subseteq {x}
    <3>1. CASE pc[Loop] = "abWait"
      <4>1. activeTask = None
        BY <1>1, <3>1 DEF SoloOK, Sole, AlonePcs, VictimPcs
      <4>2. {t \in Turns : pc[t] \in RunPcs} \subseteq {victim[Loop]}
        BY <1>1, <4>1, Basics DEF SoloOK, Sole
      <4> QED BY <4>2
    <3>2. CASE pc[Loop] # "abWait"
      <4>1. {t \in Turns : pc[t] \in RunPcs} \subseteq {activeTask}
        BY <1>1, <3>2 DEF SoloOK, Sole
      <4> QED BY <4>1
    <3> QED BY <3>1, <3>2
  <2> QED BY <2>1, AtMostOne DEF OneRunner
<1> QED BY <1>1, SoloHolds, PTL

(* When it is idle and at rest, the status that clients and other agents watch says
   Running only if the last turn that started was suspended and the thread could
   not be closed (agent/status.rs, turn_suspension.rs). *)
THEOREM StatusSettles ==
  ASSUME Solo
  PROVE  Spec => []IdleNotRunning
<1>1. ASSUME IInv, SoloOK, activeState = None,
             \A a \in Actors : pc[a] \in {"ready", "stopped", "idle", "done", "killed"}
      PROVE  status # "Running" \/ LastSuspended
  <2>1. activeTask = None
    BY <1>1 DEF IInv, ActiveTaskAlive
  <2>2. /\ pc[Loop] \in {"ready", "stopped", "idle", "done", "killed"}
        /\ \A t \in Turns : pc[t] \in {"ready", "stopped", "idle", "done", "killed"}
    BY <1>1, Basics
  <2>3. ~Settling
    BY <2>1, <2>2 DEF Settling
  <2> QED BY <1>1, <2>3 DEF SoloOK, StatusOK
<1>2. IInv /\ SoloOK => IdleNotRunning
  BY <1>1 DEF IdleNotRunning
<1> QED BY <1>2, SoloHolds, PTL

-----------------------------------------------------------------------------
(* The turn states, and what waits in them. *)

(* Which turn states the loop, the active turn and the finishing tasks refer to:
   the one the loop prepares belongs to the turn it is going to start, the others
   to turns that were started. *)
StatesOK ==
  /\ activeTask # None => pc[activeState[1]] # "idle"
  /\ \A t \in Turns : pc[t] \in {"finRecord", "finEvent", "finClear"} =>
       pc[home[t][1]] # "idle"
  /\ pc[Loop] \in VictimPcs => activeState = None
  /\ pc[Loop] \in {"siSettings", "stExtend", "stInstall"} =>
       activeState # None /\ activeState = home[Loop] /\ activeState[1] = job[Loop]
  /\ pc[Loop] \in {"stDrain", "stAttach"} =>
       activeState = None \/ (activeState = home[Loop] /\ activeState[1] = job[Loop])

(* Input waits in the turn state of the active task, of the task the loop aborts,
   or of the turn the loop is about to start. *)
QueuesOK ==
  \A s \in TurnStates : pending[s] # {} =>
    \/ s = activeState /\ activeTask # None
    \/ s = home[Loop] /\ pc[Loop] \in VictimPcs
    \/ s = home[Loop] /\ s = activeState /\ pc[Loop] \in {"stDrain", "stAttach", "stExtend", "stInstall"}

(* An approval is pending where its task waits for it: in the turn state of the
   active turn, or in the one the loop keeps while it waits for that task. *)
WaitersOK ==
  \A t \in Turns, s \in TurnStates :
    t \in waiters[s] /\ pc[t] \in ({"idle"} \cup RunPcs) \ {"returned"} =>
      /\ pc[t] = "approval"
      /\ \/ s = activeState /\ t = activeTask
         \/ s = home[Loop] /\ pc[Loop] = "abWait" /\ victim[Loop] = t

PlaceInv == IInv /\ SoloOK /\ StatesOK /\ WaitersOK

(* An approval stays where it is pending as long as its task waits. *)
WaitersKept ==
  \A t \in Turns, s \in TurnStates :
    pc[t] = "approval" /\ pc'[t] = "approval" /\ t \in waiters[s] => t \in waiters'[s]

Tidy == StatesOK' /\ WaitersOK' /\ WaitersKept /\ (QueuesOK => QueuesOK')

FinPcs == {"finRecord", "finEvent", "finClear"}

(* The turn a turn state was created for. *)
LEMMA StateTurn ==
  \A s \in TurnStates : s # None /\ s[1] \in Turns /\ s[1] \in Actors
BY Basics DEF TurnStates

(* The parts of the types that the turn states need. *)
LEMMA PlaceTypes ==
  ASSUME PlaceInv
  PROVE  /\ activeState # None => activeState[1] \in Turns /\ activeState \in TurnStates
         /\ activeTask # None => activeTask \in Turns /\ activeState # None
         /\ \A t \in Turns : pc[t] \in FinPcs => home[t] # None /\ home[t][1] \in Turns
         /\ job[Loop] # None => job[Loop] \in Turns /\ pc[job[Loop]] = "idle"
         /\ pc[Loop] \in JobPcs => job[Loop] # None
         /\ pc[Loop] \in VictimPcs => victim[Loop] \in Turns /\ home[Loop] \in TurnStates
<1> USE Basics, StateTurn DEF PlaceInv, IInv, TypeOK
<1>1. activeState # None => activeState[1] \in Turns /\ activeState \in TurnStates
  OBVIOUS
<1>2. activeTask # None => activeTask \in Turns /\ activeState # None
  BY DEF ActiveTaskAlive
<1>3. ASSUME NEW t \in Turns, pc[t] \in FinPcs
      PROVE  home[t] # None /\ home[t][1] \in Turns
  <2>1. home[t] # None /\ home[t] \in TurnStates
    BY <1>3 DEF LocalsSet, HomePcs, FinPcs
  <2> QED BY <2>1
<1>4. job[Loop] # None => job[Loop] \in Turns /\ pc[job[Loop]] = "idle"
  BY DEF JobsFresh
<1>5. pc[Loop] \in JobPcs => job[Loop] # None
  BY DEF LocalsSet
<1>6. ASSUME pc[Loop] \in VictimPcs
      PROVE  victim[Loop] \in Turns /\ home[Loop] \in TurnStates
  <2>1. pc[Loop] \in HomePcs
    BY <1>6 DEF HomePcs
  <2>2. victim[Loop] \in cancelled /\ home[Loop] # None
    BY <1>6, <2>1 DEF LocalsSet
  <2> QED BY <2>2
<1> QED BY <1>1, <1>2, <1>3, <1>4, <1>5, <1>6

(* A step of a task that asks for no approval and puts nothing into a turn state. *)
LEMMA TaskTidy ==
  ASSUME PlaceInv, NEW t \in Turns, pc[t] # "idle", pc'[t] # "idle",
         \A b \in Actors : b # t => pc'[b] = pc[b] /\ home'[b] = home[b],
         job'[Loop] = job[Loop], victim'[Loop] = victim[Loop],
         \/ activeState' = activeState
         \/ /\ activeState' = None /\ activeTask = None
            /\ activeState # None => pc[activeState[1]] # "idle",
         activeTask' = activeTask \/ (activeTask = t /\ activeTask' = None),
         pc'[t] \in FinPcs => home'[t][1] \in Turns /\ pc[home'[t][1]] # "idle",
         waiters' = waiters,
         pc'[t] \in RunPcs \ {"returned"} => pc[t] \in RunPcs \ {"returned", "approval"},
         \A s \in TurnStates :
           \/ pending'[s] = {}
           \/ pending'[s] = pending[s] /\ (activeTask' # activeTask => s # activeState)
  PROVE  Tidy
<1> USE Basics, PlaceTypes
<1>1. /\ pc'[Loop] = pc[Loop] /\ home'[Loop] = home[Loop]
      /\ \A u \in Turns : pc[u] # "idle" => pc'[u] # "idle"
  OBVIOUS
<1>2. StatesOK'
  <2>1. activeTask' # None => pc'[activeState'[1]] # "idle"
    BY <1>1 DEF PlaceInv, StatesOK
  <2>2. ASSUME NEW u \in Turns, pc'[u] \in FinPcs PROVE pc'[home'[u][1]] # "idle"
    <3>1. CASE u = t
      BY <1>1, <2>2, <3>1
    <3>2. CASE u # t
      BY <1>1, <2>2, <3>2 DEF PlaceInv, StatesOK, FinPcs
    <3> QED BY <3>1, <3>2
  <2>3. pc[Loop] \in VictimPcs => activeState' = None
    BY DEF PlaceInv, StatesOK
  <2>4. /\ pc[Loop] \in {"siSettings", "stExtend", "stInstall"} =>
             /\ activeState' # None /\ activeState' = home[Loop]
             /\ activeState'[1] = job[Loop]
        /\ pc[Loop] \in {"stDrain", "stAttach"} =>
             activeState' = None \/ (activeState' = home[Loop] /\ activeState'[1] = job[Loop])
    <3>1. pc[Loop] \in {"siSettings", "stExtend", "stInstall"} =>
            /\ activeState = home[Loop] /\ activeState[1] = job[Loop]
            /\ activeState # None /\ pc[activeState[1]] = "idle"
      BY DEF PlaceInv, StatesOK, JobPcs
    <3> QED BY <3>1 DEF PlaceInv, StatesOK
  <2> QED BY <1>1, <2>1, <2>2, <2>3, <2>4 DEF StatesOK, FinPcs

<1>3. WaitersOK' /\ WaitersKept
  <2>1. ASSUME NEW u \in Turns, NEW s \in TurnStates, u \in waiters[s],
               pc'[u] \in ({"idle"} \cup RunPcs) \ {"returned"}
        PROVE  /\ pc'[u] = "approval"
               /\ \/ s = activeState' /\ u = activeTask'
                  \/ s = home[Loop] /\ pc[Loop] = "abWait" /\ victim[Loop] = u
    <3>1. u # t
      BY <2>1 DEF PlaceInv, WaitersOK
    <3>2. pc'[u] = pc[u] /\ u \in Actors
      BY <3>1
    <3> QED BY <2>1, <3>1, <3>2 DEF PlaceInv, WaitersOK
  <2> QED BY <1>1, <2>1 DEF WaitersOK, WaitersKept
<1>4. ASSUME QueuesOK PROVE QueuesOK'
  <2> SUFFICES ASSUME NEW s \in TurnStates, pending'[s] # {}
               PROVE  \/ s = activeState' /\ activeTask' # None
                      \/ s = home[Loop] /\ pc[Loop] \in VictimPcs
                      \/ /\ s = home[Loop] /\ s = activeState'
                         /\ pc[Loop] \in {"stDrain", "stAttach", "stExtend", "stInstall"}
    BY <1>1 DEF QueuesOK
  <2>1. pending[s] # {} /\ (activeTask' # activeTask => s # activeState)
    OBVIOUS
  <2>2. CASE s = activeState /\ activeTask # None
    BY <2>1, <2>2
  <2>3. CASE s = home[Loop] /\ pc[Loop] \in VictimPcs
    BY <2>3
  <2>4. CASE s = home[Loop] /\ s = activeState /\ pc[Loop] \in {"stDrain", "stAttach", "stExtend", "stInstall"}
    <3>1. s # None
      BY StateTurn
    <3>2. pc[activeState[1]] = "idle"
      BY <2>4, <3>1 DEF PlaceInv, StatesOK, JobPcs
    <3> QED BY <2>4, <3>1, <3>2
  <2> QED BY <1>4, <2>1, <2>2, <2>3, <2>4 DEF QueuesOK
<1> QED BY <1>2, <1>3, <1>4 DEF Tidy

(* The running task asks for an approval where the active turn is its own. *)
LEMMA AskApprovalTidy ==
  ASSUME PlaceInv, NEW t \in Turns, AskApproval(t)
  PROVE  Tidy
<1> USE Basics, PlaceTypes DEF activeVars, locals
<1>1. /\ pc[t] = "sample" /\ pc'[t] = "approval" /\ \A b \in Actors : b # t => pc'[b] = pc[b]
      /\ UNCHANGED <<activeState, activeTask, home, job, victim, pending>>
  BY DEF AskApproval, Goto, PlaceInv, IInv, TypeOK
<1>2. \A s \in TurnStates : t \notin waiters[s]
  BY <1>1 DEF PlaceInv, WaitersOK, RunPcs
<1>3. activeState # None => activeTask = t
  BY <1>1 DEF PlaceInv, SoloOK, Sole, StatesOK, RunPcs, VictimPcs
<1>4. \A s \in TurnStates :
        waiters'[s] = IF s = activeState THEN waiters[s] \cup {t} ELSE waiters[s]
  <2>1. CASE activeState = None
    BY <2>1, StateTurn DEF AskApproval
  <2>2. CASE activeState # None
    BY <2>2 DEF AskApproval, PlaceInv, IInv, TypeOK
  <2> QED BY <2>1, <2>2
<1>5. WaitersOK' /\ WaitersKept
  <2>1. ASSUME NEW u \in Turns, NEW s \in TurnStates, u \in waiters'[s],
               pc'[u] \in ({"idle"} \cup RunPcs) \ {"returned"}
        PROVE  /\ pc'[u] = "approval"
               /\ \/ s = activeState /\ u = activeTask
                  \/ s = home[Loop] /\ pc[Loop] = "abWait" /\ victim[Loop] = u
    <3>1. CASE u = t
      <4>1. s = activeState /\ s # None
        BY <1>2, <1>4, <2>1, <3>1, StateTurn
      <4> QED BY <1>1, <1>3, <3>1, <4>1
    <3>2. CASE u # t
      <4>1. u \in waiters[s] /\ pc'[u] = pc[u]
        BY <1>1, <1>4, <2>1, <3>2
      <4> QED BY <2>1, <4>1 DEF PlaceInv, WaitersOK
    <3> QED BY <3>1, <3>2
  <2>2. pc'[Loop] = pc[Loop]
    BY <1>1
  <2> QED BY <1>1, <1>4, <2>1, <2>2 DEF WaitersOK, WaitersKept
<1>6. StatesOK'
  <2>1. pc'[Loop] = pc[Loop] /\ \A u \in Turns : pc[u] # "idle" => pc'[u] # "idle"
    BY <1>1
  <2>2. \A u \in Turns : pc'[u] \in FinPcs => pc[u] \in FinPcs
    BY <1>1 DEF FinPcs
  <2>3. \A u \in Turns : pc[u] \in FinPcs => pc'[home[u][1]] # "idle"
    BY <2>1 DEF PlaceInv, StatesOK, FinPcs
  <2> QED BY <1>1, <2>1, <2>2, <2>3 DEF PlaceInv, StatesOK, FinPcs
<1>7. QueuesOK => QueuesOK'
  BY <1>1 DEF QueuesOK
<1> QED BY <1>5, <1>6, <1>7 DEF Tidy

(* The other steps of a running task. *)
LEMMA RunningTidy ==
  ASSUME PlaceInv, NEW t \in Turns, Running(t)
  PROVE  Tidy
<1> USE Basics DEF PlaceInv, IInv
<1>1. ASSUME UNCHANGED <<activeState, activeTask, home, job, victim, waiters>>,
             NEW p, Goto(t, p), pc[t] \in RunPcs \ {"returned"}, p \in RunPcs,
             pc[t] = "approval" => p = "returned",
             \A s \in TurnStates : pending'[s] = pending[s] \/ pending'[s] = {}
      PROVE  Tidy
  <2>1. pc'[t] = p /\ \A b \in Actors : b # t => pc'[b] = pc[b]
    BY <1>1 DEF Goto, TypeOK
  <2>2. p \notin FinPcs /\ p # "idle" /\ pc[t] # "idle"
    BY <1>1 DEF FinPcs, RunPcs
  <2> QED BY <1>1, <2>1, <2>2, TaskTidy
<1> USE DEF activeVars, locals, stateVars, RunPcs, Finish
<1>2. CASE TaskStarted(t) \/ RecordInput(t) \/ PreSamplingCompactFails(t) \/ StandaloneWork(t)
  BY <1>1, <1>2 DEF TaskStarted, RecordInput, PreSamplingCompactFails, StandaloneWork
<1>3. CASE DrainPending(t)
  <2>1. \A s \in TurnStates : pending'[s] = pending[s] \/ pending'[s] = {}
    <3>1. CASE activeState = None \/ ~accepts[activeState]
      BY <1>3, <3>1 DEF DrainPending, GetPendingInput
    <3>2. CASE ~(activeState = None \/ ~accepts[activeState])
      BY <1>3, <3>2 DEF DrainPending, GetPendingInput, TypeOK
    <3> QED BY <3>1, <3>2
  <2> QED BY <1>1, <1>3, <2>1 DEF DrainPending
<1>4. CASE RecordPending(t) \/ SampleAnswer(t)
  BY <1>1, <1>4 DEF RecordPending, SampleAnswer
<1>5. CASE SampleToolCall(t)
  <2>1. CASE Goto(t, "drain")
    BY <1>1, <1>5, <2>1 DEF SampleToolCall
  <2>2. CASE UNCHANGED pc
    <3>1. Goto(t, "sample")
      BY <1>5, <2>2 DEF SampleToolCall, Goto, TypeOK
    <3> QED BY <1>1, <1>5, <3>1 DEF SampleToolCall
  <2> QED BY <1>5, <2>1, <2>2 DEF SampleToolCall
<1>6. CASE ApprovalDropped(t) \/ SampleError(t) \/ ObserveCancel(t)
  BY <1>1, <1>6 DEF ApprovalDropped, SampleError, ObserveCancel
<1>7. CASE AfterSampling(t) \/ LoopCheck(t)
  BY <1>1, <1>7 DEF AfterSampling, LoopCheck
<1> QED BY <1>2, <1>3, <1>4, <1>5, <1>6, <1>7, AskApprovalTidy DEF Running

(* A task that ends returns, and its locals with it. *)
LEMMA TaskGone ==
  ASSUME PlaceInv, NEW t \in Turns, Return(t)
  PROVE  /\ pc'[t] = "done"
         /\ \A b \in Actors : b # t =>
              /\ pc'[b] = pc[b] /\ home'[b] = home[b] /\ job'[b] = job[b]
              /\ victim'[b] = victim[b]
BY Basics DEF Return, Reset, Goto, ReturnPc, PlaceInv, IInv, TypeOK

(* The steps of a task that finishes. *)
LEMMA FinishingTidy ==
  ASSUME PlaceInv, NEW t \in Turns, Finishing(t)
  PROVE  Tidy
<1> USE Basics, PlaceTypes DEF activeVars, locals, stateVars, FinPcs, RunPcs
<1>1. CASE TaskReturned(t)
  <2>1. /\ pc[t] = "returned" /\ pc'[t] \in {"done", "finTake"}
        /\ \A b \in Actors : b # t => pc'[b] = pc[b] /\ home'[b] = home[b]
        /\ job'[Loop] = job[Loop] /\ victim'[Loop] = victim[Loop]
        /\ UNCHANGED <<activeState, activeTask, pending, waiters>>
    <3>1. CASE t \in cancelled
      BY <1>1, <3>1, TaskGone DEF TaskReturned
    <3>2. CASE t \notin cancelled
      BY <1>1, <3>2 DEF TaskReturned, Goto, PlaceInv, IInv, TypeOK
    <3> QED BY <3>1, <3>2
  <2> QED BY <2>1, TaskTidy
<1>2. CASE FinishTake(t)
  <2>1. CASE HasTask
    <3>1. activeTask = t
      <4>1. pc[Loop] # "abWait"
        BY <2>1 DEF HasTask, PlaceInv, SoloOK, Sole, AlonePcs, VictimPcs
      <4> QED BY <1>2, <4>1 DEF FinishTake, PlaceInv, SoloOK, Sole
    <3>2. /\ pc[t] = "finTake" /\ pc'[t] = "finRecord"
          /\ \A b \in Actors : b # t => pc'[b] = pc[b] /\ home'[b] = home[b]
          /\ home'[t] = activeState /\ activeTask' = None
          /\ UNCHANGED <<activeState, job, victim, waiters>>
          /\ \A s \in TurnStates : pending'[s] = IF s = activeState THEN {} ELSE pending[s]
      BY <1>2, <2>1 DEF FinishTake, TakePending, Goto, PlaceInv, IInv, TypeOK
    <3>3. activeState # None /\ pc[activeState[1]] # "idle"
      BY <2>1 DEF HasTask, PlaceInv, StatesOK
    <3>4. activeState[1] \in Turns
      BY <3>3
    <3> QED BY <3>1, <3>2, <3>3, <3>4, TaskTidy
  <2>2. CASE ~HasTask
    BY <1>2, <2>2, TaskGone, TaskTidy DEF FinishTake
  <2> QED BY <2>1, <2>2
<1>3. CASE FinishRecord(t) \/ FinishEvent(t)
  <2>1. /\ pc[t] \in {"finRecord", "finEvent"} /\ pc'[t] \in {"finEvent", "finClear"}
        /\ \A b \in Actors : b # t => pc'[b] = pc[b]
        /\ UNCHANGED <<activeState, activeTask, home, job, victim, pending, waiters>>
    BY <1>3 DEF FinishRecord, FinishEvent, Goto, PlaceInv, IInv, TypeOK
  <2>2. home[t][1] \in Turns /\ pc[home[t][1]] # "idle"
    BY <2>1 DEF PlaceInv, StatesOK
  <2> QED BY <2>1, <2>2, TaskTidy
<1>4. CASE FinishClear(t)
  <2>1. CASE activeState = home[t] /\ activeTask = None
    <3>1. /\ pc[t] = "finClear" /\ pc'[t] = "mbCheck"
          /\ \A b \in Actors : b # t => pc'[b] = pc[b] /\ home'[b] = home[b]
          /\ job'[Loop] = job[Loop] /\ victim'[Loop] = victim[Loop]
          /\ activeState' = None /\ activeTask' = activeTask
          /\ UNCHANGED <<pending, waiters>>
      <4>1. pc[t] = "finClear" /\ TakeActive /\ Goto(t, "mbCheck") /\ Reset({t})
        BY <1>4, <2>1 DEF FinishClear
      <4>2. pc'[t] = "mbCheck" /\ \A b \in Actors : b # t => pc'[b] = pc[b]
        BY <4>1 DEF Goto, PlaceInv, IInv, TypeOK
      <4>3. /\ \A b \in Actors : b # t => home'[b] = home[b]
            /\ job'[Loop] = job[Loop] /\ victim'[Loop] = victim[Loop]
        BY <4>1 DEF Reset
      <4> QED BY <1>4, <2>1, <4>1, <4>2, <4>3 DEF FinishClear, TakeActive
    <3>2. pc[activeState[1]] # "idle"
      BY <2>1, <3>1 DEF PlaceInv, StatesOK
    <3> QED BY <2>1, <3>1, <3>2, TaskTidy
  <2>2. CASE ~(activeState = home[t] /\ activeTask = None)
    BY <1>4, <2>2, TaskGone, TaskTidy DEF FinishClear
  <2> QED BY <2>1, <2>2
<1> QED BY <1>1, <1>2, <1>3, <1>4 DEF Finishing

(* A task finds no mail, and ends. *)
LEMMA CheckTidy ==
  ASSUME PlaceInv, NEW t \in Turns, MaybeStartCheck(t)
  PROVE  Tidy
<1>1. mailbox = {}
  BY DEF PlaceInv, SoloOK, SoloPcs
<1>2. Return(t) /\ pc[t] = "mbCheck" /\ UNCHANGED <<activeState, activeTask, pending, waiters>>
  BY <1>1 DEF MaybeStartCheck, activeVars, stateVars
<1> QED BY <1>2, TaskGone, TaskTidy, Basics DEF FinPcs, RunPcs

(* A step of the loop that takes no task, drops no approval, and puts input only
   where the active task or the turn it is about to start finds it. *)
LEMMA LoopTidy ==
  ASSUME PlaceInv, \A t \in Turns : pc'[t] = pc[t] /\ home'[t] = home[t],
         UNCHANGED <<activeTask, waiters>>,
         pc[Loop] \notin VictimPcs, pc'[Loop] \notin VictimPcs,
         activeState' = activeState \/ activeTask = None,
         pc'[Loop] \in {"siSettings", "stExtend", "stInstall"} =>
           activeState' # None /\ activeState' = home'[Loop] /\ activeState'[1] = job'[Loop],
         pc'[Loop] \in {"stDrain", "stAttach"} =>
           activeState' = None \/ (activeState' = home'[Loop] /\ activeState'[1] = job'[Loop]),
         \A s \in TurnStates :
           \/ pending'[s] = pending[s]
           \/ s = activeState' /\ activeTask # None
           \/ s = activeState' /\ s = home'[Loop] /\ pc'[Loop] \in {"stDrain", "stAttach", "stExtend", "stInstall"},
         pc[Loop] \in {"stDrain", "stAttach", "stExtend", "stInstall"} /\ activeState # None =>
           /\ activeState' = activeState /\ home'[Loop] = home[Loop]
           /\ pc'[Loop] \in {"stDrain", "stAttach", "stExtend", "stInstall"}
  PROVE  Tidy
<1> USE Basics, PlaceTypes DEF PlaceInv
<1>1. StatesOK'
  <2>1. activeTask' # None => pc'[activeState'[1]] # "idle"
    BY DEF StatesOK
  <2>2. ASSUME NEW u \in Turns, pc'[u] \in FinPcs PROVE pc'[home'[u][1]] # "idle"
    BY <2>2 DEF StatesOK, FinPcs
  <2> QED BY <2>1, <2>2 DEF StatesOK, FinPcs
<1>2. WaitersOK' /\ WaitersKept
  <2>1. ASSUME NEW u \in Turns, NEW s \in TurnStates, u \in waiters[s],
               pc[u] \in ({"idle"} \cup RunPcs) \ {"returned"}
        PROVE  pc[u] = "approval" /\ s = activeState' /\ u = activeTask'
    BY <2>1 DEF WaitersOK, VictimPcs
  <2> QED BY <2>1 DEF WaitersOK, WaitersKept
<1>3. ASSUME QueuesOK PROVE QueuesOK'
  <2> SUFFICES ASSUME NEW s \in TurnStates, pending'[s] # {}
               PROVE  \/ s = activeState' /\ activeTask' # None
                      \/ s = home'[Loop] /\ pc'[Loop] \in VictimPcs
                      \/ /\ s = home'[Loop] /\ s = activeState'
                         /\ pc'[Loop] \in {"stDrain", "stAttach", "stExtend", "stInstall"}
    BY DEF QueuesOK
  <2>1. CASE pending'[s] = pending[s]
    <3>1. s # None
      BY StateTurn
    <3> QED BY <1>3, <2>1, <3>1 DEF QueuesOK
  <2>2. CASE pending'[s] # pending[s]
    BY <2>2
  <2> QED BY <2>1, <2>2
<1> QED BY <1>1, <1>2, <1>3 DEF Tidy

(* The loop is alone while it starts a turn, and its procedure returns to where it
   takes the next op. *)
LEMMA LoopGone ==
  ASSUME PlaceInv, Return(Loop)
  PROVE  /\ pc'[Loop] \in {"ready", "stopping"}
         /\ \A b \in Actors : b # Loop => pc'[b] = pc[b] /\ home'[b] = home[b]
BY Basics DEF Return, Reset, Goto, ReturnPc, PlaceInv, IInv, TypeOK

(* Where the loop is ready for the next op, nothing changes but what the op adds to
   the turn state of the active task. *)
LEMMA ReadyTidy ==
  ASSUME PlaceInv, pc[Loop] \in LoopPcs \ {"siSettings"},
         pc'[Loop] \in LoopPcs \cup {"abTake"}, pc'[Loop] # "siSettings",
         \A t \in Turns : pc'[t] = pc[t] /\ home'[t] = home[t],
         UNCHANGED <<activeState, activeTask, waiters>>,
         \A s \in TurnStates :
           pending'[s] = pending[s] \/ (s = activeState /\ activeTask # None)
  PROVE  Tidy
<1>1. pc[Loop] \notin VictimPcs /\ pc'[Loop] \notin VictimPcs
  BY DEF LoopPcs, VictimPcs
<1>2. pc[Loop] \notin {"stDrain", "stAttach", "stExtend", "stInstall"}
  BY DEF LoopPcs
<1>3. pc'[Loop] \notin {"siSettings", "stDrain", "stAttach", "stExtend", "stInstall"}
  BY DEF LoopPcs
<1> QED BY <1>1, <1>2, <1>3, LoopTidy

(* Steered input goes to the turn state of the active task. *)
LEMMA SteerTidy ==
  ASSUME PlaceInv, NEW u, SteerInput(u)
  PROVE  \A s \in TurnStates :
           pending'[s] = pending[s] \/ (s = activeState /\ activeTask # None)
BY DEF SteerInput, ExtendAndAccept, HasTask, PlaceInv, IInv, TypeOK

(* The answer to an approval is removed with its waiter. *)
LEMMA ExecApprovalTidy ==
  ASSUME PlaceInv, NEW t \in Turns, ExecApproval(t)
  PROVE  Tidy
<1> USE Basics, PlaceTypes DEF activeVars, locals
<1>1. /\ pc[Loop] = "ready" /\ pc'[Loop] = "ready" /\ activeState # None
      /\ \A u \in Turns : u # t => pc'[u] = pc[u]
      /\ pc'[t] = IF pc[t] = "approval" THEN "drain" ELSE pc[t]
      /\ UNCHANGED <<activeState, activeTask, home, job, victim, pending>>
  <2>1. CASE pc[t] = "approval"
    BY <2>1 DEF ExecApproval, LoopReady, Goto, PlaceInv, IInv, TypeOK
  <2>2. CASE pc[t] # "approval"
    BY <2>2 DEF ExecApproval, LoopReady
  <2> QED BY <2>1, <2>2
<1>2. \A s \in TurnStates :
        waiters'[s] = IF s = activeState THEN waiters[s] \ {t} ELSE waiters[s]
  BY DEF ExecApproval, PlaceInv, IInv, TypeOK
<1>3. WaitersOK' /\ WaitersKept
  <2>1. ASSUME NEW u \in Turns, NEW s \in TurnStates, u \in waiters'[s],
               pc'[u] \in ({"idle"} \cup RunPcs) \ {"returned"}
        PROVE  pc'[u] = "approval" /\ s = activeState /\ u = activeTask
    <3>1. u \in waiters[s] /\ pc[u] \in ({"idle"} \cup RunPcs) \ {"returned"}
      BY <1>1, <1>2, <2>1 DEF RunPcs
    <3>2. pc[u] = "approval" /\ s = activeState /\ u = activeTask
      BY <1>1, <3>1 DEF PlaceInv, WaitersOK
    <3>3. u # t
      BY <1>2, <2>1, <3>2
    <3> QED BY <1>1, <3>2, <3>3
  <2> QED BY <1>1, <1>2, <2>1 DEF WaitersOK, WaitersKept
<1>4. StatesOK'
  <2>1. \A u \in Turns : pc[u] # "idle" => pc'[u] # "idle"
    BY <1>1
  <2>2. \A u \in Turns : pc'[u] \in FinPcs => pc[u] \in FinPcs
    BY <1>1 DEF FinPcs
  <2>3. \A u \in Turns : pc[u] \in FinPcs => pc'[home[u][1]] # "idle"
    BY <2>1 DEF PlaceInv, StatesOK, FinPcs
  <2>4. activeTask # None => pc'[activeState[1]] # "idle"
    BY <1>1, <2>1 DEF PlaceInv, StatesOK
  <2> QED BY <1>1, <2>2, <2>3, <2>4 DEF StatesOK, FinPcs, VictimPcs
<1>5. QueuesOK => QueuesOK'
  BY <1>1 DEF QueuesOK
<1> QED BY <1>3, <1>4, <1>5 DEF Tidy

(* The ops of the loop. *)
LEMMA LoopStepTidy ==
  ASSUME Solo, PlaceInv, LoopStep
  PROVE  Tidy
<1> USE Basics DEF activeVars, locals, stateVars
<1>1. ASSUME LoopReady, UNCHANGED <<activeState, activeTask, home, waiters>>,
             UNCHANGED pc \/ \E p \in {"abTake", "siReserve", "spTake", "convStop"} : Goto(Loop, p),
             \A s \in TurnStates :
               pending'[s] = pending[s] \/ (s = activeState /\ activeTask # None)
      PROVE  Tidy
  <2>1. /\ pc[Loop] \in LoopPcs \ {"siSettings"}
        /\ pc'[Loop] \in LoopPcs \cup {"abTake"} /\ pc'[Loop] # "siSettings"
        /\ \A t \in Turns : pc'[t] = pc[t]
    BY <1>1 DEF LoopReady, Goto, LoopPcs, PlaceInv, IInv, TypeOK
  <2> QED BY <1>1, <2>1, ReadyTidy
<1>2. ASSUME NEW u \in Inputs, StartOrSteer(Loop, u) PROVE Tidy
  <2>1. CASE SteerInput(u)
    BY <1>1, <1>2, <2>1, SteerTidy DEF StartOrSteer, LoopReady, SteerInput, ExtendAndAccept
  <2>2. CASE NotSubmitted(u)
    BY <1>1, <1>2, <2>2 DEF StartOrSteer, LoopReady, NotSubmitted
  <2>3. CASE ReplaceWith(Loop, "regular", {u}) /\ UNCHANGED stateVars
    BY <1>1, <1>2, <2>3 DEF StartOrSteer, LoopReady, ReplaceWith
  <2> QED BY <1>2, <2>1, <2>2, <2>3 DEF StartOrSteer
<1>3. ASSUME NEW u \in Inputs, NEW t \in Turns, Steer(u, t) PROVE Tidy
  <2>1. CASE SteerInput(u)
    BY <1>1, <1>3, <2>1, SteerTidy DEF Steer, SteerInput, ExtendAndAccept
  <2>2. CASE NotSubmitted(u)
    BY <1>1, <1>3, <2>2 DEF Steer, NotSubmitted
  <2> QED BY <1>3, <2>1, <2>2 DEF Steer
<1>4. ASSUME NEW u \in Inputs, StartIfIdle(u) PROVE Tidy
  <2>1. CASE NotSubmitted(u)
    BY <1>1, <1>4, <2>1 DEF StartIfIdle, NotSubmitted
  <2>2. CASE ~NotSubmitted(u)
    BY <1>1, <1>4, <2>2 DEF StartIfIdle
  <2> QED BY <2>1, <2>2
<1>5. ASSUME NEW k \in OtherKinds, SpawnStandalone(k) PROVE Tidy
  BY <1>1, <1>5 DEF SpawnStandalone, ReplaceWith
<1>6. CASE Interrupt
  BY <1>1, <1>6 DEF Interrupt
<1>7. CASE Shutdown
  BY <1>1, <1>7 DEF Shutdown
<1>8. CASE SuspendTurn
  BY <1>1, <1>8 DEF SuspendTurn
<1>9. ~RealtimeConversation
  BY DEF RealtimeConversation, Solo
<1> QED BY <1>2, <1>3, <1>4, <1>5, <1>6, <1>7, <1>8, <1>9, ExecApprovalTidy DEF LoopStep, Solo

(* The loop takes the task of the active turn, and keeps the turn state with the
   input and the approvals that wait in it. *)
LEMMA TakeTidy ==
  ASSUME PlaceInv, pc[Loop] \in {"abTake", "spTake"}, HasTask,
         \A t \in Turns : pc'[t] = pc[t] /\ home'[t] = home[t],
         activeState' = None, activeTask' = None, pc'[Loop] = "abWait",
         home'[Loop] = activeState, victim'[Loop] = activeTask,
         UNCHANGED <<waiters, pending>>
  PROVE  Tidy
<1> USE Basics, PlaceTypes DEF PlaceInv
<1>1. activeState # None /\ "abWait" \in VictimPcs /\ pc[Loop] \notin VictimPcs
  BY DEF HasTask, VictimPcs
<1>2. \A t \in Turns : pc[t] \in FinPcs => pc[home[t][1]] # "idle"
  BY DEF StatesOK, FinPcs
<1>3. StatesOK'
  BY <1>1, <1>2 DEF StatesOK, FinPcs
<1>4. WaitersOK' /\ WaitersKept
  BY <1>1 DEF WaitersOK, WaitersKept
<1>5. QueuesOK => QueuesOK'
  BY <1>1 DEF QueuesOK
<1> QED BY <1>3, <1>4, <1>5 DEF Tidy

(* start_if_idle keeps the reservation for its turn or gives it back; a suspension
   takes the task or finds none; the shutdown goes on, ends or fails. *)
LEMMA LoopInternalTidy ==
  ASSUME PlaceInv, LoopInternal
  PROVE  Tidy
<1> USE Basics, PlaceTypes DEF activeVars, locals, stateVars
<1>1. CASE StartIfIdleReserve
  <2>1. CASE RejectJob /\ UNCHANGED activeVars
    <3>1. /\ pc[Loop] = "siReserve" /\ pc'[Loop] \in {"ready", "stopping"}
          /\ \A t \in Turns : pc'[t] = pc[t] /\ home'[t] = home[t]
          /\ UNCHANGED <<activeState, activeTask, waiters, pending>>
      BY <1>1, <2>1, LoopGone DEF StartIfIdleReserve, RejectJob
    <3> QED BY <3>1, ReadyTidy DEF LoopPcs
  <2>2. CASE ~(RejectJob /\ UNCHANGED activeVars)
    <3>1. /\ pc[Loop] = "siReserve" /\ activeState = None
          /\ Reserve(<<job[Loop], "reserved">>) /\ Goto(Loop, "siSettings")
          /\ home' = [home EXCEPT ![Loop] = <<job[Loop], "reserved">>]
          /\ UNCHANGED <<job, waiters, pending>>
      BY <1>1, <2>2 DEF StartIfIdleReserve
    <3>2. job[Loop] \in Turns /\ activeTask = None
      BY <3>1 DEF JobPcs
    <3>3. <<job[Loop], "reserved">> # None
      BY <3>2, StateTurn DEF TurnStates
    <3>4. /\ pc'[Loop] = "siSettings" /\ home'[Loop] = activeState' /\ activeTask' = activeTask
          /\ activeState'[1] = job'[Loop] /\ activeState' # None
          /\ \A t \in Turns : pc'[t] = pc[t] /\ home'[t] = home[t]
      BY <3>1, <3>2, <3>3 DEF Reserve, Goto, PlaceInv, IInv, TypeOK
    <3> QED BY <3>1, <3>2, <3>4, LoopTidy DEF VictimPcs
  <2> QED BY <2>1, <2>2
<1>2. CASE StartIfIdleSettings
  <2>1. /\ pc[Loop] = "siSettings" /\ activeTask = None /\ activeState # None
        /\ activeState = home[Loop] /\ activeState[1] = job[Loop]
    BY <1>2 DEF StartIfIdleSettings, PlaceInv, SoloOK, Sole, AlonePcs, StatesOK
  <2>2. activeTask' = activeTask
    BY <1>2, <2>1 DEF StartIfIdleSettings, ClearReserved, TakeActive
  <2>3. CASE RejectJob /\ UNCHANGED stateVars
    <3>1. /\ pc'[Loop] \in {"ready", "stopping"}
          /\ \A t \in Turns : pc'[t] = pc[t] /\ home'[t] = home[t]
          /\ UNCHANGED <<waiters, pending>>
      BY <2>3, LoopGone DEF RejectJob
    <3> QED BY <2>1, <2>2, <3>1, LoopTidy DEF VictimPcs
  <2>4. CASE ~(RejectJob /\ UNCHANGED stateVars)
    <3>1. /\ pc'[Loop] = "stDrain" /\ \A t \in Turns : pc'[t] = pc[t]
          /\ UNCHANGED <<activeState, home, job, waiters>>
      BY <1>2, <2>4 DEF StartIfIdleSettings, Extend, Goto, PlaceInv, IInv, TypeOK
    <3>2. \A s \in TurnStates : pending'[s] = pending[s] \/ s = activeState
      BY <1>2, <2>1, <2>4 DEF StartIfIdleSettings, Extend, PlaceInv, IInv, TypeOK
    <3> QED BY <2>1, <2>2, <3>1, <3>2, LoopTidy DEF VictimPcs
  <2> QED BY <2>3, <2>4
<1>3. CASE SuspendTake
  <2>1. CASE HasTask /\ Steerable(activeTask)
    <3>1. /\ activeState' = None /\ activeTask' = None /\ pc[Loop] = "spTake"
          /\ pc'[Loop] = "abWait" /\ \A t \in Turns : pc'[t] = pc[t] /\ home'[t] = home[t]
          /\ UNCHANGED <<waiters, pending>>
      BY <1>3, <2>1 DEF SuspendTake, TakeActive, Goto, PlaceInv, IInv, TypeOK
    <3>2. home'[Loop] = activeState /\ victim'[Loop] = activeTask
      BY <1>3, <2>1 DEF SuspendTake, PlaceInv, IInv, TypeOK
    <3> QED BY <2>1, <3>1, <3>2, TakeTidy
  <2>2. CASE ~(HasTask /\ Steerable(activeTask))
    <3>1. /\ pc[Loop] = "spTake" /\ pc'[Loop] = "ready" /\ \A t \in Turns : pc'[t] = pc[t]
          /\ UNCHANGED <<activeState, activeTask, home, waiters, pending>>
      BY <1>3, <2>2 DEF SuspendTake, Goto, PlaceInv, IInv, TypeOK
    <3> QED BY <3>1, ReadyTidy DEF LoopPcs
  <2> QED BY <2>1, <2>2
<1>4. CASE ShutdownComplete
  <2>1. /\ pc[Loop] = "stopping" /\ pc'[Loop] = "stopped" /\ \A t \in Turns : pc'[t] = pc[t]
        /\ UNCHANGED <<activeState, activeTask, home, waiters, pending>>
    BY <1>4 DEF ShutdownComplete, Goto, PlaceInv, IInv, TypeOK
  <2> QED BY <2>1, ReadyTidy DEF LoopPcs
<1>5. CASE ConversationStopped
  <2>1. /\ pc[Loop] = "convStop" /\ pc'[Loop] \in {"ready", "abTake"}
        /\ \A t \in Turns : pc'[t] = pc[t]
        /\ UNCHANGED <<activeState, activeTask, home, waiters, pending>>
    BY <1>5 DEF ConversationStopped, PlaceInv, IInv, TypeOK
  <2> QED BY <2>1, ReadyTidy DEF LoopPcs
<1>6. CASE SuspendFails
  <2>1. /\ pc[Loop] = "stopping" /\ pc'[Loop] = "ready" /\ \A t \in Turns : pc'[t] = pc[t]
        /\ UNCHANGED <<activeState, activeTask, home, waiters, pending>>
    BY <1>6 DEF SuspendFails, Goto, PlaceInv, IInv, TypeOK
  <2> QED BY <2>1, ReadyTidy DEF LoopPcs
<1> QED BY <1>1, <1>2, <1>3, <1>4, <1>5, <1>6 DEF LoopInternal

(* The loop aborts: it takes the task, or drops a reservation in which nothing
   waits. *)
LEMMA AbortTakeTidy ==
  ASSUME PlaceInv, AbortTake(Loop)
  PROVE  Tidy
<1> USE Basics, PlaceTypes DEF activeVars, locals, stateVars
<1>1. pc[Loop] = "abTake" /\ UNCHANGED <<waiters, pending>>
  BY DEF AbortTake
<1>2. CASE HasTask
  <2>1. TakeTask(Loop, reason[Loop])
    BY <1>2 DEF AbortTake
  <2>2. /\ activeState' = None /\ activeTask' = None
        /\ pc'[Loop] = "abWait" /\ \A t \in Turns : pc'[t] = pc[t] /\ home'[t] = home[t]
    BY <2>1 DEF TakeTask, TakeActive, Goto, PlaceInv, IInv, TypeOK
  <2>3. home'[Loop] = activeState /\ victim'[Loop] = activeTask
    BY <2>1 DEF TakeTask, PlaceInv, IInv, TypeOK
  <2> QED BY <1>1, <1>2, <2>2, <2>3, TakeTidy
<1>3. CASE ~HasTask
  <2>1. activeTask = None /\ activeTask' = None /\ activeState' = None
    BY <1>3 DEF AbortTake, TakeActive, HasTask
  <2>2. /\ pc'[Loop] \in {"stDrain", "ready", "stopping"}
        /\ \A t \in Turns : pc'[t] = pc[t] /\ home'[t] = home[t]
    <3>1. CASE reason[Loop] = "Replaced"
      BY <1>3, <3>1 DEF AbortTake, Goto, PlaceInv, IInv, TypeOK
    <3>2. CASE reason[Loop] # "Replaced"
      BY <1>3, <3>2, LoopGone DEF AbortTake
    <3> QED BY <3>1, <3>2
  <2> QED BY <1>1, <2>1, <2>2, LoopTidy DEF VictimPcs
<1> QED BY <1>2, <1>3

(* While the loop aborts no task is active, and only the task it waits for may still
   have an approval pending. *)
LEMMA AbortAlone ==
  ASSUME PlaceInv, pc[Loop] \in VictimPcs
  PROVE  /\ activeTask = None /\ activeState = None
         /\ \A t \in Turns, s \in TurnStates :
              t \in waiters[s] /\ pc[t] \in ({"idle"} \cup RunPcs) \ {"returned"} =>
                pc[Loop] = "abWait" /\ victim[Loop] = t
BY PlaceTypes, Basics DEF PlaceInv, SoloOK, Sole, AlonePcs, StatesOK, WaitersOK

(* The task the loop waits for has ended or is stopped. *)
LEMMA AbortWaitTidy ==
  ASSUME PlaceInv, AbortWait(Loop)
  PROVE  Tidy
<1> USE Basics, PlaceTypes DEF activeVars, stateVars
<1>1. pc[Loop] = "abWait" /\ pc[Loop] \in VictimPcs
  BY DEF AbortWait, VictimPcs
<1>2. PICK v \in Turns : v = victim[Loop]
  BY <1>1
<1>3. /\ pc'[v] \in {"done", "killed"} /\ pc'[Loop] = AfterWait(Loop)
      /\ \A t \in Turns : t # v => pc'[t] = pc[t]
  BY <1>2 DEF AbortWait, Stopped, PlaceInv, IInv, TypeOK
<1>4. pc'[Loop] \in VictimPcs
  BY <1>3 DEF AfterWait, VictimPcs
<1>5. /\ home'[Loop] = home[Loop] /\ \A t \in Turns : t # v => home'[t] = home[t]
      /\ UNCHANGED <<activeState, activeTask, waiters, pending>>
  BY <1>2 DEF AbortWait, Reset
<1>6. StatesOK'
  <2>1. ASSUME NEW u \in Turns, pc'[u] \in FinPcs PROVE pc'[home'[u][1]] # "idle"
    <3>1. u # v /\ pc[u] \in FinPcs
      BY <1>3, <2>1 DEF FinPcs
    <3>2. home[u][1] \in Turns /\ pc[home[u][1]] # "idle"
      BY <3>1 DEF PlaceInv, StatesOK, FinPcs
    <3> QED BY <1>3, <1>5, <3>1, <3>2
  <2> QED BY <1>1, <1>4, <1>5, <2>1, AbortAlone DEF StatesOK, FinPcs, VictimPcs
<1>7. WaitersOK' /\ WaitersKept
  <2>1. ASSUME NEW u \in Turns, NEW s \in TurnStates, u \in waiters[s]
        PROVE  pc'[u] \notin ({"idle"} \cup RunPcs) \ {"returned"}
    BY <1>1, <1>2, <1>3, <2>1, AbortAlone DEF RunPcs
  <2> QED BY <1>5, <2>1 DEF WaitersOK, WaitersKept
<1>8. QueuesOK => QueuesOK'
  BY <1>1, <1>4, <1>5, AbortAlone DEF QueuesOK
<1> QED BY <1>6, <1>7, <1>8 DEF Tidy

(* The marker and the event of an abort. *)
LEMMA AbortReportTidy ==
  ASSUME PlaceInv, AbortMarker(Loop) \/ AbortEvent(Loop)
  PROVE  Tidy
<1> USE Basics, PlaceTypes DEF activeVars, locals, stateVars
<1>1. /\ pc[Loop] \in {"abMarker", "abEvent"} /\ pc'[Loop] \in {"abEvent", "abClear"}
      /\ \A t \in Turns : pc'[t] = pc[t]
      /\ UNCHANGED <<activeState, activeTask, home, waiters, pending>>
  BY DEF AbortMarker, AbortEvent, Goto, PlaceInv, IInv, TypeOK
<1>2. pc[Loop] \in VictimPcs /\ pc[Loop] # "abWait" /\ pc'[Loop] \in VictimPcs
  BY <1>1 DEF VictimPcs
<1>3. StatesOK'
  <2>1. \A t \in Turns : pc[t] \in FinPcs => pc'[home[t][1]] # "idle"
    BY <1>1 DEF PlaceInv, StatesOK, FinPcs
  <2> QED BY <1>1, <1>2, <2>1, AbortAlone DEF StatesOK, FinPcs, VictimPcs
<1>4. WaitersOK' /\ WaitersKept
  BY <1>1, <1>2, AbortAlone DEF WaitersOK, WaitersKept
<1>5. QueuesOK => QueuesOK'
  BY <1>1, <1>2, AbortAlone DEF QueuesOK
<1> QED BY <1>3, <1>4, <1>5 DEF Tidy

(* clear_pending drops no approval that a task waits for: the task was stopped. *)
LEMMA AbortClearTidy ==
  ASSUME PlaceInv, AbortClear(Loop)
  PROVE  Tidy
<1> USE Basics, PlaceTypes DEF activeVars
<1>1. pc[Loop] = "abClear" /\ pc[Loop] \in VictimPcs
  BY DEF AbortClear, VictimPcs
<1>2. /\ pc'[Loop] \in {"mbCheck", "stDrain", "convStop"}
      /\ \A t \in Turns : pc'[t] = pc[t] /\ home'[t] = home[t]
      /\ UNCHANGED <<activeState, activeTask>>
  BY DEF AbortClear, Goto, PlaceInv, IInv, TypeOK
<1>3. \A s \in TurnStates :
        /\ pending'[s] = IF s = home[Loop] THEN {} ELSE pending[s]
        /\ waiters'[s] = IF s = home[Loop] THEN {} ELSE waiters[s]
  BY DEF AbortClear, ClearPending, PlaceInv, IInv, TypeOK
<1>4. StatesOK'
  <2>1. pc'[Loop] \notin VictimPcs
    BY <1>2 DEF VictimPcs
  <2>2. \A t \in Turns : pc[t] \in FinPcs => pc'[home[t][1]] # "idle"
    BY <1>2 DEF PlaceInv, StatesOK, FinPcs
  <2> QED BY <1>1, <1>2, <2>1, <2>2, AbortAlone DEF StatesOK, FinPcs
<1>5. WaitersOK' /\ WaitersKept
  <2>1. ASSUME NEW u \in Turns, NEW s \in TurnStates, u \in waiters[s]
        PROVE  pc[u] \notin ({"idle"} \cup RunPcs) \ {"returned"}
    BY <1>1, <2>1, AbortAlone
  <2>2. "approval" \in ({"idle"} \cup RunPcs) \ {"returned"}
    BY DEF RunPcs
  <2> QED BY <1>2, <1>3, <2>1, <2>2 DEF WaitersOK, WaitersKept
<1>6. QueuesOK => QueuesOK'
  BY <1>1, <1>2, <1>3, AbortAlone DEF QueuesOK
<1> QED BY <1>4, <1>5, <1>6 DEF Tidy

(* The loop looks for pending work, or attaches the turn it starts to the turn state
   it reserved, or to a new one. *)
LEMMA StartTidy ==
  ASSUME PlaceInv,
         MaybeStartCheck(Loop) \/ StartDrain(Loop) \/ StartAttach(Loop) \/ StartExtend(Loop)
  PROVE  Tidy
<1> USE Basics, PlaceTypes DEF activeVars, locals, stateVars
<1>1. CASE MaybeStartCheck(Loop)
  <2>1. /\ pc[Loop] = "mbCheck" /\ Return(Loop)
        /\ UNCHANGED <<activeState, activeTask, waiters, pending>>
    BY <1>1 DEF MaybeStartCheck, PlaceInv, SoloOK, SoloPcs
  <2> QED BY <2>1, LoopGone, LoopTidy DEF VictimPcs
<1>2. CASE StartDrain(Loop)
  <2>1. /\ pc[Loop] = "stDrain" /\ pc'[Loop] = "stAttach" /\ \A t \in Turns : pc'[t] = pc[t]
        /\ UNCHANGED <<activeState, activeTask, home, job, waiters, pending>>
    BY <1>2 DEF StartDrain, Goto, PlaceInv, IInv, TypeOK
  <2>2. activeState = None \/ (activeState = home[Loop] /\ activeState[1] = job[Loop])
    BY <2>1 DEF PlaceInv, StatesOK
  <2> QED BY <2>1, <2>2, LoopTidy DEF VictimPcs
<1>3. CASE StartAttach(Loop)
  <2>1. /\ pc[Loop] = "stAttach" /\ activeTask = None /\ job[Loop] \in Turns
        /\ activeState = None \/ (activeState = home[Loop] /\ activeState[1] = job[Loop])
    BY <1>3 DEF StartAttach, PlaceInv, SoloOK, Sole, AlonePcs, StatesOK, JobPcs
  <2>2. PICK s \in TurnStates :
          /\ s = GetOrInsert(Loop, "attached") /\ s[1] = job[Loop]
          /\ activeState # None => s = activeState
    <3>1. CASE activeState = None
      <4>1. <<job[Loop], "attached">> \in TurnStates
        BY <2>1 DEF TurnStates
      <4> QED BY <3>1, <4>1 DEF GetOrInsert
    <3>2. CASE activeState # None
      BY <2>1, <3>2 DEF GetOrInsert
    <3> QED BY <3>1, <3>2
  <2>3. /\ activeState' = s /\ home'[Loop] = s /\ pc'[Loop] = "stExtend"
        /\ \A t \in Turns : pc'[t] = pc[t] /\ home'[t] = home[t]
        /\ UNCHANGED <<activeTask, job, waiters, pending>>
    BY <1>3, <2>2 DEF StartAttach, Goto, PlaceInv, IInv, TypeOK
  <2>4. s # None
    BY StateTurn
  <2> QED BY <2>1, <2>2, <2>3, <2>4, LoopTidy DEF VictimPcs
<1>4. CASE StartExtend(Loop)
  <2>1. /\ pc[Loop] = "stExtend" /\ activeTask = None /\ activeState # None
        /\ activeState = home[Loop] /\ activeState[1] = job[Loop]
    BY <1>4 DEF StartExtend, PlaceInv, SoloOK, Sole, AlonePcs, StatesOK
  <2>2. /\ pc'[Loop] = "stInstall" /\ \A t \in Turns : pc'[t] = pc[t]
        /\ UNCHANGED <<activeState, activeTask, home, job, waiters>>
    BY <1>4 DEF StartExtend, Extend, Goto, PlaceInv, IInv, TypeOK
  <2>3. \A r \in TurnStates : pending'[r] = pending[r] \/ r = activeState
    BY <1>4, <2>1 DEF StartExtend, Extend, PlaceInv, IInv, TypeOK
  <2> QED BY <2>1, <2>2, <2>3, LoopTidy DEF VictimPcs
<1> QED BY <1>1, <1>2, <1>3, <1>4

(* The task is installed in the turn state prepared for it. *)
LEMMA StartInstallTidy ==
  ASSUME PlaceInv, StartInstall(Loop)
  PROVE  Tidy
<1> USE Basics, PlaceTypes DEF stateVars
<1>1. /\ pc[Loop] = "stInstall" /\ activeTask = None /\ activeState # None
      /\ activeState = home[Loop] /\ activeState[1] = job[Loop]
  BY DEF StartInstall, PlaceInv, SoloOK, Sole, AlonePcs, StatesOK
<1>2. PICK j \in Turns : j = job[Loop] /\ pc[j] = "idle"
  BY <1>1 DEF JobPcs
<1>3. /\ activeTask' = j /\ activeState' = activeState
      /\ pc'[Loop] \in {"ready", "stopping"} /\ pc'[j] = "spawned"
      /\ \A t \in Turns : t # j => pc'[t] = pc[t]
      /\ UNCHANGED <<waiters, pending>>
  BY <1>1, <1>2 DEF StartInstall, GetOrInsert, HasTask, ReturnPc, PlaceInv, IInv, TypeOK
<1>4. \A t \in Turns : home'[t] = home[t]
  BY <1>1 DEF StartInstall, HasTask, Reset
<1>5. pc[Loop] \notin VictimPcs /\ pc'[Loop] \notin VictimPcs
  BY <1>1, <1>3 DEF VictimPcs
<1>6. StatesOK'
  <2>1. ASSUME NEW u \in Turns, pc'[u] \in FinPcs PROVE pc'[home'[u][1]] # "idle"
    <3>1. u # j /\ pc[u] \in FinPcs
      BY <1>3, <2>1 DEF FinPcs
    <3>2. home[u][1] \in Turns /\ pc[home[u][1]] # "idle"
      BY <3>1 DEF PlaceInv, StatesOK, FinPcs
    <3> QED BY <1>3, <1>4, <3>1, <3>2
  <2> QED BY <1>1, <1>2, <1>3, <1>5, <2>1 DEF StatesOK, FinPcs
<1>7. WaitersOK' /\ WaitersKept
  <2>1. ASSUME NEW u \in Turns, NEW s \in TurnStates, u \in waiters[s]
        PROVE  pc'[u] \notin ({"idle"} \cup RunPcs) \ {"returned"}
    <3>1. pc[u] \notin ({"idle"} \cup RunPcs) \ {"returned"}
      BY <1>1, <2>1 DEF PlaceInv, WaitersOK
    <3> QED BY <1>2, <1>3, <3>1
  <2> QED BY <1>3, <2>1 DEF WaitersOK, WaitersKept
<1>8. QueuesOK => QueuesOK'
  BY <1>1, <1>2, <1>3, <1>5 DEF QueuesOK
<1> QED BY <1>6, <1>7, <1>8 DEF Tidy

(* The procedures, which only the loop runs beyond their first check. *)
LEMMA ProcedureTidy ==
  ASSUME PlaceInv, NEW a \in Actors, Procedure(a)
  PROVE  Tidy
<1> USE DEF PlaceInv
<1>1. CASE MaybeStartCheck(a)
  <2>1. a # Guardian /\ a # Realtime
    BY <1>1 DEF MaybeStartCheck, SoloOK, SoloPcs
  <2> QED BY <1>1, <2>1, CheckTidy, StartTidy DEF Actors
<1>2. CASE ~MaybeStartCheck(a)
  <2>1. pc[a] \in AbortPcs \cup {"mbReserve", "mbDrain", "mbExtend", "stDrain", "stAttach",
                                 "stExtend", "stInstall"}
    BY <1>2 DEF Procedure, AbortTake, AbortWait, AbortMarker, AbortEvent, AbortClear,
       MaybeStartReserve, MaybeStartDrain, MaybeStartExtend, StartDrain, StartAttach,
       StartExtend, StartInstall, AbortPcs
  <2>2. a = Loop /\ pc[a] \notin {"mbReserve", "mbDrain", "mbExtend"}
    BY <2>1, OnlyLoop
  <2>3. ~(MaybeStartReserve(a) \/ MaybeStartDrain(a) \/ MaybeStartExtend(a))
    BY <2>2 DEF MaybeStartReserve, MaybeStartDrain, MaybeStartExtend
  <2> QED BY <1>2, <2>2, <2>3, AbortTakeTidy, AbortWaitTidy, AbortReportTidy,
             AbortClearTidy, StartTidy, StartInstallTidy DEF Procedure
<1> QED BY <1>1, <1>2

(* Nothing waits in a turn state before the first op. *)
LEMMA InitPlace == Init => StatesOK /\ WaitersOK /\ QueuesOK
<1> SUFFICES ASSUME Init PROVE StatesOK /\ WaitersOK /\ QueuesOK
  OBVIOUS
<1>1. pc[Loop] = "ready" /\ \A t \in Turns : pc[t] = "idle"
  BY Basics DEF Init
<1> QED BY <1>1 DEF Init, StatesOK, WaitersOK, QueuesOK, VictimPcs

(* Every step keeps the turn states in order; input that is injected may wait in a
   turn state whose task has gone, so that the queues need a session without it. *)
LEMMA NextPlace ==
  ASSUME Solo
  PROVE  PlaceInv /\ [Next]_vars =>
           StatesOK' /\ WaitersOK' /\ WaitersKept /\ (Injections = {} /\ QueuesOK => QueuesOK')
<1> SUFFICES ASSUME PlaceInv, [Next]_vars
             PROVE  /\ StatesOK' /\ WaitersOK' /\ WaitersKept
                    /\ Injections = {} /\ QueuesOK => QueuesOK'
  OBVIOUS
<1>1. ASSUME NEW t \in Turns, Running(t) \/ Finishing(t) PROVE Tidy
  BY <1>1, RunningTidy, FinishingTidy
<1>2. \A t \in Turns : ~GuardianDeny(t)
  BY DEF GuardianDeny, Solo
<1>3. ~GuardianTake /\ ~TransportClosed
  BY DEF GuardianTake, TransportClosed, PlaceInv, SoloOK, SoloPcs
<1>4. ASSUME UNCHANGED <<activeState, activeTask, pc, home, job, victim, waiters>>
      PROVE  StatesOK' /\ WaitersOK' /\ WaitersKept
  BY <1>4 DEF PlaceInv, StatesOK, WaitersOK, WaitersKept
<1>5. ASSUME NEW x \in Injections, InjectNoNewTurn(x)
      PROVE  StatesOK' /\ WaitersOK' /\ WaitersKept
  BY <1>4, <1>5 DEF InjectNoNewTurn, ExtendAndAccept, activeVars, locals, stateVars
<1>6. CASE UNCHANGED vars
  <2>1. QueuesOK => QueuesOK'
    BY <1>6 DEF QueuesOK, vars, activeVars, locals, stateVars
  <2> QED BY <1>4, <1>6, <2>1 DEF vars, activeVars, locals, stateVars
<1>7. CASE Next
  <2>1. CASE \E x \in Injections : InjectNoNewTurn(x)
    BY <1>5, <2>1
  <2>2. CASE ~\E x \in Injections : InjectNoNewTurn(x)
    <3>1. Tidy
      BY <1>1, <1>2, <1>3, <1>7, <2>2, LoopStepTidy, LoopInternalTidy, ProcedureTidy
         DEF Next, Solo
    <3> QED BY <3>1 DEF Tidy
  <2> QED BY <2>1, <2>2
<1> QED BY <1>6, <1>7

(* A session without mail, realtime texts and guardian keeps its turn states in order. *)
LEMMA PlaceHolds ==
  ASSUME Solo
  PROVE  Spec => []PlaceInv
<1>1. Init => PlaceInv
  BY InitInv, InitSolo, InitPlace DEF PlaceInv
<1>2. PlaceInv /\ [Next]_vars => PlaceInv'
  BY NextInv, NextSolo, NextPlace DEF PlaceInv
<1> QED BY <1>1, <1>2, PTL DEF Spec

(* The sender of an approval that a task waits for is not dropped under it: it stays
   in the turn state of the active turn, or in the one the loop keeps while it waits
   for the task it cancelled (tasks/mod.rs, abort_all_tasks and handle_task_abort). *)
THEOREM ApprovalsKept ==
  ASSUME Solo
  PROVE  Spec => ApprovalNotDropped
<1>1. PlaceInv /\ [Next]_vars =>
        [\A t \in Turns :
           pc[t] = "approval" /\ Waiting(t) /\ pc'[t] = "approval" => Waiting(t)']_vars
  <2> SUFFICES ASSUME PlaceInv, [Next]_vars, NEW t \in Turns,
                      pc[t] = "approval", Waiting(t), pc'[t] = "approval"
               PROVE  Waiting(t)'
    OBVIOUS
  <2>1. PICK s \in TurnStates : t \in waiters[s]
    BY DEF Waiting, LiveStates, PlaceInv, IInv, TypeOK
  <2>2. t \in waiters'[s] /\ WaitersOK'
    BY <2>1, NextPlace DEF WaitersKept
  <2>3. s = activeState' \/ s = home'[Loop]
    BY <2>2 DEF WaitersOK, RunPcs
  <2>4. s \in LiveStates'
    BY <2>3, StateTurn, Basics DEF LiveStates
  <2> QED BY <2>2, <2>4 DEF Waiting
<1> QED BY <1>1, PlaceHolds, PTL DEF Spec, ApprovalNotDropped

(* Where nothing is injected from outside, no turn state that everybody has let go of
   still holds input: what the client steered into a turn is drained, recorded when the
   turn finishes, or cleared by the abort that ends it (session/input_queue.rs,
   tasks/mod.rs). *)
THEOREM NothingStranded ==
  ASSUME Solo, Injections = {}
  PROVE  Spec => []NoInputStranded
<1>1. Init => QueuesOK
  BY InitPlace
<1>2. PlaceInv /\ QueuesOK /\ [Next]_vars => QueuesOK'
  BY NextPlace
<1>3. QueuesOK => NoInputStranded
  BY StateTurn, Basics DEF QueuesOK, NoInputStranded, LiveStates
<1> QED BY <1>1, <1>2, <1>3, PlaceHolds, PTL DEF Spec
=============================================================================
