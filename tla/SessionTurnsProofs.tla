------------------------- MODULE SessionTurnsProofs -------------------------
(***************************************************************************)
(* Proofs about SessionTurns, for every number of turns and every set of   *)
(* inputs, mails and injections: the type invariant and ActiveTaskAlive.   *)
(* Both follow from IInv, which every action preserves.  Almost every      *)
(* action moves a single actor: OneActorStep says, once, what such a step  *)
(* has to satisfy, and the lemma of an action checks it for that action.   *)
(***************************************************************************)
EXTENDS SessionTurns, TLAPS

(* A turn is an actor, and None is neither a turn nor a turn state. *)
LEMMA Basics ==
  /\ Turns \subseteq Actors /\ Loop \in Actors /\ Guardian \in Actors
  /\ Loop \notin Turns /\ Guardian \notin Turns /\ Loop # Guardian
  /\ Realtime \in Actors /\ Realtime \notin Turns /\ Realtime # Loop /\ Realtime # Guardian
  /\ Turns \subseteq Nat /\ None \notin Turns /\ None \notin TurnStates
BY ConstantsAssumption DEF Actors, Turns

(* What the locals of an actor must satisfy, and where its task may be. *)
ActorOK(a) ==
  /\ pc[a] \in JobPcs \/ reason[a] = "Replaced" => job[a] # None
  /\ pc[a] \in VictimPcs => victim[a] \in cancelled
  /\ pc[a] \in VictimPcs \cup {"abTake"} => a \notin Turns
  /\ pc[a] \in HomePcs => home[a] # None
  /\ a \in Turns => pc[a] # "idle" /\ (a = activeTask => pc[a] \in RunPcs \cup {"finTake"})

(* Only actor a moves, as far as the invariant looks. *)
OnlyMoves(a) ==
  \A b \in Actors : b # a =>
    /\ pc'[b] = pc[b] /\ job'[b] = job[b] /\ reason'[b] = reason[b]
    /\ victim'[b] = victim[b] /\ home'[b] = home[b]

(* A step of one actor that keeps or drops its job or takes a fresh turn id, and
   keeps the active task, drops it, or drops and cancels it, preserves the
   invariant: only its own locals have to be looked at. *)
LEMMA OneActorStep ==
  ASSUME IInv, TypeOK', NEW a \in Actors,
         a \in Turns => pc[a] # "idle",
         OnlyMoves(a),
         \/ job'[a] = None /\ born' = born
         \/ job'[a] = job[a] /\ born' = born
         \/ job'[a] = born + 1 /\ born' = born + 1,
         \/ cancelled' = cancelled
         \/ activeTask # None /\ activeTask' = None
              /\ cancelled' = cancelled \cup {activeTask},
         activeTask' = None \/ (activeTask' = activeTask /\ activeState' = activeState),
         ActorOK(a)'
  PROVE  IInv'
<1> USE Basics DEF IInv, OnlyMoves
<1>1. ActiveTaskAlive'
  BY DEF ActiveTaskAlive, ActorOK, TypeOK
<1>2. LocalsSet'
  BY DEF LocalsSet, ActorOK
<1>3. JobsFresh'
  <2>1. born \in Nat /\ born' \in Nat
    BY ConstantsAssumption DEF TypeOK
  <2>2. \A b \in Actors : job[b] \in Turns \cup {None} /\ job'[b] \in Turns \cup {None}
    BY DEF TypeOK
  <2>3. \A t \in Turns : pc[t] = "idle" => pc'[t] = "idle"
    OBVIOUS
  <2>4. \A b \in Actors : job[b] # None => job[b] <= born /\ pc[job[b]] = "idle"
    BY DEF JobsFresh
  <2>5. \A t \in Turns : t \in Nat /\ (t > born => pc[t] = "idle")
    BY DEF JobsFresh
  <2>6. \A b \in Actors : job'[b] # None => job'[b] <= born' /\ pc'[job'[b]] = "idle"
    <3> TAKE b \in Actors
    <3>1. CASE job'[b] = job[b]
      <4> HAVE job'[b] # None
      <4>1. job[b] \in Turns /\ job[b] <= born /\ pc[job[b]] = "idle"
        BY <3>1, <2>2, <2>4
      <4>2. born' = born \/ born' = born + 1
        OBVIOUS
      <4>3. job[b] <= born'
        <5>1. \A j, m \in Nat : j <= m => j <= m + 1
          OBVIOUS
        <5> QED BY <4>1, <4>2, <5>1, <2>1, <2>5
      <4> QED BY <3>1, <4>1, <4>3, <2>3
    <3>2. CASE job'[b] = born + 1 /\ born' = born + 1
      <4> HAVE job'[b] # None
      <4>1. born + 1 \in Turns
        BY <3>2, <2>2
      <4>2. pc[born + 1] = "idle"
        BY <4>1, <2>1, <2>5
      <4> QED BY <3>2, <4>1, <4>2, <2>1, <2>3
    <3> QED BY <3>1, <3>2
  <2>7. \A b, c \in Actors : job'[b] # None /\ job'[b] = job'[c] => b = c
    BY <2>1, <2>2, <2>4 DEF JobsFresh
  <2>8. \A t \in Turns : t > born' => pc'[t] = "idle"
    <3>1. born' = born \/ born' = born + 1
      OBVIOUS
    <3> QED BY <3>1, <2>1, <2>3, <2>5
  <2> QED BY <2>6, <2>7, <2>8 DEF JobsFresh
<1>4. CancelledTaken'
  <2>1. \A t \in Turns : pc[t] # "idle" => pc'[t] # "idle"
    BY DEF ActorOK
  <2>2. \A t \in cancelled : t \in Turns /\ pc[t] # "idle" /\ t # activeTask
    BY DEF CancelledTaken, TypeOK
  <2>3. activeTask # None => activeTask \in Turns /\ pc[activeTask] # "idle"
    BY DEF ActiveTaskAlive, TypeOK, RunPcs
  <2> QED BY <2>1, <2>2, <2>3 DEF CancelledTaken
<1> QED BY <1>1, <1>2, <1>3, <1>4

(* The parts of TypeOK, by the group of variables they are about. *)
LocalsType ==
  /\ hand \in [Actors -> SUBSET Items]
  /\ home \in [Actors -> TurnStates \cup {None}]
  /\ job \in [Actors -> Turns \cup {None}]
  /\ victim \in [Actors -> Turns \cup {None}]
  /\ reason \in [Actors -> Reasons \cup {None}]

StatesType ==
  /\ pending \in [TurnStates -> SUBSET Items]
  /\ accepts \in [TurnStates -> BOOLEAN]
  /\ waiters \in [TurnStates -> SUBSET Turns]

(* Locals that go out of scope keep their types. *)
LEMMA ResetType ==
  ASSUME TypeOK, NEW S, Reset(S)
  PROVE  LocalsType'
BY DEF TypeOK, Reset, LocalsType

(* A procedure returns to a program counter of its actor. *)
LEMMA ReturnType ==
  ASSUME TypeOK, NEW a \in Actors, Return(a)
  PROVE  pc' \in [Actors -> Pcs] /\ LocalsType'
<1>1. ReturnPc(a) \in Pcs
  BY DEF ReturnPc, Pcs, LoopPcs, EndPcs
<1>2. pc' \in [Actors -> Pcs]
  BY <1>1 DEF TypeOK, Return, Goto
<1> QED BY <1>2, ResetType DEF Return

(* Items settle into a fate. *)
LEMMA SettleType ==
  ASSUME TypeOK, NEW S, NEW f \in Fates, Settle(S, f)
  PROVE  fate' \in [Items -> Fates]
BY DEF TypeOK, Settle

(* So do the items that are recorded, and those a hook stops. *)
LEMMA RecordType ==
  ASSUME TypeOK, NEW S, NEW stopped, RecordItems(S, stopped)
  PROVE  fate' \in [Items -> Fates]
BY DEF TypeOK, RecordItems, Fates

(* A fresh turn id is a turn. *)
LEMMA NewTurnType ==
  ASSUME TypeOK, NEW k \in Kinds, NEW S \in SUBSET Items, NewTurn(k, S)
  PROVE  /\ born' \in 0..MaxTurns /\ born + 1 \in Turns
         /\ kind' \in [Turns -> Kinds] /\ input' \in [Turns -> SUBSET Items]
         /\ result' \in [Turns -> Results] /\ calls' \in [Turns -> Nat]
BY ConstantsAssumption DEF TypeOK, NewTurn, Turns

(* What get_pending_input hands out is items. *)
LEMMA GetPendingInputType ==
  ASSUME TypeOK, NEW a \in Actors, GetPendingInput(a)
  PROVE  /\ hand' \in [Actors -> SUBSET Items] /\ mailbox' \in SUBSET Mails
         /\ pending' \in [TurnStates -> SUBSET Items]
<1> USE DEF TypeOK, Items
<1>1. CASE activeState = None
  BY <1>1 DEF GetPendingInput
<1>2. CASE activeState # None /\ accepts[activeState]
  <2>1. activeState \in TurnStates
    BY <1>2
  <2> QED BY <1>2, <2>1 DEF GetPendingInput
<1>3. CASE activeState # None /\ ~accepts[activeState]
  BY <1>3 DEF GetPendingInput
<1> QED BY <1>1, <1>2, <1>3

(* The aborter that takes a task knows its turn and its turn state. *)
LEMMA TakeTaskType ==
  ASSUME TypeOK, ActiveTaskAlive, NEW a \in Actors, NEW why \in Reasons \cup {None},
         TakeTask(a, why), activeTask # None
  PROVE  /\ activeState' = None /\ activeTask' = None /\ pc' \in [Actors -> Pcs]
         /\ LocalsType' /\ cancelled' \in SUBSET Turns /\ status' \in Statuses
<1> USE DEF TypeOK, TakeTask, TakeActive, Goto
<1>1. activeState \in TurnStates /\ activeTask \in Turns
  BY DEF ActiveTaskAlive
<1>2. pc' \in [Actors -> Pcs]
  BY DEF Pcs, AbortPcs
<1>3. LocalsType'
  BY <1>1 DEF LocalsType
<1>4. cancelled' \in SUBSET Turns /\ status' \in Statuses
  BY <1>1 DEF Statuses
<1> QED BY <1>2, <1>3, <1>4

(* Input goes into a turn state. *)
LEMMA ExtendAndAcceptType ==
  ASSUME TypeOK, NEW s \in TurnStates, NEW S \in SUBSET Items, ExtendAndAccept(s, S)
  PROVE  StatesType'
BY DEF TypeOK, ExtendAndAccept, StatesType

(* A steer or a rejection changes a turn state and the fate of its input only. *)
LEMMA SteerType ==
  ASSUME TypeOK, ActiveTaskAlive, NEW u \in UserItems, SteerInput(u) \/ NotSubmitted(u)
  PROVE  /\ StatesType' /\ fate' \in [Items -> Fates]
         /\ UNCHANGED <<pc, job, reason, turnVars, born>>
<1>1. CASE SteerInput(u)
  <2>1. activeState \in TurnStates
    BY <1>1 DEF SteerInput, HasTask, ActiveTaskAlive, TypeOK
  <2>2. StatesType'
    BY <1>1, <2>1, ExtendAndAcceptType DEF SteerInput, Items
  <2> QED BY <1>1, <2>2, SettleType DEF SteerInput, Fates
<1>2. CASE NotSubmitted(u)
  BY <1>2, SettleType DEF NotSubmitted, Fates, TypeOK, StatesType, stateVars
<1> QED BY <1>1, <1>2

(* A step that moves no actor preserves the invariant if it preserves the types. *)
LEMMA StillStep ==
  ASSUME IInv, TypeOK',
         UNCHANGED <<activeState, activeTask, pc, job, reason, victim, home, cancelled, born>>
  PROVE  IInv'
BY DEF IInv, ActiveTaskAlive, LocalsSet, JobsFresh, CancelledTaken

(* Where the locals of actor a are after Return(a). *)
LEMMA ReturnOK ==
  ASSUME TypeOK, NEW a \in Actors, Return(a), a \in Turns => activeTask' # a
  PROVE  ActorOK(a)' /\ OnlyMoves(a) /\ job'[a] = None
<1>1. pc'[a] \in {"done", "stopping", "ready"} /\ (a \in Turns => pc'[a] = "done")
  BY Basics DEF TypeOK, Return, ReturnPc, Goto
<1>2. reason'[a] = None /\ job'[a] = None /\ None # "Replaced"
  BY ConstantsAssumption DEF TypeOK, Return, Reset, Reasons
<1>3. ActorOK(a)'
  BY <1>1, <1>2 DEF ActorOK, JobPcs, VictimPcs, HomePcs
<1>4. OnlyMoves(a)
  BY DEF OnlyMoves, Return, Reset, Goto, TypeOK
<1> QED BY <1>2, <1>3, <1>4

(* Where they are after the task of another actor's turn is taken. *)
LEMMA TakeTaskOK ==
  ASSUME TypeOK, ActiveTaskAlive, NEW a \in Actors, NEW why, TakeTask(a, why),
         activeTask # None, a \notin Turns, why = "Replaced" => job[a] # None
  PROVE  ActorOK(a)' /\ OnlyMoves(a) /\ job'[a] = job[a]
<1> USE Basics DEF TypeOK, TakeTask, TakeActive, Goto
<1>1. ActorOK(a)'
  BY DEF ActorOK, JobPcs, VictimPcs, HomePcs, ActiveTaskAlive
<1>2. OnlyMoves(a)
  BY DEF OnlyMoves
<1> QED BY <1>1, <1>2

(* An actor is about to abort what runs and then start a fresh turn. *)
LEMMA ReplaceWithInv ==
  ASSUME IInv, NEW a \in Actors, a \notin Turns, pc[a] = "ready",
         NEW k \in Kinds, NEW S \in SUBSET Items, ReplaceWith(a, k, S),
         fate' \in [Items -> Fates],
         UNCHANGED <<activeVars, hand, home, victim, stateVars, mailbox, cancelled, status,
                     closing, interrupts, log>>
  PROVE  IInv'
<1> USE Basics DEF IInv, ReplaceWith, Goto, activeVars, stateVars
<1>1. NewTurn(k, S) /\ born + 1 \in Turns /\ born' = born + 1 /\ born + 1 # None
  BY NewTurnType DEF NewTurn
<1>2. TypeOK'
  <2>1. pc' \in [Actors -> Pcs]
    BY DEF TypeOK, Pcs, AbortPcs
  <2>2. job' \in [Actors -> Turns \cup {None}] /\ reason' \in [Actors -> Reasons \cup {None}]
    BY <1>1 DEF TypeOK, Reasons
  <2> QED BY <1>1, <2>1, <2>2, NewTurnType DEF TypeOK
<1>3. ActorOK(a)'
  BY <1>1 DEF ActorOK, TypeOK, JobPcs, VictimPcs, HomePcs
<1>4. OnlyMoves(a) /\ job'[a] = born + 1
  BY DEF OnlyMoves, TypeOK
<1> QED BY <1>1, <1>2, <1>3, <1>4, OneActorStep

(* start_if_idle gives up its turn. *)
LEMMA RejectJobInv ==
  ASSUME IInv, RejectJob, pc[Loop] \in {"siReserve", "siSettings"},
         UNCHANGED activeVars \/ TakeActive,
         UNCHANGED <<kind, result, calls, stateVars, mailbox, others>>
  PROVE  IInv'
<1> USE Basics DEF IInv, RejectJob, TakeActive, activeVars, stateVars, others
<1>1. job[Loop] \in Turns
  BY DEF LocalsSet, JobPcs, TypeOK
<1>2. TypeOK'
  <2>1. fate' \in [Items -> Fates]
    BY SettleType DEF Fates
  <2>2. input' \in [Turns -> SUBSET Items]
    BY <1>1 DEF TypeOK
  <2>3. pc' \in [Actors -> Pcs] /\ LocalsType'
    BY ReturnType
  <2> QED BY <2>1, <2>2, <2>3 DEF TypeOK, LocalsType
<1>3. ActorOK(Loop)' /\ OnlyMoves(Loop) /\ job'[Loop] = None
  BY ReturnOK
<1> QED BY <1>2, <1>3, OneActorStep

(* A user input, of the loop or of the realtime conversation, steers the active
   turn, is rejected, or replaces what runs. *)
LEMMA StartOrSteerInv ==
  ASSUME IInv, NEW a \in Actors, a \notin Turns, NEW u \in UserItems, StartOrSteer(a, u)
  PROVE  IInv'
<1> USE DEF IInv
<1>1. CASE SteerInput(u) \/ NotSubmitted(u)
  <2>1. TypeOK'
    BY <1>1, SteerType DEF StartOrSteer, TypeOK, StatesType, activeVars, turnVars
  <2> QED BY <1>1, <2>1, SteerType, StillStep DEF StartOrSteer, activeVars
<1>2. CASE ReplaceWith(a, "regular", {u}) /\ Settle({u}, "live") /\ UNCHANGED stateVars
  <2>1. fate' \in [Items -> Fates] /\ {u} \in SUBSET Items /\ "regular" \in Kinds
    BY <1>2, SettleType DEF Fates, Items, Kinds
  <2> QED BY <1>2, <2>1, ReplaceWithInv DEF StartOrSteer
<1> QED BY <1>1, <1>2 DEF StartOrSteer

(* A steer moves no actor. *)
LEMMA SteerInv ==
  ASSUME IInv, NEW u \in Inputs, NEW t \in Turns, Steer(u, t)
  PROVE  IInv'
<1> USE DEF IInv
<1>1. StatesType' /\ fate' \in [Items -> Fates] /\ UNCHANGED <<pc, job, reason, turnVars, born>>
  BY SteerType DEF Steer, UserItems
<1>2. TypeOK'
  BY <1>1 DEF Steer, TypeOK, StatesType, activeVars, turnVars
<1> QED BY <1>1, <1>2, StillStep DEF Steer, activeVars

(* start_if_idle allocates the turn it may start. *)
LEMMA StartIfIdleInv ==
  ASSUME IInv, NEW u \in Inputs, StartIfIdle(u)
  PROVE  IInv'
<1> USE Basics DEF IInv
<1>1. CASE NotSubmitted(u)
  <2>1. TypeOK'
    BY <1>1, SteerType DEF StartIfIdle, TypeOK, StatesType, activeVars, turnVars, UserItems
  <2> QED BY <1>1, <2>1, SteerType, StillStep DEF StartIfIdle, activeVars, UserItems
<1>2. CASE ~NotSubmitted(u)
  <2> USE <1>2 DEF StartIfIdle, Goto, LoopReady, activeVars, stateVars
  <2>1. {u} \in SUBSET Items /\ "regular" \in Kinds /\ fate' \in [Items -> Fates]
    BY SettleType DEF Items, UserItems, Kinds, Fates
  <2>2. /\ NewTurn("regular", {u}) /\ born + 1 \in Turns /\ born' = born + 1
        /\ born + 1 # None
    BY <2>1, NewTurnType DEF NewTurn
  <2>3. TypeOK'
    <3>1. pc' \in [Actors -> Pcs]
      BY DEF TypeOK, Pcs, LoopPcs
    <3>2. job' \in [Actors -> Turns \cup {None}]
      BY <2>2 DEF TypeOK
    <3> QED BY <2>1, <2>2, <3>1, <3>2, NewTurnType DEF TypeOK
  <2>4. ActorOK(Loop)'
    BY <2>2 DEF ActorOK, TypeOK, JobPcs, VictimPcs, HomePcs
  <2>5. OnlyMoves(Loop) /\ job'[Loop] = born + 1
    BY DEF OnlyMoves, TypeOK
  <2> QED BY <2>2, <2>3, <2>4, <2>5, OneActorStep
<1> QED BY <1>1, <1>2

(* It reserves the idle session or gives its turn up. *)
LEMMA StartIfIdleReserveInv ==
  ASSUME IInv, StartIfIdleReserve
  PROVE  IInv'
<1> USE Basics DEF IInv, StartIfIdleReserve, activeVars, stateVars, others
<1>1. CASE activeState # None
  BY <1>1, RejectJobInv
<1>2. CASE activeState = None
  <2> USE <1>2 DEF Reserve, Goto
  <2>1. job[Loop] \in Turns /\ <<job[Loop], "reserved">> \in TurnStates
    BY DEF LocalsSet, JobPcs, TypeOK, TurnStates
  <2>2. TypeOK'
    <3>1. pc' \in [Actors -> Pcs]
      BY DEF TypeOK, Pcs, LoopPcs
    <3>2. home' \in [Actors -> TurnStates \cup {None}]
      BY <2>1 DEF TypeOK
    <3> QED BY <2>1, <3>1, <3>2 DEF TypeOK
  <2>3. ActorOK(Loop)'
    BY <2>1 DEF ActorOK, TypeOK, LocalsSet, JobPcs, VictimPcs, HomePcs
  <2>4. OnlyMoves(Loop)
    BY DEF OnlyMoves, TypeOK
  <2> QED BY <2>2, <2>3, <2>4, OneActorStep
<1> QED BY <1>1, <1>2

(* It gives the reservation back or goes on to start_task. *)
LEMMA StartIfIdleSettingsInv ==
  ASSUME IInv, StartIfIdleSettings
  PROVE  IInv'
<1> USE Basics DEF IInv, StartIfIdleSettings, activeVars, stateVars, others
<1>1. CASE RejectJob /\ ClearReserved(home[Loop]) /\ UNCHANGED stateVars
  BY <1>1, RejectJobInv DEF ClearReserved
<1>2. CASE ~(RejectJob /\ ClearReserved(home[Loop]) /\ UNCHANGED stateVars)
  <2> USE <1>2 DEF Goto, locals
  <2>1. job[Loop] \in Turns /\ home[Loop] \in TurnStates
    BY DEF LocalsSet, JobPcs, HomePcs, TypeOK
  <2>2. pc' = [pc EXCEPT ![Loop] = "stDrain"] /\ UNCHANGED <<activeVars, locals, fate>>
    OBVIOUS
  <2>3. input' \in [Turns -> SUBSET Items] /\ StatesType'
    <3>1. CASE UNCHANGED <<input, stateVars>>
      BY <3>1 DEF TypeOK, StatesType
    <3>2. CASE /\ Extend(home[Loop], input[job[Loop]])
               /\ input' = [input EXCEPT ![job[Loop]] = {}]
      <4>1. input[job[Loop]] \in SUBSET Items
        BY <2>1 DEF TypeOK
      <4> QED BY <2>1, <3>2, <4>1 DEF Extend, TypeOK, StatesType
    <3> QED BY <3>1, <3>2
  <2>4. TypeOK'
    BY <2>2, <2>3 DEF TypeOK, StatesType, Pcs, StartPcs
  <2>5. ActorOK(Loop)'
    BY <2>1, <2>2 DEF ActorOK, TypeOK, LocalsSet, JobPcs, VictimPcs, HomePcs
  <2>6. OnlyMoves(Loop)
    BY <2>2 DEF OnlyMoves, TypeOK
  <2> QED BY <2>2, <2>4, <2>5, <2>6, OneActorStep
<1> QED BY <1>1, <1>2

(* Mail is queued, and trigger mail looks for an idle session. *)
LEMMA InterAgentCommunicationInv ==
  ASSUME IInv, NEW m \in Mails, InterAgentCommunication(m)
  PROVE  IInv'
<1> USE Basics DEF IInv, InterAgentCommunication, LoopReady, Goto, activeVars, locals,
     turnVars, stateVars, others
<1>1. fate' \in [Items -> Fates]
  BY SettleType DEF Fates
<1>2. pc' = [pc EXCEPT ![Loop] = "mbCheck"] \/ pc' = pc
  OBVIOUS
<1>3. pc' \in [Actors -> Pcs]
  BY <1>2 DEF TypeOK, Pcs, StartPcs
<1>4. TypeOK'
  BY <1>1, <1>3 DEF TypeOK
<1>5. ActorOK(Loop)'
  BY <1>2 DEF ActorOK, TypeOK, LocalsSet, JobPcs, VictimPcs, HomePcs
<1>6. OnlyMoves(Loop)
  BY <1>2 DEF OnlyMoves, TypeOK
<1> QED BY <1>4, <1>5, <1>6, OneActorStep

(* An interrupt goes to abort_all_tasks. *)
LEMMA InterruptInv ==
  ASSUME IInv, Interrupt
  PROVE  IInv'
<1> USE Basics DEF IInv, Interrupt, LoopReady, Goto, activeVars, locals, turnVars,
     stateVars, others
<1>1. TypeOK'
  BY ConstantsAssumption DEF TypeOK, Pcs, RunPcs, FinishPcs, AbortPcs, StartPcs, LoopPcs,
     EndPcs, Settle, Fates, Reasons, Statuses, Marks, Kinds, Results, Items, TurnStates,
     LocalsSet, JobPcs, VictimPcs, HomePcs
<1>2. ActorOK(Loop)'
  BY <1>1 DEF ActorOK, LocalsSet, ActiveTaskAlive, CancelledTaken, TypeOK, JobPcs, VictimPcs,
     HomePcs, RunPcs
<1>3. OnlyMoves(Loop)
  BY DEF OnlyMoves, TypeOK
<1> QED BY <1>1, <1>2, <1>3, OneActorStep DEF TypeOK, ActiveTaskAlive, RunPcs

(* A standalone task replaces what runs. *)
LEMMA SpawnStandaloneInv ==
  ASSUME IInv, NEW k \in OtherKinds, SpawnStandalone(k)
  PROVE  IInv'
<1>1. k \in Kinds /\ fate' \in [Items -> Fates]
  BY ConstantsAssumption DEF IInv, SpawnStandalone, TypeOK
<1> QED BY <1>1, Basics, ReplaceWithInv DEF SpawnStandalone, LoopReady

(* An approval moves the task that waits for it, if any does. *)
LEMMA ExecApprovalInv ==
  ASSUME IInv, NEW t \in Turns, ExecApproval(t)
  PROVE  IInv'
<1> USE Basics DEF IInv, ExecApproval, Goto, activeVars, locals, turnVars, stateVars, others
<1>1. activeState \in TurnStates
  BY DEF TypeOK
<1>2. waiters' \in [TurnStates -> SUBSET Turns]
  BY <1>1 DEF TypeOK
<1>3. pc' = [pc EXCEPT ![t] = "drain"] \/ pc' = pc
  OBVIOUS
<1>4. pc' \in [Actors -> Pcs]
  BY <1>3 DEF TypeOK, Pcs, RunPcs
<1>5. TypeOK'
  BY <1>2, <1>4 DEF TypeOK
<1>6. CASE pc[t] = "approval"
  <2>1. ActorOK(t)'
    BY <1>6 DEF ActorOK, TypeOK, LocalsSet, JobPcs, VictimPcs, HomePcs, RunPcs
  <2>2. OnlyMoves(t)
    BY <1>3 DEF OnlyMoves, TypeOK
  <2> QED BY <1>5, <1>6, <2>1, <2>2, OneActorStep
<1>7. CASE pc[t] # "approval"
  BY <1>5, <1>7, StillStep
<1> QED BY <1>6, <1>7

(* RealtimeConversation preserves the invariant. *)
LEMMA RealtimeConversationInv ==
  ASSUME IInv, RealtimeConversation
  PROVE  IInv'
<1> USE Basics DEF IInv, RealtimeConversation, LoopReady, Goto, activeVars, locals, turnVars,
     stateVars, others
<1>1. TypeOK'
  BY ConstantsAssumption DEF TypeOK, Pcs, RunPcs, FinishPcs, AbortPcs, StartPcs, LoopPcs,
     EndPcs, Settle, Fates, Reasons, Statuses, Marks, Kinds, Results, Items, TurnStates,
     Closings, LocalsSet, JobPcs, VictimPcs, HomePcs
<1>2. ActorOK(Loop)'
  BY <1>1 DEF ActorOK, LocalsSet, ActiveTaskAlive, CancelledTaken, TypeOK, JobPcs, VictimPcs,
     HomePcs, RunPcs
<1>3. OnlyMoves(Loop)
  BY DEF OnlyMoves, TypeOK
<1> QED BY <1>1, <1>2, <1>3, OneActorStep DEF TypeOK, ActiveTaskAlive, RunPcs

(* Shutdown preserves the invariant. *)
LEMMA ShutdownInv ==
  ASSUME IInv, Shutdown
  PROVE  IInv'
<1> USE Basics DEF IInv, Shutdown, LoopReady, Goto, activeVars, locals, turnVars,
     stateVars, others
<1>1. TypeOK'
  BY ConstantsAssumption DEF TypeOK, Pcs, RunPcs, FinishPcs, AbortPcs, StartPcs, LoopPcs,
     EndPcs, Settle, Fates, Reasons, Statuses, Marks, Kinds, Results, Items, TurnStates,
     Closings, LocalsSet, JobPcs, VictimPcs, HomePcs
<1>2. ActorOK(Loop)'
  BY <1>1 DEF ActorOK, LocalsSet, ActiveTaskAlive, CancelledTaken, TypeOK, JobPcs, VictimPcs,
     HomePcs, RunPcs
<1>3. OnlyMoves(Loop)
  BY DEF OnlyMoves, TypeOK
<1> QED BY <1>1, <1>2, <1>3, OneActorStep DEF TypeOK, ActiveTaskAlive, RunPcs

(* The conversation has ended: the loop and the fanout task move, no task does. *)
LEMMA ConversationStoppedInv ==
  ASSUME IInv, ConversationStopped
  PROVE  IInv'
<1> USE Basics DEF IInv, ConversationStopped, activeVars, turnVars, stateVars, others
<1>1. PICK p \in {"ready", "abTake"}, q \in {"idle", "ready"} :
        pc' = [pc EXCEPT ![Loop] = p, ![Realtime] = q]
  <2>1. CASE closing = "no"
    BY <2>1
  <2>2. CASE closing # "no"
    BY <2>2
  <2> QED BY <2>1, <2>2
<1>2. /\ pc'[Loop] = p /\ pc'[Realtime] = q
      /\ \A b \in Actors : b # Loop /\ b # Realtime => pc'[b] = pc[b]
  BY <1>1 DEF TypeOK
<1>3. reason' = reason \/ reason' = [reason EXCEPT ![Loop] = "Interrupted"]
  OBVIOUS
<1>4. \A b \in Actors : reason'[b] = "Replaced" => reason[b] = "Replaced"
  BY <1>3 DEF TypeOK
<1>5. TypeOK'
  <2>1. pc' \in [Actors -> Pcs]
    BY <1>1 DEF TypeOK, Pcs, AbortPcs, LoopPcs, EndPcs
  <2>2. reason' \in [Actors -> Reasons \cup {None}]
    BY <1>3 DEF TypeOK, Reasons
  <2> QED BY <2>1, <2>2 DEF TypeOK
<1>6. \A t \in Turns : pc'[t] = pc[t]
  BY <1>2
<1>7. ActiveTaskAlive' /\ CancelledTaken'
  BY <1>6 DEF ActiveTaskAlive, CancelledTaken, TypeOK
<1>8. JobsFresh'
  BY <1>6 DEF JobsFresh, TypeOK
<1>9. LocalsSet'
  <2> SUFFICES ASSUME NEW b \in Actors
               PROVE  /\ pc'[b] \in JobPcs \/ reason'[b] = "Replaced" => job'[b] # None
                      /\ pc'[b] \in VictimPcs => victim'[b] \in cancelled'
                      /\ pc'[b] \in VictimPcs \cup {"abTake"} => b \notin Turns
                      /\ pc'[b] \in HomePcs => home'[b] # None
    BY DEF LocalsSet
  <2>1. CASE b \in {Loop, Realtime}
    BY <1>2, <1>4, <2>1 DEF LocalsSet, JobPcs, VictimPcs, HomePcs
  <2>2. CASE b \notin {Loop, Realtime}
    BY <1>2, <1>4, <2>2 DEF LocalsSet
  <2> QED BY <2>1, <2>2
<1> QED BY <1>5, <1>7, <1>8, <1>9

(* TransportClosed preserves the invariant. *)
LEMMA TransportClosedInv ==
  ASSUME IInv, TransportClosed
  PROVE  IInv'
<1> USE Basics DEF IInv, TransportClosed, Goto, activeVars, locals, turnVars,
     stateVars, others
<1>1. TypeOK'
  BY ConstantsAssumption DEF TypeOK, Pcs, RunPcs, FinishPcs, AbortPcs, StartPcs, LoopPcs,
     EndPcs, Settle, Fates, Reasons, Statuses, Marks, Kinds, Results, Items, TurnStates,
     Closings, LocalsSet, JobPcs, VictimPcs, HomePcs
<1>2. ActorOK(Realtime)'
  BY <1>1 DEF ActorOK, LocalsSet, ActiveTaskAlive, CancelledTaken, TypeOK, JobPcs, VictimPcs,
     HomePcs, RunPcs
<1>3. OnlyMoves(Realtime)
  BY DEF OnlyMoves, TypeOK
<1> QED BY <1>1, <1>2, <1>3, OneActorStep DEF TypeOK, ActiveTaskAlive, RunPcs

(* ShutdownComplete preserves the invariant. *)
LEMMA ShutdownCompleteInv ==
  ASSUME IInv, ShutdownComplete
  PROVE  IInv'
<1> USE Basics DEF IInv, ShutdownComplete, Goto, activeVars, locals, turnVars,
     stateVars, others
<1>1. TypeOK'
  BY ConstantsAssumption DEF TypeOK, Pcs, RunPcs, FinishPcs, AbortPcs, StartPcs, LoopPcs,
     EndPcs, Settle, Fates, Reasons, Statuses, Marks, Kinds, Results, Items, TurnStates,
     Closings, LocalsSet, JobPcs, VictimPcs, HomePcs
<1>2. ActorOK(Loop)'
  BY <1>1 DEF ActorOK, LocalsSet, ActiveTaskAlive, CancelledTaken, TypeOK, JobPcs, VictimPcs,
     HomePcs, RunPcs
<1>3. OnlyMoves(Loop)
  BY DEF OnlyMoves, TypeOK
<1> QED BY <1>1, <1>2, <1>3, OneActorStep DEF TypeOK, ActiveTaskAlive, RunPcs

(* SuspendFails preserves the invariant. *)
LEMMA SuspendFailsInv ==
  ASSUME IInv, SuspendFails
  PROVE  IInv'
<1> USE Basics DEF IInv, SuspendFails, Goto, activeVars, locals, turnVars,
     stateVars, others
<1>1. TypeOK'
  BY ConstantsAssumption DEF TypeOK, Pcs, RunPcs, FinishPcs, AbortPcs, StartPcs, LoopPcs,
     EndPcs, Settle, Fates, Reasons, Statuses, Marks, Kinds, Results, Items, TurnStates,
     Closings, LocalsSet, JobPcs, VictimPcs, HomePcs
<1>2. ActorOK(Loop)'
  BY <1>1 DEF ActorOK, LocalsSet, ActiveTaskAlive, CancelledTaken, TypeOK, JobPcs, VictimPcs,
     HomePcs, RunPcs
<1>3. OnlyMoves(Loop)
  BY DEF OnlyMoves, TypeOK
<1> QED BY <1>1, <1>2, <1>3, OneActorStep DEF TypeOK, ActiveTaskAlive, RunPcs

(* SuspendTurn preserves the invariant. *)
LEMMA SuspendTurnInv ==
  ASSUME IInv, SuspendTurn
  PROVE  IInv'
<1> USE Basics DEF IInv, SuspendTurn, LoopReady, Goto, activeVars, locals, turnVars,
     stateVars, others
<1>1. TypeOK'
  BY ConstantsAssumption DEF TypeOK, Pcs, RunPcs, FinishPcs, AbortPcs, StartPcs, LoopPcs,
     EndPcs, Settle, Fates, Reasons, Statuses, Marks, Kinds, Results, Items, TurnStates,
     LocalsSet, JobPcs, VictimPcs, HomePcs
<1>2. ActorOK(Loop)'
  BY <1>1 DEF ActorOK, LocalsSet, ActiveTaskAlive, CancelledTaken, TypeOK, JobPcs, VictimPcs,
     HomePcs, RunPcs
<1>3. OnlyMoves(Loop)
  BY DEF OnlyMoves, TypeOK
<1> QED BY <1>1, <1>2, <1>3, OneActorStep DEF TypeOK, ActiveTaskAlive, RunPcs

(* A suspension takes and cancels the active task. *)
LEMMA SuspendTakeInv ==
  ASSUME IInv, SuspendTake
  PROVE  IInv'
<1> USE Basics DEF IInv, SuspendTake, HasTask, TakeActive, Goto, activeVars, turnVars,
     stateVars
<1>1. CASE HasTask /\ Steerable(activeTask)
  <2> USE <1>1
  <2>1. activeState \in TurnStates /\ activeTask \in Turns
    BY DEF ActiveTaskAlive, TypeOK
  <2>2. TypeOK'
    <3>1. pc' \in [Actors -> Pcs]
      BY DEF TypeOK, Pcs, AbortPcs
    <3>2. log' \in [Turns -> SUBSET Marks]
      BY <2>1 DEF TypeOK, Mark, Marks
    <3>3. LocalsType'
      BY <2>1 DEF TypeOK, LocalsType, Reasons
    <3>4. cancelled' = cancelled \cup {activeTask}
      OBVIOUS
    <3>5. cancelled' \in SUBSET Turns
      BY <2>1, <3>4 DEF TypeOK
    <3> QED BY <3>1, <3>2, <3>3, <3>5 DEF TypeOK, LocalsType
  <2>3. ActorOK(Loop)'
    BY <2>1 DEF ActorOK, TypeOK, LocalsSet, JobPcs, VictimPcs, HomePcs
  <2>4. OnlyMoves(Loop)
    <3>1. \A b \in Actors : b # Loop =>
            pc'[b] = pc[b] /\ home'[b] = home[b] /\ victim'[b] = victim[b] /\ reason'[b] = reason[b]
      BY DEF TypeOK
    <3>2. job' = job
      OBVIOUS
    <3> QED BY <3>1, <3>2 DEF OnlyMoves
  <2> QED BY <2>2, <2>3, <2>4, OneActorStep
<1>2. CASE ~(HasTask /\ Steerable(activeTask))
  <2> USE <1>2
  <2>1. TypeOK'
    BY DEF TypeOK, Pcs, LoopPcs
  <2>2. ActorOK(Loop)'
    BY DEF ActorOK, TypeOK, LocalsSet, JobPcs, VictimPcs, HomePcs
  <2>3. OnlyMoves(Loop)
    BY DEF OnlyMoves, TypeOK
  <2> QED BY <2>1, <2>2, <2>3, OneActorStep
<1> QED BY <1>1, <1>2

(* An abort takes and cancels the active task, or drops a reservation. *)
LEMMA AbortTakeInv ==
  ASSUME IInv, NEW a \in Actors, AbortTake(a)
  PROVE  IInv'
<1> USE Basics DEF IInv, AbortTake, activeVars, turnVars, stateVars
<1>1. (reason[a] = "Replaced" => job[a] # None) /\ reason[a] \in Reasons \cup {None}
  BY DEF LocalsSet, TypeOK
<1>2. a \notin Turns
  BY DEF LocalsSet
<1>3. CASE activeTask # None /\ TakeTask(a, reason[a])
  <2>1. /\ activeState' = None /\ activeTask' = None /\ pc' \in [Actors -> Pcs]
        /\ LocalsType' /\ cancelled' \in SUBSET Turns /\ status' \in Statuses
    BY <1>1, <1>3, TakeTaskType
  <2>2. TypeOK'
    BY <2>1 DEF TypeOK, LocalsType
  <2>3. ActorOK(a)' /\ OnlyMoves(a) /\ job'[a] = job[a]
    BY <1>1, <1>2, <1>3, TakeTaskOK
  <2>4. cancelled' = cancelled \cup {activeTask}
    BY <1>3 DEF TakeTask
  <2> QED BY <1>2, <1>3, <2>1, <2>2, <2>3, <2>4, OneActorStep
<1>4. CASE activeTask = None /\ reason[a] # "Replaced"
  <2> USE <1>4 DEF HasTask
  <2>1. Return(a) /\ TakeActive /\ UNCHANGED <<cancelled, status>>
    OBVIOUS
  <2>2. activeState' = None /\ activeTask' = None
    BY <2>1 DEF TakeActive
  <2>3. TypeOK'
    BY <2>1, <2>2, ReturnType DEF TypeOK, LocalsType
  <2>4. ActorOK(a)' /\ OnlyMoves(a) /\ job'[a] = None
    BY <2>1, <2>2, ReturnOK
  <2> QED BY <1>2, <2>1, <2>2, <2>3, <2>4, OneActorStep
<1>5. CASE activeTask = None /\ reason[a] = "Replaced"
  <2> USE <1>5 DEF HasTask, TakeActive, Goto
  <2>1. TypeOK'
    <3>1. pc' \in [Actors -> Pcs]
      BY DEF TypeOK, Pcs, StartPcs
    <3>2. reason' = [reason EXCEPT ![a] = None]
      OBVIOUS
    <3>3. reason' \in [Actors -> Reasons \cup {None}]
      BY <3>2 DEF TypeOK
    <3> QED BY <3>1, <3>3 DEF TypeOK
  <2>2. ActorOK(a)'
    BY <1>1, <1>2 DEF ActorOK, TypeOK, JobPcs, VictimPcs, HomePcs
  <2>3. OnlyMoves(a)
    BY DEF OnlyMoves, TypeOK
  <2> QED BY <1>2, <2>1, <2>2, <2>3, OneActorStep
<1> QED BY <1>3, <1>4, <1>5 DEF HasTask

(* AbortMarker preserves the invariant. *)
LEMMA AbortMarkerInv ==
  ASSUME IInv, NEW a \in Actors, AbortMarker(a)
  PROVE  IInv'
<1> USE Basics DEF IInv, AbortMarker, Mark, Goto, activeVars, locals, turnVars,
     stateVars, others
<1>1. TypeOK'
  BY ConstantsAssumption DEF TypeOK, Pcs, RunPcs, FinishPcs, AbortPcs, StartPcs, LoopPcs,
     EndPcs, Settle, Fates, Reasons, Statuses, Marks, Kinds, Results, Items, TurnStates,
     LocalsSet, JobPcs, VictimPcs, HomePcs
<1>2. ActorOK(a)'
  BY <1>1 DEF ActorOK, LocalsSet, ActiveTaskAlive, CancelledTaken, TypeOK, JobPcs, VictimPcs,
     HomePcs, RunPcs
<1>3. OnlyMoves(a)
  BY DEF OnlyMoves, TypeOK
<1> QED BY <1>1, <1>2, <1>3, OneActorStep DEF TypeOK, ActiveTaskAlive, RunPcs

(* AbortEvent preserves the invariant. *)
LEMMA AbortEventInv ==
  ASSUME IInv, NEW a \in Actors, AbortEvent(a)
  PROVE  IInv'
<1> USE Basics DEF IInv, AbortEvent, Mark, Goto, activeVars, locals, turnVars,
     stateVars, others
<1>1. TypeOK'
  BY ConstantsAssumption DEF TypeOK, Pcs, RunPcs, FinishPcs, AbortPcs, StartPcs, LoopPcs,
     EndPcs, Settle, Fates, Reasons, Statuses, Marks, Kinds, Results, Items, TurnStates,
     LocalsSet, JobPcs, VictimPcs, HomePcs
<1>2. ActorOK(a)'
  BY <1>1 DEF ActorOK, LocalsSet, ActiveTaskAlive, CancelledTaken, TypeOK, JobPcs, VictimPcs,
     HomePcs, RunPcs
<1>3. OnlyMoves(a)
  BY DEF OnlyMoves, TypeOK
<1> QED BY <1>1, <1>2, <1>3, OneActorStep DEF TypeOK, ActiveTaskAlive, RunPcs

(* The aborter's turn state is cleared and the aborter moves on. *)
LEMMA AbortClearInv ==
  ASSUME IInv, NEW a \in Actors, AbortClear(a)
  PROVE  IInv'
<1> USE Basics DEF IInv, AbortClear, Goto, activeVars, turnVars, stateVars
<1>1. home[a] \in TurnStates /\ (reason[a] = "Replaced" => job[a] # None)
  BY DEF LocalsSet, VictimPcs, HomePcs, TypeOK
<1>2. a \notin Turns
  BY DEF LocalsSet, VictimPcs
<1>3. TypeOK'
  <2>1. fate' \in [Items -> Fates]
    BY SettleType DEF Fates
  <2>2. StatesType'
    BY <1>1 DEF ClearPending, TypeOK, StatesType
  <2>3. pc' \in [Actors -> Pcs]
    BY DEF TypeOK, Pcs, LoopPcs, StartPcs
  <2>4. LocalsType' /\ closing' \in Closings
    BY DEF TypeOK, LocalsType, Closings
  <2> QED BY <2>1, <2>2, <2>3, <2>4 DEF TypeOK, StatesType, LocalsType
<1>4. pc'[a] \in {"mbCheck", "stDrain", "convStop"} /\ (pc'[a] = "stDrain" => job[a] # None)
  BY <1>1 DEF TypeOK
<1>5. reason'[a] # "Replaced" /\ job'[a] = job[a]
  BY ConstantsAssumption DEF TypeOK, Reasons
<1>6. ActorOK(a)'
  BY <1>2, <1>4, <1>5 DEF ActorOK, JobPcs, VictimPcs, HomePcs
<1>7. OnlyMoves(a)
  BY DEF OnlyMoves, TypeOK
<1> QED BY <1>2, <1>3, <1>6, <1>7, OneActorStep

(* MaybeStartCheck preserves the invariant. *)
LEMMA MaybeStartCheckInv ==
  ASSUME IInv, NEW a \in Actors, MaybeStartCheck(a)
  PROVE  IInv'
<1> USE Basics DEF IInv, MaybeStartCheck, activeVars, turnVars, stateVars, others
<1>1. a \in Turns => pc[a] # "idle" /\ activeTask # a
  BY DEF ActiveTaskAlive, RunPcs
<1>2. CASE Goto(a, "mbReserve") /\ UNCHANGED locals
  <2> USE <1>2 DEF Goto, locals
  <2>1. pc' \in [Actors -> Pcs]
    BY DEF TypeOK, Pcs, StartPcs
  <2>2. TypeOK'
    BY <2>1 DEF TypeOK
  <2>3. ActorOK(a)' /\ OnlyMoves(a)
    BY <1>1 DEF ActorOK, OnlyMoves, TypeOK, LocalsSet, JobPcs, VictimPcs, HomePcs
  <2> QED BY <1>1, <2>2, <2>3, OneActorStep
<1>3. CASE Return(a)
  <2>1. TypeOK'
    BY <1>3, ReturnType DEF TypeOK, LocalsType
  <2>2. ActorOK(a)' /\ OnlyMoves(a) /\ job'[a] = None
    BY <1>1, <1>3, ReturnOK
  <2> QED BY <1>1, <2>1, <2>2, OneActorStep
<1> QED BY <1>2, <1>3

(* An idle session is reserved for a fresh turn. *)
LEMMA MaybeStartReserveInv ==
  ASSUME IInv, NEW a \in Actors, MaybeStartReserve(a)
  PROVE  IInv'
<1> USE Basics DEF IInv, MaybeStartReserve, activeVars, turnVars, stateVars
<1>1. a \in Turns => pc[a] # "idle" /\ activeTask # a
  BY DEF ActiveTaskAlive, RunPcs
<1>2. CASE activeState # None
  <2> USE <1>2
  <2>1. Return(a) /\ UNCHANGED <<activeVars, turnVars, born>>
    OBVIOUS
  <2>2. TypeOK'
    BY <2>1, ReturnType DEF TypeOK, LocalsType
  <2>3. ActorOK(a)' /\ OnlyMoves(a) /\ job'[a] = None
    BY <1>1, <2>1, ReturnOK
  <2> QED BY <1>1, <2>1, <2>2, <2>3, OneActorStep
<1>3. CASE activeState = None
  <2> USE <1>3 DEF Goto, Reserve
  <2>1. {} \in SUBSET Items /\ "regular" \in Kinds
    BY DEF Kinds
  <2>2. /\ NewTurn("regular", {}) /\ born + 1 \in Turns /\ born' = born + 1
        /\ born + 1 # None
    BY <2>1, NewTurnType DEF NewTurn
  <2>3. <<born + 1, "reserved">> \in TurnStates
    BY <2>2 DEF TurnStates
  <2>4. TypeOK'
    <3>1. pc' \in [Actors -> Pcs]
      BY DEF TypeOK, Pcs, StartPcs
    <3>2. job' \in [Actors -> Turns \cup {None}]
      BY <2>2 DEF TypeOK
    <3>3. home' \in [Actors -> TurnStates \cup {None}]
      BY <2>3 DEF TypeOK
    <3> QED BY <2>1, <2>2, <2>3, <3>1, <3>2, <3>3, NewTurnType DEF TypeOK
  <2>5. ActorOK(a)'
    BY <1>1, <2>2, <2>3 DEF ActorOK, TypeOK, JobPcs, VictimPcs, HomePcs
  <2>6. OnlyMoves(a) /\ job'[a] = born + 1
    BY DEF OnlyMoves, TypeOK
  <2> QED BY <1>1, <2>2, <2>4, <2>5, <2>6, OneActorStep
<1> QED BY <1>2, <1>3

(* MaybeStartDrain preserves the invariant. *)
LEMMA MaybeStartDrainInv ==
  ASSUME IInv, NEW a \in Actors, MaybeStartDrain(a)
  PROVE  IInv'
<1> USE Basics DEF IInv, MaybeStartDrain, Goto, activeVars, turnVars, others
<1>1. a \in Turns => pc[a] # "idle" /\ activeTask # a
  BY DEF ActiveTaskAlive, RunPcs
<1>2. pc' \in [Actors -> Pcs]
  BY DEF TypeOK, Pcs, StartPcs
<1>3. TypeOK'
  BY <1>2, GetPendingInputType DEF TypeOK
<1>4. job[a] # None /\ home[a] # None
  BY DEF LocalsSet, JobPcs, HomePcs
<1>5. ActorOK(a)' /\ OnlyMoves(a)
  BY <1>1, <1>4 DEF ActorOK, OnlyMoves, TypeOK, LocalsSet, JobPcs, VictimPcs, HomePcs
<1> QED BY <1>1, <1>3, <1>5, OneActorStep

(* MaybeStartExtend preserves the invariant. *)
LEMMA MaybeStartExtendInv ==
  ASSUME IInv, NEW a \in Actors, MaybeStartExtend(a)
  PROVE  IInv'
<1> USE Basics DEF IInv, MaybeStartExtend, Extend, Goto, activeVars, locals, turnVars,
     stateVars, others
<1>1. TypeOK'
  BY ConstantsAssumption DEF TypeOK, Pcs, RunPcs, FinishPcs, AbortPcs, StartPcs, LoopPcs,
     EndPcs, Settle, Fates, Reasons, Statuses, Marks, Kinds, Results, Items, TurnStates,
     LocalsSet, JobPcs, VictimPcs, HomePcs
<1>2. ActorOK(a)'
  BY <1>1 DEF ActorOK, LocalsSet, ActiveTaskAlive, CancelledTaken, TypeOK, JobPcs, VictimPcs,
     HomePcs, RunPcs
<1>3. OnlyMoves(a)
  BY DEF OnlyMoves, TypeOK
<1> QED BY <1>1, <1>2, <1>3, OneActorStep DEF TypeOK, ActiveTaskAlive, RunPcs

(* StartDrain preserves the invariant. *)
LEMMA StartDrainInv ==
  ASSUME IInv, NEW a \in Actors, StartDrain(a)
  PROVE  IInv'
<1> USE Basics DEF IInv, StartDrain, Goto, activeVars, locals, turnVars, stateVars,
     others
<1>1. TypeOK'
  BY ConstantsAssumption DEF TypeOK, Pcs, RunPcs, FinishPcs, AbortPcs, StartPcs, LoopPcs,
     EndPcs, Settle, Fates, Reasons, Statuses, Marks, Kinds, Results, Items, TurnStates,
     LocalsSet, JobPcs, VictimPcs, HomePcs
<1>2. ActorOK(a)'
  BY <1>1 DEF ActorOK, LocalsSet, ActiveTaskAlive, CancelledTaken, TypeOK, JobPcs, VictimPcs,
     HomePcs, RunPcs
<1>3. OnlyMoves(a)
  BY DEF OnlyMoves, TypeOK
<1> QED BY <1>1, <1>2, <1>3, OneActorStep DEF TypeOK, ActiveTaskAlive, RunPcs

(* StartExtend preserves the invariant. *)
LEMMA StartExtendInv ==
  ASSUME IInv, NEW a \in Actors, StartExtend(a)
  PROVE  IInv'
<1> USE Basics DEF IInv, StartExtend, Extend, Goto, activeVars, locals, turnVars,
     stateVars, others
<1>1. TypeOK'
  BY ConstantsAssumption DEF TypeOK, Pcs, RunPcs, FinishPcs, AbortPcs, StartPcs, LoopPcs,
     EndPcs, Settle, Fates, Reasons, Statuses, Marks, Kinds, Results, Items, TurnStates,
     Closings, LocalsSet, JobPcs, VictimPcs, HomePcs
<1>2. ActorOK(a)'
  BY <1>1 DEF ActorOK, LocalsSet, ActiveTaskAlive, CancelledTaken, TypeOK, JobPcs, VictimPcs,
     HomePcs, RunPcs
<1>3. OnlyMoves(a)
  BY DEF OnlyMoves, TypeOK
<1> QED BY <1>1, <1>2, <1>3, OneActorStep DEF TypeOK, ActiveTaskAlive, RunPcs

(* StartAttach preserves the invariant. *)
LEMMA StartAttachInv ==
  ASSUME IInv, NEW a \in Actors, StartAttach(a)
  PROVE  IInv'
<1> USE Basics DEF IInv, StartAttach, GetOrInsert, Goto, activeVars, locals,
     turnVars, stateVars, others
<1>1. job[a] \in Turns /\ (a \in Turns => activeTask # a)
  BY DEF LocalsSet, JobPcs, ActiveTaskAlive, RunPcs, TypeOK
<1>2. GetOrInsert(a, "attached") \in TurnStates
  BY <1>1 DEF TypeOK, TurnStates
<1>3. TypeOK'
  <2>1. pc' \in [Actors -> Pcs]
    BY DEF TypeOK, Pcs, StartPcs
  <2>2. activeState' \in TurnStates /\ home' \in [Actors -> TurnStates \cup {None}]
    BY <1>2 DEF TypeOK
  <2> QED BY <2>1, <2>2 DEF TypeOK
<1>4. ActorOK(a)'
  <2>1. pc'[a] = "stExtend" /\ home'[a] # None /\ job'[a] # None
    BY <1>1, <1>2 DEF TypeOK
  <2> QED BY <1>1, <2>1 DEF ActorOK, JobPcs, VictimPcs, HomePcs
<1>5. OnlyMoves(a)
  BY DEF OnlyMoves, TypeOK
<1>6. activeTask' = None \/ (activeTask' = activeTask /\ activeState' = activeState)
  BY DEF ActiveTaskAlive, TypeOK
<1> QED BY <1>3, <1>4, <1>5, <1>6, OneActorStep

(* TaskStarted preserves the invariant. *)
LEMMA TaskStartedInv ==
  ASSUME IInv, NEW t \in Turns, TaskStarted(t)
  PROVE  IInv'
<1> USE Basics DEF IInv, TaskStarted, Goto, Mark, activeVars, locals, turnVars,
     stateVars, others
<1>1. TypeOK'
  <2>1. pc' \in [Actors -> Pcs]
    BY DEF TypeOK, Pcs, RunPcs
  <2>2. log' \in [Turns -> SUBSET Marks] /\ status' \in Statuses
    BY DEF TypeOK, Marks, Statuses
  <2> QED BY <2>1, <2>2 DEF TypeOK
<1>2. ActorOK(t)'
  BY <1>1 DEF ActorOK, LocalsSet, ActiveTaskAlive, CancelledTaken, TypeOK, JobPcs, VictimPcs,
     HomePcs, RunPcs
<1>3. OnlyMoves(t)
  BY DEF OnlyMoves, TypeOK
<1> QED BY <1>1, <1>2, <1>3, OneActorStep DEF TypeOK, ActiveTaskAlive, RunPcs

(* RecordInput preserves the invariant. *)
LEMMA RecordInputInv ==
  ASSUME IInv, NEW t \in Turns, RecordInput(t)
  PROVE  IInv'
<1> USE Basics DEF IInv, RecordInput, activeVars, locals, turnVars, stateVars, others
<1>1. \E p \in {"drain", "sample", "loopcheck"} : pc' = [pc EXCEPT ![t] = p]
  BY DEF Goto
<1>2. pc' \in [Actors -> Pcs]
  BY <1>1 DEF TypeOK, Pcs, RunPcs
<1>3. fate' \in [Items -> Fates] /\ input' \in [Turns -> SUBSET Items]
  BY RecordType DEF TypeOK
<1>4. TypeOK'
  BY <1>2, <1>3 DEF TypeOK
<1>5. ActorOK(t)' /\ OnlyMoves(t)
  BY <1>1 DEF ActorOK, OnlyMoves, TypeOK, LocalsSet, JobPcs, VictimPcs, HomePcs, RunPcs
<1> QED BY <1>4, <1>5, OneActorStep

(* PreSamplingCompactFails preserves the invariant. *)
LEMMA PreSamplingCompactFailsInv ==
  ASSUME IInv, NEW t \in Turns, PreSamplingCompactFails(t)
  PROVE  IInv'
<1> USE Basics DEF IInv, PreSamplingCompactFails, Goto, Finish, activeVars, locals,
     turnVars, stateVars, others
<1>1. TypeOK'
  BY ConstantsAssumption DEF TypeOK, Pcs, RunPcs, FinishPcs, AbortPcs, StartPcs, LoopPcs,
     EndPcs, Settle, Fates, Reasons, Statuses, Marks, Kinds, Results, Items, TurnStates,
     LocalsSet, JobPcs, VictimPcs, HomePcs
<1>2. ActorOK(t)'
  BY <1>1 DEF ActorOK, LocalsSet, ActiveTaskAlive, CancelledTaken, TypeOK, JobPcs, VictimPcs,
     HomePcs, RunPcs
<1>3. OnlyMoves(t)
  BY DEF OnlyMoves, TypeOK
<1> QED BY <1>1, <1>2, <1>3, OneActorStep DEF TypeOK, ActiveTaskAlive, RunPcs

(* StandaloneWork preserves the invariant. *)
LEMMA StandaloneWorkInv ==
  ASSUME IInv, NEW t \in Turns, StandaloneWork(t)
  PROVE  IInv'
<1> USE Basics DEF IInv, StandaloneWork, Goto, Finish, activeVars, locals, turnVars,
     stateVars, others
<1>1. TypeOK'
  <2>1. pc' \in [Actors -> Pcs]
    BY DEF TypeOK, Pcs, RunPcs
  <2>2. result' \in [Turns -> Results]
    BY DEF TypeOK, Results
  <2>3. status' \in Statuses
    BY DEF TypeOK, Statuses
  <2> QED BY <2>1, <2>2, <2>3 DEF TypeOK
<1>2. ActorOK(t)'
  BY <1>1 DEF ActorOK, LocalsSet, ActiveTaskAlive, CancelledTaken, TypeOK, JobPcs, VictimPcs,
     HomePcs, RunPcs
<1>3. OnlyMoves(t)
  BY DEF OnlyMoves, TypeOK
<1> QED BY <1>1, <1>2, <1>3, OneActorStep DEF TypeOK, ActiveTaskAlive, RunPcs

(* DrainPending preserves the invariant. *)
LEMMA DrainPendingInv ==
  ASSUME IInv, NEW t \in Turns, DrainPending(t)
  PROVE  IInv'
<1> USE Basics DEF IInv, DrainPending, Goto, activeVars, turnVars, others
<1>1. pc' \in [Actors -> Pcs]
  BY DEF TypeOK, Pcs, RunPcs
<1>2. TypeOK'
  BY <1>1, GetPendingInputType DEF TypeOK
<1>3. ActorOK(t)' /\ OnlyMoves(t)
  BY DEF ActorOK, OnlyMoves, TypeOK, LocalsSet, JobPcs, VictimPcs, HomePcs, RunPcs
<1> QED BY <1>2, <1>3, OneActorStep

(* RecordPending preserves the invariant. *)
LEMMA RecordPendingInv ==
  ASSUME IInv, NEW t \in Turns, RecordPending(t)
  PROVE  IInv'
<1> USE Basics DEF IInv, RecordPending, activeVars, turnVars, stateVars, others
<1>1. \E p \in {"sample", "loopcheck"} : pc' = [pc EXCEPT ![t] = p]
  BY DEF Goto
<1>2. pc' \in [Actors -> Pcs]
  BY <1>1 DEF TypeOK, Pcs, RunPcs
<1>3. fate' \in [Items -> Fates] /\ hand' \in [Actors -> SUBSET Items]
  BY RecordType DEF TypeOK
<1>4. TypeOK'
  BY <1>2, <1>3 DEF TypeOK
<1>5. ActorOK(t)' /\ OnlyMoves(t)
  BY <1>1 DEF ActorOK, OnlyMoves, TypeOK, LocalsSet, JobPcs, VictimPcs, HomePcs, RunPcs
<1> QED BY <1>4, <1>5, OneActorStep

(* SampleAnswer preserves the invariant. *)
LEMMA SampleAnswerInv ==
  ASSUME IInv, NEW t \in Turns, SampleAnswer(t)
  PROVE  IInv'
<1> USE Basics DEF IInv, SampleAnswer, Goto, DeferMailbox, activeVars, locals, turnVars,
     stateVars, others
<1>1. TypeOK'
  BY ConstantsAssumption DEF TypeOK, Pcs, RunPcs, FinishPcs, AbortPcs, StartPcs, LoopPcs,
     EndPcs, Settle, Fates, Reasons, Statuses, Marks, Kinds, Results, Items, TurnStates,
     LocalsSet, JobPcs, VictimPcs, HomePcs
<1>2. ActorOK(t)'
  BY <1>1 DEF ActorOK, LocalsSet, ActiveTaskAlive, CancelledTaken, TypeOK, JobPcs, VictimPcs,
     HomePcs, RunPcs
<1>3. OnlyMoves(t)
  BY DEF OnlyMoves, TypeOK
<1> QED BY <1>1, <1>2, <1>3, OneActorStep DEF TypeOK, ActiveTaskAlive, RunPcs

(* SampleToolCall preserves the invariant. *)
LEMMA SampleToolCallInv ==
  ASSUME IInv, NEW t \in Turns, SampleToolCall(t)
  PROVE  IInv'
<1> USE Basics DEF IInv, SampleToolCall, activeVars, locals, stateVars, turnVars, others
<1>1. accepts' \in [TurnStates -> BOOLEAN] /\ calls' \in [Turns -> Nat]
  BY DEF TypeOK, AcceptMailbox, CountCall, ActiveTaskAlive
<1>2. pc' = [pc EXCEPT ![t] = "drain"] \/ pc' = pc
  BY DEF Goto
<1>3. pc' \in [Actors -> Pcs]
  BY <1>2 DEF TypeOK, Pcs, RunPcs
<1>5. TypeOK'
  BY <1>1, <1>3 DEF TypeOK, CountCall
<1>6. ActorOK(t)' /\ OnlyMoves(t)
  BY <1>2 DEF ActorOK, OnlyMoves, TypeOK, LocalsSet, JobPcs, VictimPcs, HomePcs, RunPcs,
     ActiveTaskAlive
<1> QED BY <1>5, <1>6, OneActorStep

(* AskApproval preserves the invariant. *)
LEMMA AskApprovalInv ==
  ASSUME IInv, NEW t \in Turns, AskApproval(t)
  PROVE  IInv'
<1> USE Basics DEF IInv, AskApproval, activeVars, locals, stateVars, turnVars, others
<1>1. accepts' \in [TurnStates -> BOOLEAN] /\ calls' \in [Turns -> Nat]
  BY DEF TypeOK, AcceptMailbox, CountCall, ActiveTaskAlive
<1>2. pc' = [pc EXCEPT ![t] = "approval"] \/ pc' = pc
  BY DEF Goto
<1>3. pc' \in [Actors -> Pcs]
  BY <1>2 DEF TypeOK, Pcs, RunPcs
<1>4. waiters' \in [TurnStates -> SUBSET Turns]
  BY DEF TypeOK
<1>5. TypeOK'
  BY <1>1, <1>3, <1>4 DEF TypeOK, CountCall
<1>6. ActorOK(t)' /\ OnlyMoves(t)
  BY <1>2 DEF ActorOK, OnlyMoves, TypeOK, LocalsSet, JobPcs, VictimPcs, HomePcs, RunPcs,
     ActiveTaskAlive
<1> QED BY <1>5, <1>6, OneActorStep

(* ApprovalDropped preserves the invariant. *)
LEMMA ApprovalDroppedInv ==
  ASSUME IInv, NEW t \in Turns, ApprovalDropped(t)
  PROVE  IInv'
<1> USE Basics DEF IInv, ApprovalDropped, Goto, Finish, activeVars, locals, turnVars,
     stateVars, others
<1>1. TypeOK'
  BY ConstantsAssumption DEF TypeOK, Pcs, RunPcs, FinishPcs, AbortPcs, StartPcs, LoopPcs,
     EndPcs, Settle, Fates, Reasons, Statuses, Marks, Kinds, Results, Items, TurnStates,
     LocalsSet, JobPcs, VictimPcs, HomePcs
<1>2. ActorOK(t)'
  BY <1>1 DEF ActorOK, LocalsSet, ActiveTaskAlive, CancelledTaken, TypeOK, JobPcs, VictimPcs,
     HomePcs, RunPcs
<1>3. OnlyMoves(t)
  BY DEF OnlyMoves, TypeOK
<1> QED BY <1>1, <1>2, <1>3, OneActorStep DEF TypeOK, ActiveTaskAlive, RunPcs

(* SampleError preserves the invariant. *)
LEMMA SampleErrorInv ==
  ASSUME IInv, NEW t \in Turns, SampleError(t)
  PROVE  IInv'
<1> USE Basics DEF IInv, SampleError, Goto, Finish, activeVars, locals, turnVars,
     stateVars, others
<1>1. TypeOK'
  BY ConstantsAssumption DEF TypeOK, Pcs, RunPcs, FinishPcs, AbortPcs, StartPcs, LoopPcs,
     EndPcs, Settle, Fates, Reasons, Statuses, Marks, Kinds, Results, Items, TurnStates,
     LocalsSet, JobPcs, VictimPcs, HomePcs
<1>2. ActorOK(t)'
  BY <1>1 DEF ActorOK, LocalsSet, ActiveTaskAlive, CancelledTaken, TypeOK, JobPcs, VictimPcs,
     HomePcs, RunPcs
<1>3. OnlyMoves(t)
  BY DEF OnlyMoves, TypeOK
<1> QED BY <1>1, <1>2, <1>3, OneActorStep DEF TypeOK, ActiveTaskAlive, RunPcs

(* ObserveCancel preserves the invariant. *)
LEMMA ObserveCancelInv ==
  ASSUME IInv, NEW t \in Turns, ObserveCancel(t)
  PROVE  IInv'
<1> USE Basics DEF IInv, ObserveCancel, Goto, Finish, activeVars, locals, turnVars,
     stateVars, others
<1>1. TypeOK'
  <2>1. fate' \in [Items -> Fates] /\ input' \in [Turns -> SUBSET Items]
    BY RecordType DEF TypeOK
  <2>2. pc' \in [Actors -> Pcs]
    BY DEF TypeOK, Pcs, RunPcs, FinishPcs
  <2>3. result' \in [Turns -> Results]
    BY DEF TypeOK, Results
  <2> QED BY <2>1, <2>2, <2>3 DEF TypeOK
<1>2. ActorOK(t)'
  BY <1>1 DEF ActorOK, LocalsSet, ActiveTaskAlive, CancelledTaken, TypeOK, JobPcs, VictimPcs,
     HomePcs, RunPcs
<1>3. OnlyMoves(t)
  BY DEF OnlyMoves, TypeOK
<1> QED BY <1>1, <1>2, <1>3, OneActorStep DEF TypeOK, ActiveTaskAlive, RunPcs

(* AfterSampling preserves the invariant. *)
LEMMA AfterSamplingInv ==
  ASSUME IInv, NEW t \in Turns, AfterSampling(t)
  PROVE  IInv'
<1> USE Basics DEF IInv, AfterSampling, activeVars, locals, stateVars, turnVars, others
<1>1. accepts' \in [TurnStates -> BOOLEAN] /\ calls' \in [Turns -> Nat]
  <2>1. CASE UNCHANGED <<calls, accepts>>
    BY <2>1 DEF TypeOK
  <2>2. CASE CountCall(t) /\ AcceptMailbox(t)
    BY <2>2 DEF TypeOK, AcceptMailbox, CountCall, ActiveTaskAlive
  <2> QED BY <2>1, <2>2
<1>2. \E p \in {"drain", "loopcheck"} : pc' = [pc EXCEPT ![t] = p]
  BY DEF Goto
<1>3. pc' \in [Actors -> Pcs]
  BY <1>2 DEF TypeOK, Pcs, RunPcs
<1>4. TypeOK'
  BY <1>1, <1>3 DEF TypeOK
<1>5. ActorOK(t)' /\ OnlyMoves(t)
  BY <1>2 DEF ActorOK, OnlyMoves, TypeOK, LocalsSet, JobPcs, VictimPcs, HomePcs, RunPcs,
     ActiveTaskAlive
<1> QED BY <1>4, <1>5, OneActorStep

(* LoopCheck preserves the invariant. *)
LEMMA LoopCheckInv ==
  ASSUME IInv, NEW t \in Turns, LoopCheck(t)
  PROVE  IInv'
<1> USE Basics DEF IInv, LoopCheck, Goto, activeVars, locals, turnVars, stateVars,
     others
<1>1. TypeOK'
  BY ConstantsAssumption DEF TypeOK, Pcs, RunPcs, FinishPcs, AbortPcs, StartPcs, LoopPcs,
     EndPcs, Settle, Fates, Reasons, Statuses, Marks, Kinds, Results, Items, TurnStates,
     LocalsSet, JobPcs, VictimPcs, HomePcs
<1>2. ActorOK(t)'
  BY <1>1 DEF ActorOK, LocalsSet, ActiveTaskAlive, CancelledTaken, TypeOK, JobPcs, VictimPcs,
     HomePcs, RunPcs
<1>3. OnlyMoves(t)
  BY DEF OnlyMoves, TypeOK
<1> QED BY <1>1, <1>2, <1>3, OneActorStep DEF TypeOK, ActiveTaskAlive, RunPcs

(* A cancelled task just ends; another goes to on_task_finished. *)
LEMMA TaskReturnedInv ==
  ASSUME IInv, NEW t \in Turns, TaskReturned(t)
  PROVE  IInv'
<1> USE Basics DEF IInv, TaskReturned, activeVars, turnVars, stateVars, others
<1>1. CASE t \in cancelled /\ Return(t)
  <2>1. activeTask # t
    BY <1>1 DEF CancelledTaken
  <2>2. TypeOK'
    BY <1>1, ReturnType DEF TypeOK, LocalsType
  <2>3. ActorOK(t)' /\ OnlyMoves(t) /\ job'[t] = None
    BY <1>1, <2>1, ReturnOK
  <2> QED BY <2>2, <2>3, OneActorStep
<1>2. CASE Goto(t, "finTake") /\ UNCHANGED locals
  <2> USE <1>2 DEF Goto, locals
  <2>1. pc' \in [Actors -> Pcs]
    BY DEF TypeOK, Pcs, FinishPcs
  <2>2. TypeOK'
    BY <2>1 DEF TypeOK
  <2>3. ActorOK(t)' /\ OnlyMoves(t)
    BY DEF ActorOK, OnlyMoves, TypeOK, LocalsSet, JobPcs, VictimPcs, HomePcs, RunPcs
  <2> QED BY <2>2, <2>3, OneActorStep
<1> QED BY <1>1, <1>2

(* A finishing task empties the active turn of its task. *)
LEMMA FinishTakeInv ==
  ASSUME IInv, NEW t \in Turns, FinishTake(t)
  PROVE  IInv'
<1> USE Basics DEF IInv, FinishTake, TakePending, HasTask, turnVars, others
<1>1. CASE activeTask # None
  <2> USE <1>1 DEF Goto
  <2>1. activeState \in TurnStates
    BY DEF ActiveTaskAlive, TypeOK
  <2>2. TypeOK'
    <3>1. pc' \in [Actors -> Pcs]
      BY DEF TypeOK, Pcs, FinishPcs
    <3>2. home' \in [Actors -> TurnStates \cup {None}] /\ hand' \in [Actors -> SUBSET Items]
      BY <2>1 DEF TypeOK
    <3>3. pending' \in [TurnStates -> SUBSET Items]
      BY <2>1 DEF TypeOK
    <3> QED BY <3>1, <3>2, <3>3 DEF TypeOK
  <2>3. ActorOK(t)'
    BY <2>1 DEF ActorOK, TypeOK, LocalsSet, JobPcs, VictimPcs, HomePcs
  <2>4. OnlyMoves(t)
    BY DEF OnlyMoves, TypeOK
  <2> QED BY <2>2, <2>3, <2>4, OneActorStep
<1>2. CASE activeTask = None
  <2> USE <1>2
  <2>1. Return(t) /\ UNCHANGED <<activeState, activeTask, pending>>
    OBVIOUS
  <2>2. TypeOK'
    BY <2>1, ReturnType DEF TypeOK, LocalsType
  <2>3. ActorOK(t)' /\ OnlyMoves(t) /\ job'[t] = None
    BY <2>1, ReturnOK
  <2> QED BY <2>1, <2>2, <2>3, OneActorStep
<1> QED BY <1>1, <1>2

(* FinishRecord preserves the invariant. *)
LEMMA FinishRecordInv ==
  ASSUME IInv, NEW t \in Turns, FinishRecord(t)
  PROVE  IInv'
<1> USE Basics DEF IInv, FinishRecord, Goto, activeVars, locals, turnVars, stateVars,
     others
<1>1. TypeOK'
  <2>1. fate' \in [Items -> Fates] /\ hand' \in [Actors -> SUBSET Items]
    BY RecordType DEF TypeOK
  <2>2. pc' \in [Actors -> Pcs]
    BY DEF TypeOK, Pcs, RunPcs, FinishPcs
  <2> QED BY <2>1, <2>2 DEF TypeOK
<1>2. ActorOK(t)'
  BY <1>1 DEF ActorOK, LocalsSet, ActiveTaskAlive, CancelledTaken, TypeOK, JobPcs, VictimPcs,
     HomePcs, RunPcs
<1>3. OnlyMoves(t)
  BY DEF OnlyMoves, TypeOK
<1> QED BY <1>1, <1>2, <1>3, OneActorStep DEF TypeOK, ActiveTaskAlive, RunPcs

(* FinishEvent preserves the invariant. *)
LEMMA FinishEventInv ==
  ASSUME IInv, NEW t \in Turns, FinishEvent(t)
  PROVE  IInv'
<1> USE Basics DEF IInv, FinishEvent, Goto, Mark, activeVars, locals, turnVars,
     stateVars, others
<1>1. TypeOK'
  BY ConstantsAssumption DEF TypeOK, Pcs, RunPcs, FinishPcs, AbortPcs, StartPcs, LoopPcs,
     EndPcs, Settle, Fates, Reasons, Statuses, Marks, Kinds, Results, Items, TurnStates,
     LocalsSet, JobPcs, VictimPcs, HomePcs
<1>2. ActorOK(t)'
  BY <1>1 DEF ActorOK, LocalsSet, ActiveTaskAlive, CancelledTaken, TypeOK, JobPcs, VictimPcs,
     HomePcs, RunPcs
<1>3. OnlyMoves(t)
  BY DEF OnlyMoves, TypeOK
<1> QED BY <1>1, <1>2, <1>3, OneActorStep DEF TypeOK, ActiveTaskAlive, RunPcs

(* The finished turn is cleared if the session still points to it. *)
LEMMA FinishClearInv ==
  ASSUME IInv, NEW t \in Turns, FinishClear(t)
  PROVE  IInv'
<1> USE Basics DEF IInv, FinishClear, activeVars, turnVars, stateVars, others
<1>1. activeTask # t
  BY DEF ActiveTaskAlive, RunPcs
<1>2. CASE TakeActive /\ Goto(t, "mbCheck") /\ Reset({t})
  <2> USE <1>2 DEF TakeActive, Goto
  <2>1. pc' \in [Actors -> Pcs]
    BY DEF TypeOK, Pcs, StartPcs
  <2>2. TypeOK'
    BY <2>1, ResetType DEF TypeOK, LocalsType
  <2>3. reason'[t] = None /\ job'[t] = None /\ None # "Replaced"
    BY ConstantsAssumption DEF Reset, Reasons
  <2>4. ActorOK(t)'
    BY <2>3 DEF ActorOK, TypeOK, JobPcs, VictimPcs, HomePcs
  <2>5. OnlyMoves(t)
    BY DEF OnlyMoves, Reset, TypeOK
  <2> QED BY <2>2, <2>3, <2>4, <2>5, OneActorStep
<1>3. CASE Return(t) /\ UNCHANGED activeVars
  <2>1. TypeOK'
    BY <1>3, ReturnType DEF TypeOK, LocalsType
  <2>2. ActorOK(t)' /\ OnlyMoves(t) /\ job'[t] = None
    BY <1>1, <1>3, ReturnOK
  <2> QED BY <1>3, <2>1, <2>2, OneActorStep
<1> QED BY <1>2, <1>3

(* GuardianDeny preserves the invariant. *)
LEMMA GuardianDenyInv ==
  ASSUME IInv, NEW t \in Turns, GuardianDeny(t)
  PROVE  IInv'
<1> USE Basics DEF IInv, GuardianDeny, Goto, activeVars, locals, turnVars, stateVars,
     others
<1>1. TypeOK'
  BY ConstantsAssumption DEF TypeOK, Pcs, RunPcs, FinishPcs, AbortPcs, StartPcs, LoopPcs,
     EndPcs, Settle, Fates, Reasons, Statuses, Marks, Kinds, Results, Items, TurnStates,
     LocalsSet, JobPcs, VictimPcs, HomePcs
<1>2. ActorOK(Guardian)'
  BY <1>1 DEF ActorOK, LocalsSet, ActiveTaskAlive, CancelledTaken, TypeOK, JobPcs, VictimPcs,
     HomePcs, RunPcs
<1>3. OnlyMoves(Guardian)
  BY DEF OnlyMoves, TypeOK
<1> QED BY <1>1, <1>2, <1>3, OneActorStep DEF TypeOK, ActiveTaskAlive, RunPcs

(* The guardian takes its victim if that is still the active task. *)
LEMMA GuardianTakeInv ==
  ASSUME IInv, GuardianTake
  PROVE  IInv'
<1> USE Basics DEF IInv, GuardianTake, HasTask, activeVars, turnVars, stateVars
<1>1. CASE activeTask # None /\ TakeTask(Guardian, "Interrupted")
  <2>1. /\ activeState' = None /\ activeTask' = None /\ pc' \in [Actors -> Pcs]
        /\ LocalsType' /\ cancelled' \in SUBSET Turns /\ status' \in Statuses
    BY <1>1, TakeTaskType DEF Reasons
  <2>2. TypeOK'
    BY <2>1 DEF TypeOK, LocalsType
  <2>3. ActorOK(Guardian)' /\ OnlyMoves(Guardian) /\ job'[Guardian] = job[Guardian]
    BY <1>1, TakeTaskOK
  <2>4. cancelled' = cancelled \cup {activeTask}
    BY <1>1 DEF TakeTask
  <2> QED BY <1>1, <2>1, <2>2, <2>3, <2>4, OneActorStep
<1>2. CASE Return(Guardian) /\ UNCHANGED <<activeVars, cancelled, status>>
  <2>1. TypeOK'
    BY <1>2, ReturnType DEF TypeOK, LocalsType
  <2>2. ActorOK(Guardian)' /\ OnlyMoves(Guardian) /\ job'[Guardian] = None
    BY <1>2, ReturnOK
  <2> QED BY <1>2, <2>1, <2>2, OneActorStep
<1> QED BY <1>1, <1>2


(* The task an abort waits for ends, and the aborter goes on. *)
LEMMA AbortWaitInv ==
  ASSUME IInv, NEW a \in Actors, AbortWait(a)
  PROVE  IInv'
<1> DEFINE v == victim[a]
<1> USE Basics DEF IInv, activeVars, stateVars, others
<1>1. /\ v \in cancelled /\ v \in Turns /\ v # activeTask /\ pc[v] # "idle"
      /\ a \notin Turns /\ home[a] # None /\ pc[a] = "abWait"
  BY DEF AbortWait, LocalsSet, VictimPcs, HomePcs, CancelledTaken, TypeOK
<1>2. /\ Reset({v})
      /\ UNCHANGED <<activeVars, kind, result, calls, stateVars, mailbox, others>>
  BY DEF AbortWait
<1>3. PICK p \in {"done", "killed"}, q \in {"abMarker", "abEvent", "abClear"} :
        pc' = [pc EXCEPT ![v] = p, ![a] = q]
  BY <1>1 DEF AbortWait, Stopped, AfterWait, TypeOK
<1>4. /\ pc'[v] = p /\ pc'[a] = q
      /\ \A b \in Actors : b # v /\ b # a => pc'[b] = pc[b]
  BY <1>1, <1>3 DEF TypeOK
<1>5. TypeOK'
  <2>1. pc' \in [Actors -> Pcs]
    BY <1>3 DEF TypeOK, Pcs, AbortPcs, EndPcs
  <2>2. fate' \in [Items -> Fates] /\ input' \in [Turns -> SUBSET Items]
    BY SettleType DEF AbortWait, Fates, TypeOK
  <2>3. LocalsType'
    BY <1>2, ResetType
  <2> QED BY <1>2, <2>1, <2>2, <2>3 DEF TypeOK, LocalsType
<1>6. \A b \in Actors :
        IF b = v THEN job'[b] = None /\ reason'[b] # "Replaced"
        ELSE job'[b] = job[b] /\ reason'[b] = reason[b] /\ victim'[b] = victim[b]
               /\ home'[b] = home[b]
  BY <1>2, ConstantsAssumption DEF Reset, Reasons
<1>7. ActiveTaskAlive'
  BY <1>1, <1>2, <1>4 DEF ActiveTaskAlive, TypeOK
<1>8. LocalsSet'
  <2> SUFFICES ASSUME NEW b \in Actors
               PROVE  /\ pc'[b] \in JobPcs \/ reason'[b] = "Replaced" => job'[b] # None
                      /\ pc'[b] \in VictimPcs => victim'[b] \in cancelled'
                      /\ pc'[b] \in VictimPcs \cup {"abTake"} => b \notin Turns
                      /\ pc'[b] \in HomePcs => home'[b] # None
    BY DEF LocalsSet
  <2>1. CASE b = v
    BY <1>4, <1>6, <2>1 DEF JobPcs, VictimPcs, HomePcs
  <2>2. CASE b = a
    BY <1>1, <1>2, <1>4, <1>6, <2>2 DEF LocalsSet, JobPcs, VictimPcs, HomePcs
  <2>3. CASE b # v /\ b # a
    BY <1>2, <1>4, <1>6, <2>3 DEF LocalsSet
  <2> QED BY <2>1, <2>2, <2>3
<1>9. JobsFresh'
  <2>1. \A t \in Turns : pc[t] = "idle" => pc'[t] = "idle"
    BY <1>1, <1>4
  <2>2. \A b \in Actors : job'[b] # None => job'[b] = job[b] /\ job[b] \in Turns
    BY <1>6 DEF TypeOK
  <2> QED BY <1>2, <2>1, <2>2 DEF JobsFresh
<1>10. CancelledTaken'
  BY <1>1, <1>2, <1>4 DEF CancelledTaken, TypeOK
<1> QED BY <1>5, <1>7, <1>8, <1>9, <1>10

(* The new task is stored in the active turn; one that is overwritten dies. *)
LEMMA StartInstallInv ==
  ASSUME IInv, NEW a \in Actors, StartInstall(a)
  PROVE  IInv'
<1> DEFINE j == job[a]
           dead == IF HasTask THEN {a, activeTask} ELSE {a}
<1> USE Basics DEF IInv, stateVars, others
<1>1. j \in Turns /\ pc[j] = "idle" /\ j <= born /\ pc[a] = "stInstall"
  BY DEF StartInstall, LocalsSet, JobPcs, JobsFresh, TypeOK
<1>2. activeTask # j /\ j # a /\ (HasTask => activeTask \in Turns /\ activeTask # a
        /\ pc[activeTask] \in RunPcs \cup {"finTake"})
  BY <1>1 DEF ActiveTaskAlive, HasTask, TypeOK, RunPcs
<1>3. activeTask' = j /\ activeState' \in TurnStates
  BY <1>1 DEF StartInstall, GetOrInsert, TurnStates, TypeOK
<1>4. /\ Reset(dead)
      /\ UNCHANGED <<kind, result, calls, stateVars, mailbox, others>>
  BY DEF StartInstall
<1>5. ReturnPc(a) \in {"done", "stopping", "ready"}
  BY DEF ReturnPc
<1>6. /\ pc'[j] = "spawned"
      /\ \A b \in dead : pc'[b] \in {"done", "stopping", "ready", "killed"}
      /\ \A b \in Actors : b # j /\ b \notin dead => pc'[b] = pc[b]
      /\ pc' \in [Actors -> Pcs]
  <2>1. CASE HasTask
    <3>1. pc' = [pc EXCEPT ![a] = ReturnPc(a), ![activeTask] = "killed", ![j] = "spawned"]
      BY <2>1 DEF StartInstall
    <3>2. pc' \in [Actors -> Pcs]
      BY <1>5, <3>1 DEF TypeOK, Pcs, RunPcs, LoopPcs, EndPcs
    <3>3. pc'[j] = "spawned" /\ pc'[a] = ReturnPc(a) /\ pc'[activeTask] = "killed"
      BY <1>1, <1>2, <2>1, <3>1 DEF TypeOK
    <3>4. \A b \in Actors : b # j /\ b # a /\ b # activeTask => pc'[b] = pc[b]
      BY <3>1 DEF TypeOK
    <3> QED BY <1>5, <2>1, <3>2, <3>3, <3>4
  <2>2. CASE ~HasTask
    <3>1. pc' = [pc EXCEPT ![a] = ReturnPc(a), ![j] = "spawned"]
      BY <2>2 DEF StartInstall
    <3>2. pc' \in [Actors -> Pcs]
      BY <1>5, <3>1 DEF TypeOK, Pcs, RunPcs, LoopPcs, EndPcs
    <3>3. pc'[j] = "spawned" /\ pc'[a] = ReturnPc(a)
      BY <1>1, <1>2, <3>1 DEF TypeOK
    <3>4. \A b \in Actors : b # j /\ b # a => pc'[b] = pc[b]
      BY <3>1 DEF TypeOK
    <3> QED BY <1>5, <2>2, <3>2, <3>3, <3>4
  <2> QED BY <2>1, <2>2
<1>7. TypeOK'
  <2>1. fate' \in [Items -> Fates] /\ input' \in [Turns -> SUBSET Items]
    BY SettleType DEF StartInstall, Fates, TypeOK
  <2>2. LocalsType'
    BY <1>4, ResetType
  <2> QED BY <1>1, <1>3, <1>4, <1>6, <2>1, <2>2 DEF TypeOK, LocalsType
<1>8. \A b \in Actors :
        IF b \in dead THEN job'[b] = None /\ reason'[b] # "Replaced"
        ELSE job'[b] = job[b] /\ reason'[b] = reason[b] /\ victim'[b] = victim[b]
               /\ home'[b] = home[b]
  BY <1>4, ConstantsAssumption DEF Reset, Reasons
<1>9. ActiveTaskAlive'
  BY <1>1, <1>3, <1>6 DEF ActiveTaskAlive, RunPcs
<1>10. LocalsSet'
  <2> SUFFICES ASSUME NEW b \in Actors
               PROVE  /\ pc'[b] \in JobPcs \/ reason'[b] = "Replaced" => job'[b] # None
                      /\ pc'[b] \in VictimPcs => victim'[b] \in cancelled'
                      /\ pc'[b] \in VictimPcs \cup {"abTake"} => b \notin Turns
                      /\ pc'[b] \in HomePcs => home'[b] # None
    BY DEF LocalsSet
  <2>1. CASE b \in dead
    BY <1>6, <1>8, <2>1 DEF JobPcs, VictimPcs, HomePcs
  <2>2. CASE b = j
    BY <1>2, <1>6, <1>8, <2>2 DEF LocalsSet, JobPcs, VictimPcs, HomePcs
  <2>3. CASE b \notin dead /\ b # j
    BY <1>4, <1>6, <1>8, <2>3 DEF LocalsSet
  <2> QED BY <2>1, <2>2, <2>3
<1>11. JobsFresh'
  <2>1. \A t \in Turns : t # j /\ pc[t] = "idle" => pc'[t] = "idle"
    BY <1>1, <1>2, <1>6 DEF RunPcs
  <2>2. \A b \in Actors : job'[b] # None =>
          job'[b] = job[b] /\ job[b] \in Turns /\ job[b] # j
    BY <1>8 DEF JobsFresh, TypeOK
  <2>3. \A t \in Turns : t > born => t # j
    BY <1>1 DEF TypeOK
  <2> QED BY <1>4, <2>1, <2>2, <2>3 DEF JobsFresh
<1>12. CancelledTaken'
  BY <1>1, <1>3, <1>4, <1>6 DEF CancelledTaken, TypeOK
<1> QED BY <1>7, <1>9, <1>10, <1>11, <1>12

(* An injection moves no actor. *)
LEMMA InjectNoNewTurnInv ==
  ASSUME IInv, NEW x \in Injections, InjectNoNewTurn(x)
  PROVE  IInv'
<1> USE DEF IInv, InjectNoNewTurn, activeVars, locals, turnVars, others
<1>1. fate' \in [Items -> Fates]
  BY SettleType DEF Fates
<1>2. StatesType'
  <2>1. CASE activeState # None
    <3>1. activeState \in TurnStates /\ {x} \in SUBSET Items
      BY <2>1 DEF TypeOK, Items
    <3> QED BY <2>1, <3>1, ExtendAndAcceptType
  <2>2. CASE activeState = None
    BY <2>2 DEF TypeOK, StatesType, stateVars
  <2> QED BY <2>1, <2>2
<1>3. TypeOK'
  BY <1>1, <1>2 DEF TypeOK, StatesType
<1> QED BY <1>3, StillStep

(* The initial state satisfies the inductive invariant. *)
LEMMA InitInv == Init => IInv
<1> SUFFICES ASSUME Init PROVE IInv
  OBVIOUS
<1> USE Basics DEF Init, IInv
<1>1. TypeOK
  <2>1. pc \in [Actors -> Pcs]
    BY DEF Pcs, LoopPcs, EndPcs
  <2>2. LocalsType /\ StatesType
    BY DEF LocalsType, StatesType
  <2>3. /\ "regular" \in Kinds /\ "ok" \in Results /\ "PendingInit" \in Statuses
        /\ "unsent" \in Fates /\ "no" \in Closings
    BY DEF Kinds, Results, Statuses, Fates, Closings
  <2>4. born \in 0..MaxTurns /\ interrupts \in 0..MaxInterrupts
    BY ConstantsAssumption
  <2> QED BY <2>1, <2>2, <2>3, <2>4 DEF TypeOK, LocalsType, StatesType
<1>2. ActiveTaskAlive /\ CancelledTaken
  BY DEF ActiveTaskAlive, CancelledTaken
<1>3. LocalsSet
  BY ConstantsAssumption DEF LocalsSet, JobPcs, VictimPcs, HomePcs, Reasons
<1>4. JobsFresh
  BY DEF JobsFresh
<1> QED BY <1>1, <1>2, <1>3, <1>4

(* Every step of the session preserves it. *)
LEMMA NextInv == IInv /\ [Next]_vars => IInv'
<1> SUFFICES ASSUME IInv, [Next]_vars PROVE IInv'
  OBVIOUS
<1>1. CASE LoopStep
  BY <1>1, StartOrSteerInv, SteerInv, StartIfIdleInv, InterAgentCommunicationInv,
     SpawnStandaloneInv, ExecApprovalInv, InterruptInv, ShutdownInv, SuspendTurnInv,
     RealtimeConversationInv, Basics DEF LoopStep, UserItems
<1>2. CASE LoopInternal
  BY <1>2, StartIfIdleReserveInv, StartIfIdleSettingsInv, SuspendTakeInv,
     ConversationStoppedInv, ShutdownCompleteInv, SuspendFailsInv DEF LoopInternal
<1>3. ASSUME NEW a \in Actors, Procedure(a) PROVE IInv'
  BY <1>3, AbortTakeInv, AbortWaitInv, AbortMarkerInv, AbortEventInv, AbortClearInv,
     MaybeStartCheckInv, MaybeStartReserveInv, MaybeStartDrainInv, MaybeStartExtendInv,
     StartDrainInv, StartAttachInv, StartExtendInv, StartInstallInv DEF Procedure
<1>4. ASSUME NEW t \in Turns, Running(t) PROVE IInv'
  BY <1>4, TaskStartedInv, RecordInputInv, PreSamplingCompactFailsInv, StandaloneWorkInv,
     DrainPendingInv, RecordPendingInv, SampleAnswerInv, SampleToolCallInv, AskApprovalInv,
     ApprovalDroppedInv, SampleErrorInv, ObserveCancelInv, AfterSamplingInv, LoopCheckInv
     DEF Running
<1>5. ASSUME NEW t \in Turns, Finishing(t) PROVE IInv'
  BY <1>5, TaskReturnedInv, FinishTakeInv, FinishRecordInv, FinishEventInv, FinishClearInv
     DEF Finishing
<1>6. CASE UNCHANGED vars
  BY <1>6, StillStep DEF vars, activeVars, locals, turnVars, stateVars, others, IInv, TypeOK
<1>7. ASSUME NEW u \in Texts, StartOrSteer(Realtime, u) PROVE IInv'
  BY <1>7, StartOrSteerInv, Basics DEF UserItems
<1> QED BY <1>1, <1>2, <1>3, <1>4, <1>5, <1>6, <1>7, GuardianDenyInv, GuardianTakeInv,
          InjectNoNewTurnInv, TransportClosedInv DEF Next

(* The inductive invariant holds in every reachable state of a session. *)
THEOREM SessionInvariant == Spec => []IInv
BY InitInv, NextInv, PTL DEF Spec

(* Every variable of the session keeps its type, for any number of turns, inputs,
   mails and injections. *)
THEOREM TypeCorrect == Spec => []TypeOK
<1>1. IInv => TypeOK
  BY DEF IInv
<1> QED BY <1>1, SessionInvariant, PTL

(* The task in Session.active_turn is one that is still running or is about to
   take itself out in on_task_finished, whichever of the client, the guardian,
   a suspension or the start of another turn ends it. *)
THEOREM ActiveTaskStaysAlive == Spec => []ActiveTaskAlive
<1>1. IInv => ActiveTaskAlive
  BY DEF IInv
<1> QED BY <1>1, SessionInvariant, PTL

=============================================================================
