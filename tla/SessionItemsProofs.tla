------------------------- MODULE SessionItemsProofs -------------------------
(***************************************************************************)
(* The proof of DeliveredOnce, for every number of turns and every set of  *)
(* inputs, mails and injections.  It is carried out one item at a time:    *)
(* Place says which containers hold an item, the lemmas Alone... read the  *)
(* place of an item off DeliveredOnce, and StepOnce says that a step keeps *)
(* the invariant if every item stays where it is, leaves the queues, or    *)
(* comes to one place.  The lemma of an action says which of the three its *)
(* items do.                                                               *)
(***************************************************************************)
EXTENDS SessionTurnsProofs

(* An actor has drained input in its hands only where the code holds a local
   Vec of it across an await. *)
HandPcs == {"mbExtend", "stAttach", "stExtend", "record", "finRecord"}
HandsOK == \A a \in Actors : pc[a] \notin HandPcs => hand[a] = {}

(* A turn id that was not allocated yet has been given no input. *)
FreshOK == \A t \in Turns : t > born => input[t] = {}

ItemsOK == DeliveredOnce /\ HandsOK /\ FreshOK

(* The turn states, actors and turns that hold item i, and whether the mailbox
   does. *)
Place(i, S, A, T, m) ==
  /\ \A s \in TurnStates : i \in pending[s] <=> s \in S
  /\ \A a \in Actors : i \in hand[a] <=> a \in A
  /\ \A t \in Turns : i \in input[t] <=> t \in T
  /\ i \in mailbox <=> m

(* The same after the step. *)
NewPlace(i, S, A, T, m) ==
  /\ \A s \in TurnStates : i \in pending'[s] <=> s \in S
  /\ \A a \in Actors : i \in hand'[a] <=> a \in A
  /\ \A t \in Turns : i \in input'[t] <=> t \in T
  /\ i \in mailbox' <=> m

(* The three things a step may do with an item. *)
Stays(i) ==
  /\ fate'[i] = fate[i]
  /\ \A s \in TurnStates : i \in pending'[s] <=> i \in pending[s]
  /\ \A a \in Actors : i \in hand'[a] <=> i \in hand[a]
  /\ \A t \in Turns : i \in input'[t] <=> i \in input[t]
  /\ i \in mailbox' <=> i \in mailbox

Leaves(i) == fate'[i] # "live" /\ NewPlace(i, {}, {}, {}, FALSE)

Comes(i) ==
  /\ fate'[i] = "live"
  /\ \/ \E s \in TurnStates : NewPlace(i, {s}, {}, {}, FALSE)
     \/ \E a \in Actors : NewPlace(i, {}, {a}, {}, FALSE)
     \/ \E t \in Turns : NewPlace(i, {}, {}, {t}, FALSE)
     \/ NewPlace(i, {}, {}, {}, TRUE)

(* What it means to be a holder, one kind of container at a time. *)
LEMMA HolderKinds ==
  ASSUME NEW i
  PROVE  /\ \A s \in TurnStates : <<"pending", s>> \in Holders(i) <=> i \in pending[s]
         /\ \A a \in Actors : <<"hand", a>> \in Holders(i) <=> i \in hand[a]
         /\ \A t \in Turns : <<"input", t>> \in Holders(i) <=> i \in input[t]
         /\ <<"mailbox", None>> \in Holders(i) <=> i \in mailbox
         /\ \A h \in Holders(i) :
              \/ \E s \in TurnStates : h = <<"pending", s>> /\ i \in pending[s]
              \/ \E a \in Actors : h = <<"hand", a>> /\ i \in hand[a]
              \/ \E t \in Turns : h = <<"input", t>> /\ i \in input[t]
              \/ h = <<"mailbox", None>> /\ i \in mailbox
<1>1. \A s \in TurnStates : <<"pending", s>> \in Holders(i) <=> i \in pending[s]
  BY DEF Holders
<1>2. \A a \in Actors : <<"hand", a>> \in Holders(i) <=> i \in hand[a]
  BY DEF Holders
<1>3. \A t \in Turns : <<"input", t>> \in Holders(i) <=> i \in input[t]
  BY DEF Holders
<1>4. <<"mailbox", None>> \in Holders(i) <=> i \in mailbox
  BY DEF Holders
<1>5. \A h \in Holders(i) :
        \/ \E s \in TurnStates : h = <<"pending", s>> /\ i \in pending[s]
        \/ \E a \in Actors : h = <<"hand", a>> /\ i \in hand[a]
        \/ \E t \in Turns : h = <<"input", t>> /\ i \in input[t]
        \/ h = <<"mailbox", None>> /\ i \in mailbox
  BY DEF Holders
<1> QED BY <1>1, <1>2, <1>3, <1>4, <1>5

(* An item in a turn state is nowhere else. *)
LEMMA AlonePending ==
  ASSUME DeliveredOnce, NEW i \in Items, NEW s \in TurnStates, i \in pending[s]
  PROVE  fate[i] = "live" /\ Place(i, {s}, {}, {}, FALSE)
<1>1. <<"pending", s>> \in Holders(i) /\ \A h \in Holders(i) : h = <<"pending", s>>
  BY HolderKinds DEF DeliveredOnce
<1>2. fate[i] = "live"
  BY <1>1 DEF DeliveredOnce
<1> QED BY <1>1, <1>2, HolderKinds DEF Place

(* An item in the hands of an actor is nowhere else. *)
LEMMA AloneHand ==
  ASSUME DeliveredOnce, NEW i \in Items, NEW a \in Actors, i \in hand[a]
  PROVE  fate[i] = "live" /\ Place(i, {}, {a}, {}, FALSE)
<1>1. <<"hand", a>> \in Holders(i) /\ \A h \in Holders(i) : h = <<"hand", a>>
  BY HolderKinds DEF DeliveredOnce
<1>2. fate[i] = "live"
  BY <1>1 DEF DeliveredOnce
<1> QED BY <1>1, <1>2, HolderKinds DEF Place

(* An item in the input of a task is nowhere else. *)
LEMMA AloneInput ==
  ASSUME DeliveredOnce, NEW i \in Items, NEW t \in Turns, i \in input[t]
  PROVE  fate[i] = "live" /\ Place(i, {}, {}, {t}, FALSE)
<1>1. <<"input", t>> \in Holders(i) /\ \A h \in Holders(i) : h = <<"input", t>>
  BY HolderKinds DEF DeliveredOnce
<1>2. fate[i] = "live"
  BY <1>1 DEF DeliveredOnce
<1> QED BY <1>1, <1>2, HolderKinds DEF Place

(* An item in the mailbox is nowhere else. *)
LEMMA AloneMailbox ==
  ASSUME DeliveredOnce, NEW i \in Items, i \in mailbox
  PROVE  fate[i] = "live" /\ Place(i, {}, {}, {}, TRUE)
<1>1. <<"mailbox", None>> \in Holders(i) /\ \A h \in Holders(i) : h = <<"mailbox", None>>
  BY HolderKinds DEF DeliveredOnce
<1>2. fate[i] = "live"
  BY <1>1 DEF DeliveredOnce
<1> QED BY <1>1, <1>2, HolderKinds DEF Place

(* An item that was not sent yet, or was recorded or discarded, is nowhere. *)
LEMMA AloneOut ==
  ASSUME DeliveredOnce, NEW i \in Items, fate[i] # "live"
  PROVE  Place(i, {}, {}, {}, FALSE)
<1>1. Holders(i) = {}
  BY DEF DeliveredOnce
<1> QED BY <1>1, HolderKinds DEF Place

(* Being a holder after the step. *)
LEMMA NewHolderKinds ==
  ASSUME NEW i
  PROVE  /\ \A s \in TurnStates : <<"pending", s>> \in Holders(i)' <=> i \in pending'[s]
         /\ \A a \in Actors : <<"hand", a>> \in Holders(i)' <=> i \in hand'[a]
         /\ \A t \in Turns : <<"input", t>> \in Holders(i)' <=> i \in input'[t]
         /\ <<"mailbox", None>> \in Holders(i)' <=> i \in mailbox'
         /\ \A h \in Holders(i)' :
              \/ \E s \in TurnStates : h = <<"pending", s>> /\ i \in pending'[s]
              \/ \E a \in Actors : h = <<"hand", a>> /\ i \in hand'[a]
              \/ \E t \in Turns : h = <<"input", t>> /\ i \in input'[t]
              \/ h = <<"mailbox", None>> /\ i \in mailbox'
<1>1. \A s \in TurnStates : <<"pending", s>> \in Holders(i)' <=> i \in pending'[s]
  BY DEF Holders
<1>2. \A a \in Actors : <<"hand", a>> \in Holders(i)' <=> i \in hand'[a]
  BY DEF Holders
<1>3. \A t \in Turns : <<"input", t>> \in Holders(i)' <=> i \in input'[t]
  BY DEF Holders
<1>4. <<"mailbox", None>> \in Holders(i)' <=> i \in mailbox'
  BY DEF Holders
<1>5. \A h \in Holders(i)' :
        \/ \E s \in TurnStates : h = <<"pending", s>> /\ i \in pending'[s]
        \/ \E a \in Actors : h = <<"hand", a>> /\ i \in hand'[a]
        \/ \E t \in Turns : h = <<"input", t>> /\ i \in input'[t]
        \/ h = <<"mailbox", None>> /\ i \in mailbox'
  BY DEF Holders
<1> QED BY <1>1, <1>2, <1>3, <1>4, <1>5

(* If every item stays, leaves or comes to one place, no item is in two places and
   none is lost. *)
LEMMA StepOnce ==
  ASSUME DeliveredOnce, \A i \in Items : Stays(i) \/ Leaves(i) \/ Comes(i)
  PROVE  DeliveredOnce'
<1> SUFFICES ASSUME NEW i \in Items
             PROVE  /\ fate'[i] = "live" <=> Holders(i)' # {}
                    /\ \A h, k \in Holders(i)' : h = k
  BY DEF DeliveredOnce
<1>1. CASE Stays(i)
  <2>1. \A h : h \in Holders(i)' <=> h \in Holders(i)
    BY <1>1, HolderKinds, NewHolderKinds DEF Stays
  <2> QED BY <1>1, <2>1 DEF Stays, DeliveredOnce
<1>2. CASE Leaves(i)
  BY <1>2, NewHolderKinds DEF Leaves, NewPlace
<1>3. CASE Comes(i)
  <2>1. ASSUME NEW s \in TurnStates, NewPlace(i, {s}, {}, {}, FALSE)
        PROVE  Holders(i)' = {<<"pending", s>>}
    BY <2>1, NewHolderKinds DEF NewPlace
  <2>2. ASSUME NEW a \in Actors, NewPlace(i, {}, {a}, {}, FALSE)
        PROVE  Holders(i)' = {<<"hand", a>>}
    BY <2>2, NewHolderKinds DEF NewPlace
  <2>3. ASSUME NEW t \in Turns, NewPlace(i, {}, {}, {t}, FALSE)
        PROVE  Holders(i)' = {<<"input", t>>}
    BY <2>3, NewHolderKinds DEF NewPlace
  <2>4. ASSUME NewPlace(i, {}, {}, {}, TRUE) PROVE Holders(i)' = {<<"mailbox", None>>}
    BY <2>4, NewHolderKinds DEF NewPlace
  <2> QED BY <1>3, <2>1, <2>2, <2>3, <2>4 DEF Comes
<1> QED BY <1>1, <1>2, <1>3

(* A step of actor a that leaves it at a point where it may hold input, or with
   empty hands, and does not touch the others. *)
LEMMA StepHands ==
  ASSUME HandsOK, NEW a \in Actors, pc'[a] \in HandPcs \/ hand'[a] = {},
         \A b \in Actors : b # a => pc'[b] = pc[b] /\ hand'[b] = hand[b]
  PROVE  HandsOK'
BY DEF HandsOK

(* A step that gives no input to a task, whether or not it allocates a turn id. *)
LEMMA StepFresh ==
  ASSUME TypeOK, FreshOK, born' = born \/ born' = born + 1,
         \A t \in Turns : input'[t] = input[t] \/ input'[t] = {}
  PROVE  FreshOK'
<1>1. born \in Nat /\ Turns \subseteq Nat
  BY ConstantsAssumption DEF TypeOK, Turns
<1> SUFFICES ASSUME NEW t \in Turns, t > born' PROVE input'[t] = {}
  BY DEF FreshOK
<1>2. t \in Nat /\ t > born
  BY <1>1
<1> QED BY <1>2 DEF FreshOK

(* A step that touches no queue, of an actor that has nothing in its hands or may
   keep it there. *)
LEMMA ItemsStill ==
  ASSUME TypeOK, ItemsOK, NEW a \in Actors, pc[a] \notin HandPcs \/ pc'[a] \in HandPcs,
         \A b \in Actors : b # a => pc'[b] = pc[b],
         UNCHANGED <<pending, hand, input, mailbox, fate, born>>
  PROVE  ItemsOK'
<1> USE DEF ItemsOK
<1>1. \A i \in Items : Stays(i)
  BY DEF Stays
<1>2. DeliveredOnce'
  BY <1>1, StepOnce
<1>3. HandsOK'
  BY DEF HandsOK
<1>4. FreshOK'
  BY StepFresh
<1> QED BY <1>2, <1>3, <1>4

(* The ops and the steps of the loop that touch no queue. *)
LEMMA LoopStillItems ==
  ASSUME IInv, ItemsOK,
         \/ Interrupt \/ Shutdown \/ SuspendTurn \/ SuspendTake \/ ShutdownComplete
         \/ SuspendFails \/ RealtimeConversation \/ TransportClosed
         \/ \E t \in Turns : ExecApproval(t)
  PROVE  ItemsOK'
<1> USE Basics DEF IInv, HandPcs, locals, turnVars, stateVars, others
<1>1. CASE Interrupt
  BY <1>1, ItemsStill DEF Interrupt, LoopReady, Goto, TypeOK
<1>2. CASE Shutdown
  BY <1>2, ItemsStill DEF Shutdown, LoopReady, Goto, TypeOK
<1>3. CASE SuspendTurn
  BY <1>3, ItemsStill DEF SuspendTurn, LoopReady, Goto, TypeOK
<1>4. CASE SuspendTake
  BY <1>4, ItemsStill DEF SuspendTake, Goto, TypeOK
<1>5. CASE ShutdownComplete
  BY <1>5, ItemsStill DEF ShutdownComplete, Goto, TypeOK
<1>6. ASSUME NEW t \in Turns, ExecApproval(t) PROVE ItemsOK'
  <2>1. CASE pc[t] = "approval"
    BY <1>6, <2>1, ItemsStill DEF ExecApproval, Goto, TypeOK
  <2>2. CASE pc[t] # "approval"
    BY <1>6, <2>2, ItemsStill DEF ExecApproval, LoopReady, TypeOK
  <2> QED BY <2>1, <2>2
<1>7. CASE SuspendFails
  BY <1>7, ItemsStill DEF SuspendFails, Goto, TypeOK
<1>8. CASE RealtimeConversation
  BY <1>8, ItemsStill DEF RealtimeConversation, LoopReady, Goto, TypeOK
<1>9. CASE TransportClosed
  BY <1>9, ItemsStill DEF TransportClosed, Goto, TypeOK
<1> QED BY <1>1, <1>2, <1>3, <1>4, <1>5, <1>6, <1>7, <1>8, <1>9

(* The end of a conversation moves the loop and the fanout task, and no item. *)
LEMMA ConversationItems ==
  ASSUME IInv, ItemsOK, ConversationStopped
  PROVE  ItemsOK'
<1> USE Basics DEF IInv, ItemsOK, ConversationStopped, turnVars, stateVars, others
<1>1. \A i \in Items : Stays(i)
  BY DEF Stays
<1>2. DeliveredOnce'
  BY <1>1, StepOnce
<1>3. HandsOK'
  <2>1. hand[Loop] = {} /\ hand[Realtime] = {}
    BY DEF HandsOK, HandPcs
  <2>2. \A b \in Actors : b # Loop /\ b # Realtime => pc'[b] = pc[b]
    BY DEF TypeOK
  <2> QED BY <2>1, <2>2 DEF HandsOK
<1>4. FreshOK'
  BY StepFresh
<1> QED BY <1>2, <1>3, <1>4

(* The steps of a task that touch no queue. *)
LEMMA TaskStillItems ==
  ASSUME IInv, ItemsOK, NEW t \in Turns,
         \/ TaskStarted(t) \/ StandaloneWork(t) \/ SampleAnswer(t) \/ SampleToolCall(t)
         \/ AskApproval(t) \/ ApprovalDropped(t) \/ SampleError(t) \/ AfterSampling(t)
         \/ LoopCheck(t) \/ FinishEvent(t)
  PROVE  ItemsOK'
<1> USE Basics DEF IInv, TypeOK, HandPcs, Goto, Finish, locals, turnVars, stateVars, others
<1>1. CASE TaskStarted(t)
  BY <1>1, ItemsStill DEF TaskStarted
<1>2. CASE StandaloneWork(t)
  BY <1>2, ItemsStill DEF StandaloneWork
<1>3. CASE SampleAnswer(t)
  BY <1>3, ItemsStill DEF SampleAnswer
<1>4. CASE SampleToolCall(t)
  BY <1>4, ItemsStill DEF SampleToolCall
<1>5. CASE AskApproval(t)
  BY <1>5, ItemsStill DEF AskApproval
<1>6. CASE ApprovalDropped(t)
  BY <1>6, ItemsStill DEF ApprovalDropped
<1>7. CASE SampleError(t)
  BY <1>7, ItemsStill DEF SampleError
<1>8. CASE AfterSampling(t)
  BY <1>8, ItemsStill DEF AfterSampling
<1>9. CASE LoopCheck(t)
  BY <1>9, ItemsStill DEF LoopCheck
<1>10. CASE FinishEvent(t)
  BY <1>10, ItemsStill DEF FinishEvent
<1> QED BY <1>1, <1>2, <1>3, <1>4, <1>5, <1>6, <1>7, <1>8, <1>9, <1>10

(* An actor whose hands are empty loses nothing when its locals go out of scope. *)
LEMMA ResetKeeps ==
  ASSUME TypeOK, HandsOK, NEW a \in Actors, pc[a] \notin HandPcs, Reset({a})
  PROVE  hand' = hand
BY DEF TypeOK, HandsOK, Reset

(* ... in particular when the procedure it runs returns. *)
LEMMA ReturnItems ==
  ASSUME TypeOK, ItemsOK, NEW a \in Actors, pc[a] \notin HandPcs, Return(a),
         UNCHANGED <<pending, input, mailbox, fate, born>>
  PROVE  ItemsOK'
<1>1. hand' = hand
  BY ResetKeeps DEF Return, ItemsOK
<1>2. \A b \in Actors : b # a => pc'[b] = pc[b]
  BY DEF Return, Goto, TypeOK
<1> QED BY <1>1, <1>2, ItemsStill

(* The steps of an abort that touch no queue. *)
LEMMA AbortStillItems ==
  ASSUME IInv, ItemsOK, NEW a \in Actors, AbortTake(a) \/ AbortMarker(a) \/ AbortEvent(a)
  PROVE  ItemsOK'
<1> USE DEF IInv, HandPcs, locals, turnVars, stateVars
<1>1. CASE AbortMarker(a)
  BY <1>1, ItemsStill DEF AbortMarker, Goto, TypeOK
<1>2. CASE AbortEvent(a)
  BY <1>2, ItemsStill DEF AbortEvent, Goto, TypeOK
<1>3. CASE AbortTake(a) /\ TakeTask(a, reason[a])
  BY <1>3, ItemsStill DEF AbortTake, TakeTask, Goto, TypeOK
<1>4. CASE AbortTake(a) /\ Return(a)
  BY <1>4, ReturnItems DEF AbortTake
<1>5. CASE AbortTake(a) /\ Goto(a, "stDrain") /\ UNCHANGED hand
  BY <1>5, ItemsStill DEF AbortTake, Goto, TypeOK
<1> QED BY <1>1, <1>2, <1>3, <1>4, <1>5 DEF AbortTake

(* The guardian's steps, which touch no queue. *)
LEMMA GuardianItems ==
  ASSUME IInv, ItemsOK, GuardianTake \/ \E t \in Turns : GuardianDeny(t)
  PROVE  ItemsOK'
<1> USE Basics DEF IInv, HandPcs, turnVars, stateVars, others
<1>1. ASSUME NEW t \in Turns, GuardianDeny(t) PROVE ItemsOK'
  BY <1>1, ItemsStill DEF GuardianDeny, Goto, TypeOK
<1>2. CASE GuardianTake /\ TakeTask(Guardian, "Interrupted")
  BY <1>2, ItemsStill DEF GuardianTake, TakeTask, Goto, TypeOK
<1>3. CASE GuardianTake /\ Return(Guardian)
  BY <1>3, ReturnItems DEF GuardianTake
<1> QED BY <1>1, <1>2, <1>3 DEF GuardianTake

(* A task that returns, and the end of on_task_finished. *)
LEMMA FinishStillItems ==
  ASSUME IInv, ItemsOK, NEW t \in Turns, TaskReturned(t) \/ FinishClear(t)
  PROVE  ItemsOK'
<1> USE Basics DEF IInv, HandPcs, locals, turnVars, stateVars, others
<1>1. CASE TaskReturned(t) /\ Return(t)
  BY <1>1, ReturnItems DEF TaskReturned
<1>2. CASE TaskReturned(t) /\ ~Return(t)
  BY <1>2, ItemsStill DEF TaskReturned, Goto, TypeOK
<1>3. CASE FinishClear(t) /\ Return(t)
  BY <1>3, ReturnItems DEF FinishClear
<1>4. CASE FinishClear(t) /\ ~Return(t)
  <2>1. hand' = hand
    BY <1>4, ResetKeeps DEF FinishClear, ItemsOK
  <2> QED BY <1>4, <2>1, ItemsStill DEF FinishClear, Goto, TypeOK
<1> QED BY <1>1, <1>2, <1>3, <1>4

(* The turn under a fresh id is the only one whose input changes. *)
LEMMA NewTurnInput ==
  ASSUME TypeOK, FreshOK, NEW k \in Kinds, NEW X \in SUBSET Items, NewTurn(k, X)
  PROVE  /\ born + 1 \in Turns /\ input[born + 1] = {} /\ input'[born + 1] = X
         /\ \A t \in Turns : t # born + 1 => input'[t] = input[t]
         /\ FreshOK'
<1>1. born + 1 \in Turns
  BY NewTurnType
<1>2. born \in Nat /\ born' = born + 1
  BY ConstantsAssumption DEF TypeOK, NewTurn
<1>3. input'[born + 1] = X /\ \A t \in Turns : t # born + 1 => input'[t] = input[t]
  BY <1>1 DEF TypeOK, NewTurn
<1>4. input[born + 1] = {}
  BY <1>1, <1>2 DEF FreshOK
<1>5. FreshOK'
  <2> SUFFICES ASSUME NEW t \in Turns, t > born' PROVE input'[t] = {}
    BY DEF FreshOK
  <2>1. t \in Nat
    BY Basics
  <2>2. t > born /\ t # born + 1
    BY <2>1, <1>2
  <2> QED BY <2>2, <1>3 DEF FreshOK
<1> QED BY <1>1, <1>3, <1>4, <1>5

(* The fate of the items that do not settle. *)
LEMMA SettleFate ==
  ASSUME NEW X, NEW f, Settle(X, f)
  PROVE  \A i \in Items : fate'[i] = IF i \in X THEN f ELSE fate[i]
BY DEF Settle

(* The items in X are not owed to the model any more, and no other fate changes. *)
Gone(X) == \A i \in Items : IF i \in X THEN fate'[i] # "live" ELSE fate'[i] = fate[i]

LEMMA SettleGone ==
  ASSUME NEW X, NEW f, f # "live", Settle(X, f)
  PROVE  Gone(X)
BY DEF Settle, Gone

(* A hook stops only what would be recorded. *)
LEMMA RecordGone ==
  ASSUME NEW X, \E stopped \in Stoppable(X) : RecordItems(X, stopped)
  PROVE  Gone(X)
BY DEF Stoppable, RecordItems, Gone

(* An unsent item that is turned down, or recorded at once, stays out of the
   queues. *)
LEMMA UnsentOut ==
  ASSUME DeliveredOnce, NEW u \in Items, fate[u] = "unsent", NEW f, f # "live",
         Settle({u}, f), UNCHANGED <<pending, hand, input, mailbox>>
  PROVE  DeliveredOnce'
<1> SUFFICES ASSUME NEW i \in Items PROVE Stays(i) \/ Leaves(i) \/ Comes(i)
  BY StepOnce
<1>1. CASE i = u
  <2>1. Place(i, {}, {}, {}, FALSE)
    BY <1>1, AloneOut
  <2> QED BY <1>1, <2>1, SettleFate DEF Leaves, Place, NewPlace
<1>2. CASE i # u
  BY <1>2, SettleFate DEF Stays
<1> QED BY <1>1, <1>2

(* An unsent item that goes into a turn state is there and nowhere else. *)
LEMMA UnsentPending ==
  ASSUME TypeOK, DeliveredOnce, NEW u \in Items, fate[u] = "unsent", NEW s \in TurnStates,
         Settle({u}, "live"), pending' = [pending EXCEPT ![s] = @ \cup {u}],
         UNCHANGED <<hand, input, mailbox>>
  PROVE  DeliveredOnce'
<1> SUFFICES ASSUME NEW i \in Items PROVE Stays(i) \/ Leaves(i) \/ Comes(i)
  BY StepOnce
<1>1. \A r \in TurnStates : pending'[r] = IF r = s THEN pending[s] \cup {u} ELSE pending[r]
  BY DEF TypeOK
<1>2. CASE i = u
  <2>1. Place(i, {}, {}, {}, FALSE)
    BY <1>2, AloneOut
  <2>2. NewPlace(i, {s}, {}, {}, FALSE)
    BY <1>1, <1>2, <2>1 DEF Place, NewPlace
  <2> QED BY <1>2, <2>2, SettleFate DEF Comes
<1>3. CASE i # u
  BY <1>1, <1>3, SettleFate DEF Stays
<1> QED BY <1>2, <1>3

(* An unsent item that is the input of a fresh turn is nowhere else. *)
LEMMA UnsentInput ==
  ASSUME TypeOK, DeliveredOnce, FreshOK, NEW u \in Items, fate[u] = "unsent",
         NEW k \in Kinds, NewTurn(k, {u}), Settle({u}, "live"),
         UNCHANGED <<pending, hand, mailbox>>
  PROVE  DeliveredOnce' /\ FreshOK'
<1>1. PICK n \in Turns : /\ n = born + 1 /\ input[n] = {} /\ input'[n] = {u}
                         /\ \A t \in Turns : t # n => input'[t] = input[t]
  BY NewTurnInput
<1>2. \A i \in Items : Stays(i) \/ Leaves(i) \/ Comes(i)
  <2> TAKE i \in Items
  <2>1. CASE i = u
    <3>1. Place(i, {}, {}, {}, FALSE)
      BY <2>1, AloneOut
    <3>2. NewPlace(i, {}, {}, {n}, FALSE)
      BY <1>1, <2>1, <3>1 DEF Place, NewPlace
    <3> QED BY <2>1, <3>2, SettleFate DEF Comes
  <2>2. CASE i # u
    BY <1>1, <2>2, SettleFate DEF Stays
  <2> QED BY <2>1, <2>2
<1> QED BY <1>2, StepOnce, NewTurnInput

(* A steer or a rejection of an unsent input. *)
LEMMA SteerInputItems ==
  ASSUME IInv, ItemsOK, NEW u \in UserItems, fate[u] = "unsent",
         SteerInput(u) \/ NotSubmitted(u), UNCHANGED <<hand, mailbox>>
  PROVE  ItemsOK'
<1> USE DEF IInv, ItemsOK, Items, turnVars
<1>1. DeliveredOnce'
  <2>1. CASE SteerInput(u)
    <3>1. PICK s \in TurnStates : s = activeState
      BY <2>1 DEF SteerInput, HasTask, ActiveTaskAlive, TypeOK
    <3> QED BY <2>1, <3>1, UnsentPending DEF SteerInput, ExtendAndAccept
  <2>2. CASE NotSubmitted(u)
    BY <2>2, UnsentOut DEF NotSubmitted, stateVars
  <2> QED BY <2>1, <2>2
<1>2. HandsOK'
  BY DEF HandsOK, SteerInput, NotSubmitted
<1>3. FreshOK'
  BY StepFresh DEF SteerInput, NotSubmitted
<1> QED BY <1>1, <1>2, <1>3

(* Op::TurnInput, or a text of the realtime conversation: an input is steered into
   the active turn, given to a fresh turn or rejected. *)
LEMMA SubmitItems ==
  ASSUME IInv, ItemsOK, NEW u \in UserItems, NEW a \in Actors,
         \/ StartOrSteer(a, u)
         \/ a = Loop /\ (StartIfIdle(u) \/ \E t \in Turns : Steer(u, t))
  PROVE  ItemsOK'
<1> USE Basics DEF IInv
<1>1. fate[u] = "unsent" /\ pc[a] = "ready" /\ UNCHANGED <<hand, mailbox>>
  BY DEF StartOrSteer, StartIfIdle, Steer, LoopReady
<1>2. CASE SteerInput(u) \/ NotSubmitted(u)
  BY <1>1, <1>2, SteerInputItems
<1>3. CASE /\ NewTurn("regular", {u}) /\ Settle({u}, "live") /\ UNCHANGED stateVars
           /\ Goto(a, "abTake") \/ Goto(a, "siReserve")
  <2>1. "regular" \in Kinds /\ u \in Items /\ {u} \in SUBSET Items
    BY DEF Kinds, Items
  <2>2. DeliveredOnce' /\ FreshOK'
    BY <1>1, <1>3, <2>1, UnsentInput DEF ItemsOK, stateVars
  <2>3. HandsOK'
    <3>1. hand[a] = {} /\ \A b \in Actors : b # a => pc'[b] = pc[b]
      BY <1>1, <1>3 DEF ItemsOK, HandsOK, HandPcs, Goto, TypeOK
    <3> QED BY <1>1, <3>1, StepHands DEF ItemsOK
  <2> QED BY <2>2, <2>3 DEF ItemsOK
<1> QED BY <1>2, <1>3 DEF StartOrSteer, StartIfIdle, Steer, ReplaceWith

(* The input of a task is recorded, rejected or lost. *)
LEMMA InputOut ==
  ASSUME TypeOK, DeliveredOnce, NEW t \in Turns, Gone(input[t]),
         input' = [input EXCEPT ![t] = {}], UNCHANGED <<pending, hand, mailbox>>
  PROVE  DeliveredOnce'
<1> SUFFICES ASSUME NEW i \in Items PROVE Stays(i) \/ Leaves(i) \/ Comes(i)
  BY StepOnce
<1>1. input'[t] = {} /\ \A r \in Turns : r # t => input'[r] = input[r]
  BY DEF TypeOK
<1>2. CASE i \in input[t]
  <2>1. Place(i, {}, {}, {t}, FALSE)
    BY <1>2, AloneInput
  <2>2. NewPlace(i, {}, {}, {}, FALSE)
    BY <1>1, <2>1 DEF Place, NewPlace
  <2> QED BY <1>2, <2>2 DEF Leaves, Gone
<1>3. CASE i \notin input[t]
  BY <1>1, <1>3 DEF Stays, Gone
<1> QED BY <1>2, <1>3

(* What an actor has in its hands is recorded. *)
LEMMA HandOut ==
  ASSUME TypeOK, DeliveredOnce, NEW a \in Actors, Gone(hand[a]),
         hand' = [hand EXCEPT ![a] = {}], UNCHANGED <<pending, input, mailbox>>
  PROVE  DeliveredOnce'
<1> SUFFICES ASSUME NEW i \in Items PROVE Stays(i) \/ Leaves(i) \/ Comes(i)
  BY StepOnce
<1>1. hand'[a] = {} /\ \A b \in Actors : b # a => hand'[b] = hand[b]
  BY DEF TypeOK
<1>2. CASE i \in hand[a]
  <2>1. Place(i, {}, {a}, {}, FALSE)
    BY <1>2, AloneHand
  <2>2. NewPlace(i, {}, {}, {}, FALSE)
    BY <1>1, <2>1 DEF Place, NewPlace
  <2> QED BY <1>2, <2>2 DEF Leaves, Gone
<1>3. CASE i \notin hand[a]
  BY <1>1, <1>3 DEF Stays, Gone
<1> QED BY <1>2, <1>3

(* A task is stopped: its input, and what it had drained, are lost. *)
LEMMA TaskOut ==
  ASSUME TypeOK, DeliveredOnce, NEW v \in Turns,
         Settle(hand[v] \cup input[v], "dropped"), input' = [input EXCEPT ![v] = {}],
         hand'[v] = {}, \A b \in Actors : b # v => hand'[b] = hand[b],
         UNCHANGED <<pending, mailbox>>
  PROVE  DeliveredOnce'
<1> SUFFICES ASSUME NEW i \in Items PROVE Stays(i) \/ Leaves(i) \/ Comes(i)
  BY StepOnce
<1>1. v \in Actors /\ input'[v] = {} /\ \A r \in Turns : r # v => input'[r] = input[r]
  BY Basics DEF TypeOK
<1>2. fate'[i] = IF i \in hand[v] \/ i \in input[v] THEN "dropped" ELSE fate[i]
  BY DEF Settle
<1>3. CASE i \in hand[v]
  <2>1. Place(i, {}, {v}, {}, FALSE)
    BY <1>1, <1>3, AloneHand
  <2>2. NewPlace(i, {}, {}, {}, FALSE)
    BY <1>1, <2>1 DEF Place, NewPlace
  <2> QED BY <1>3, <2>2, <1>2 DEF Leaves
<1>4. CASE i \in input[v]
  <2>1. Place(i, {}, {}, {v}, FALSE)
    BY <1>1, <1>4, AloneInput
  <2>2. NewPlace(i, {}, {}, {}, FALSE)
    BY <1>1, <2>1 DEF Place, NewPlace
  <2> QED BY <1>4, <2>2, <1>2 DEF Leaves
<1>5. CASE i \notin hand[v] \cup input[v]
  BY <1>1, <1>5, <1>2 DEF Stays
<1> QED BY <1>3, <1>4, <1>5

(* What an actor has in its hands goes into a turn state. *)
LEMMA HandToPending ==
  ASSUME TypeOK, DeliveredOnce, NEW a \in Actors, NEW s \in TurnStates,
         pending' = [pending EXCEPT ![s] = @ \cup hand[a]],
         hand' = [hand EXCEPT ![a] = {}], UNCHANGED <<input, mailbox, fate>>
  PROVE  DeliveredOnce'
<1> SUFFICES ASSUME NEW i \in Items PROVE Stays(i) \/ Leaves(i) \/ Comes(i)
  BY StepOnce
<1>1. /\ hand'[a] = {} /\ \A b \in Actors : b # a => hand'[b] = hand[b]
      /\ pending'[s] = pending[s] \cup hand[a]
      /\ \A r \in TurnStates : r # s => pending'[r] = pending[r]
  BY DEF TypeOK
<1>2. CASE i \in hand[a]
  <2>1. fate[i] = "live" /\ Place(i, {}, {a}, {}, FALSE)
    BY <1>2, AloneHand
  <2>2. NewPlace(i, {s}, {}, {}, FALSE)
    BY <1>1, <1>2, <2>1 DEF Place, NewPlace
  <2> QED BY <2>1, <2>2 DEF Comes
<1>3. CASE i \notin hand[a]
  BY <1>1, <1>3 DEF Stays
<1> QED BY <1>2, <1>3

(* Automatic input goes from the turn that is not started yet into its turn
   state. *)
LEMMA InputToPending ==
  ASSUME TypeOK, DeliveredOnce, NEW t \in Turns, NEW s \in TurnStates,
         pending' = [pending EXCEPT ![s] = @ \cup input[t]],
         input' = [input EXCEPT ![t] = {}], UNCHANGED <<hand, mailbox, fate>>
  PROVE  DeliveredOnce'
<1> SUFFICES ASSUME NEW i \in Items PROVE Stays(i) \/ Leaves(i) \/ Comes(i)
  BY StepOnce
<1>1. /\ input'[t] = {} /\ \A r \in Turns : r # t => input'[r] = input[r]
      /\ pending'[s] = pending[s] \cup input[t]
      /\ \A r \in TurnStates : r # s => pending'[r] = pending[r]
  BY DEF TypeOK
<1>2. CASE i \in input[t]
  <2>1. fate[i] = "live" /\ Place(i, {}, {}, {t}, FALSE)
    BY <1>2, AloneInput
  <2>2. NewPlace(i, {s}, {}, {}, FALSE)
    BY <1>1, <1>2, <2>1 DEF Place, NewPlace
  <2> QED BY <2>1, <2>2 DEF Comes
<1>3. CASE i \notin input[t]
  BY <1>1, <1>3 DEF Stays
<1> QED BY <1>2, <1>3

(* An actor with empty hands takes the mailbox, the input of a turn state, or
   both. *)
LEMMA TakenInHand ==
  ASSUME TypeOK, DeliveredOnce, NEW a \in Actors, hand[a] = {}, NEW S \in SUBSET TurnStates,
         \A s \in TurnStates : pending'[s] = IF s \in S THEN {} ELSE pending[s],
         NEW M, M = mailbox \/ M = {}, mailbox' = mailbox \ M,
         hand' = [hand EXCEPT ![a] = M \cup UNION {pending[s] : s \in S}],
         UNCHANGED <<input, fate>>
  PROVE  DeliveredOnce'
<1> SUFFICES ASSUME NEW i \in Items PROVE Stays(i) \/ Leaves(i) \/ Comes(i)
  BY StepOnce
<1>1. /\ \A b \in Actors : b # a => hand'[b] = hand[b]
      /\ i \in hand'[a] <=> i \in M \/ \E s \in S : i \in pending[s]
  BY DEF TypeOK
<1>2. CASE i \in M
  <2>1. fate[i] = "live" /\ Place(i, {}, {}, {}, TRUE)
    BY <1>2, AloneMailbox
  <2>2. NewPlace(i, {}, {a}, {}, FALSE)
    BY <1>1, <1>2, <2>1 DEF Place, NewPlace
  <2> QED BY <2>1, <2>2 DEF Comes
<1>3. ASSUME NEW s \in S, i \in pending[s] PROVE Comes(i)
  <2>1. fate[i] = "live" /\ Place(i, {s}, {}, {}, FALSE)
    BY <1>3, AlonePending
  <2>2. NewPlace(i, {}, {a}, {}, FALSE)
    BY <1>1, <1>3, <2>1 DEF Place, NewPlace
  <2> QED BY <2>1, <2>2 DEF Comes
<1>4. CASE i \notin M /\ \A s \in S : i \notin pending[s]
  BY <1>1, <1>4 DEF Stays
<1> QED BY <1>2, <1>3, <1>4

(* start_if_idle gives up its turn and rejects its input. *)
LEMMA RejectJobItems ==
  ASSUME IInv, ItemsOK, RejectJob, pc[Loop] \in {"siReserve", "siSettings"},
         UNCHANGED <<pending, mailbox, born>>
  PROVE  ItemsOK'
<1> USE Basics DEF IInv, ItemsOK
<1>1. PICK t \in Turns : t = job[Loop]
  <2>1. job[Loop] # None /\ job[Loop] \in Turns \cup {None}
    BY DEF LocalsSet, JobPcs, TypeOK
  <2> QED BY <2>1
<1>2. hand' = hand
  BY ResetKeeps DEF RejectJob, Return, HandPcs
<1>3. DeliveredOnce'
  BY <1>1, <1>2, SettleGone, InputOut DEF RejectJob
<1>4. HandsOK'
  <2>1. hand[Loop] = {} /\ \A b \in Actors : b # Loop => pc'[b] = pc[b]
    BY DEF HandsOK, HandPcs, RejectJob, Return, Goto, TypeOK
  <2> QED BY <1>2, <2>1, StepHands
<1>5. FreshOK'
  <2>1. \A r \in Turns : input'[r] = input[r] \/ input'[r] = {}
    BY <1>1 DEF RejectJob, TypeOK
  <2> QED BY <2>1, StepFresh
<1> QED BY <1>3, <1>4, <1>5

(* The reservation of start_if_idle. *)
LEMMA StartIfIdleReserveItems ==
  ASSUME IInv, ItemsOK, StartIfIdleReserve
  PROVE  ItemsOK'
<1> USE Basics DEF StartIfIdleReserve, stateVars, others
<1>1. CASE RejectJob
  BY <1>1, RejectJobItems
<1>2. CASE ~RejectJob
  BY <1>2, ItemsStill DEF IInv, TypeOK, Goto, HandPcs
<1> QED BY <1>1, <1>2

(* Automatic input waits in the reserved turn state. *)
LEMMA StartIfIdleSettingsItems ==
  ASSUME IInv, ItemsOK, StartIfIdleSettings
  PROVE  ItemsOK'
<1> USE Basics DEF IInv, StartIfIdleSettings, stateVars, others, locals
<1>1. CASE RejectJob /\ UNCHANGED stateVars
  BY <1>1, RejectJobItems
<1>2. CASE Goto(Loop, "stDrain") /\ UNCHANGED <<input, stateVars, locals, fate>>
  BY <1>2, ItemsStill DEF TypeOK, Goto, HandPcs
<1>3. CASE /\ Goto(Loop, "stDrain") /\ UNCHANGED <<locals, fate>>
           /\ Extend(home[Loop], input[job[Loop]])
           /\ input' = [input EXCEPT ![job[Loop]] = {}]
  <2>1. PICK t \in Turns : t = job[Loop]
    <3>1. job[Loop] # None /\ job[Loop] \in Turns \cup {None}
      BY DEF LocalsSet, JobPcs, TypeOK
    <3> QED BY <3>1
  <2>2. PICK s \in TurnStates : s = home[Loop]
    <3>1. home[Loop] # None /\ home[Loop] \in TurnStates \cup {None}
      BY DEF LocalsSet, HomePcs, TypeOK
    <3> QED BY <3>1
  <2>3. DeliveredOnce'
    BY <1>3, <2>1, <2>2, InputToPending DEF ItemsOK, Extend
  <2>4. HandsOK'
    <3>1. hand[Loop] = {} /\ \A b \in Actors : b # Loop => pc'[b] = pc[b]
      BY <1>3 DEF ItemsOK, HandsOK, HandPcs, Goto, TypeOK
    <3> QED BY <1>3, <3>1, StepHands DEF ItemsOK
  <2>5. FreshOK'
    <3>1. \A r \in Turns : input'[r] = input[r] \/ input'[r] = {}
      BY <1>3, <2>1 DEF TypeOK
    <3> QED BY <3>1, StepFresh DEF ItemsOK
  <2> QED BY <2>3, <2>4, <2>5 DEF ItemsOK
<1> QED BY <1>1, <1>2, <1>3

(* A mail comes into the mailbox. *)
LEMMA InterAgentCommunicationItems ==
  ASSUME IInv, ItemsOK, NEW m \in Mails, InterAgentCommunication(m)
  PROVE  ItemsOK'
<1> USE Basics DEF IInv, InterAgentCommunication, locals, turnVars, stateVars, others
<1>1. \A i \in Items : Stays(i) \/ Leaves(i) \/ Comes(i)
  <2> TAKE i \in Items
  <2>1. CASE i = m
    <3>1. Place(i, {}, {}, {}, FALSE)
      BY <2>1, AloneOut DEF ItemsOK
    <3>2. NewPlace(i, {}, {}, {}, TRUE)
      BY <2>1, <3>1 DEF Place, NewPlace
    <3> QED BY <2>1, <3>2, SettleFate DEF Comes
  <2>2. CASE i # m
    BY <2>2, SettleFate DEF Stays
  <2> QED BY <2>1, <2>2
<1>2. DeliveredOnce'
  BY <1>1, StepOnce DEF ItemsOK
<1>3. HandsOK'
  <2>1. hand[Loop] = {} /\ \A b \in Actors : b # Loop => pc'[b] = pc[b]
    BY DEF ItemsOK, HandsOK, HandPcs, LoopReady, Goto, TypeOK
  <2> QED BY <2>1, StepHands DEF ItemsOK
<1>4. FreshOK'
  BY StepFresh DEF ItemsOK
<1> QED BY <1>2, <1>3, <1>4 DEF ItemsOK

(* A fresh turn without input. *)
LEMMA EmptyTurnItems ==
  ASSUME IInv, ItemsOK, NEW k \in Kinds, NewTurn(k, {}), NEW a \in Actors,
         pc[a] \notin HandPcs, \A b \in Actors : b # a => pc'[b] = pc[b],
         UNCHANGED <<pending, hand, mailbox, fate>>
  PROVE  ItemsOK'
<1> USE DEF IInv, ItemsOK
<1>1. {} \in SUBSET Items
  OBVIOUS
<1>2. FreshOK' /\ \A t \in Turns : input'[t] = input[t]
  BY <1>1, NewTurnInput
<1>3. DeliveredOnce'
  <2>1. \A i \in Items : Stays(i)
    BY <1>2 DEF Stays
  <2> QED BY <2>1, StepOnce
<1>4. HandsOK'
  BY DEF HandsOK
<1> QED BY <1>2, <1>3, <1>4

(* A standalone task, and a turn for pending work, are created without input. *)
LEMMA SpawnStandaloneItems ==
  ASSUME IInv, ItemsOK, NEW k \in OtherKinds, SpawnStandalone(k)
  PROVE  ItemsOK'
<1>1. k \in Kinds
  BY ConstantsAssumption
<1> QED BY <1>1, Basics, EmptyTurnItems
        DEF SpawnStandalone, ReplaceWith, LoopReady, Goto, HandPcs, stateVars, IInv, TypeOK

LEMMA MaybeStartItems ==
  ASSUME IInv, ItemsOK, NEW a \in Actors, MaybeStartCheck(a) \/ MaybeStartReserve(a)
  PROVE  ItemsOK'
<1> USE DEF IInv, HandPcs, locals, turnVars, stateVars, others
<1>1. CASE MaybeStartCheck(a) /\ Return(a)
  BY <1>1, ReturnItems DEF MaybeStartCheck
<1>2. CASE MaybeStartCheck(a) /\ ~Return(a)
  BY <1>2, ItemsStill DEF MaybeStartCheck, Goto, TypeOK
<1>3. CASE MaybeStartReserve(a) /\ Return(a) /\ UNCHANGED <<turnVars, born>>
  BY <1>3, ReturnItems DEF MaybeStartReserve
<1>4. CASE MaybeStartReserve(a) /\ NewTurn("regular", {}) /\ Goto(a, "mbDrain")
             /\ UNCHANGED hand
  <2>1. "regular" \in Kinds
    BY DEF Kinds
  <2> QED BY <1>4, <2>1, EmptyTurnItems DEF MaybeStartReserve, Goto, TypeOK
<1> QED BY <1>1, <1>2, <1>3, <1>4 DEF MaybeStartReserve

(* get_pending_input into empty hands. *)
LEMMA GetPendingInputItems ==
  ASSUME TypeOK, DeliveredOnce, NEW a \in Actors, hand[a] = {}, GetPendingInput(a),
         UNCHANGED <<input, fate>>
  PROVE  /\ DeliveredOnce'
         /\ \A b \in Actors : b # a => hand'[b] = hand[b]
<1> USE DEF GetPendingInput
<1>1. \A b \in Actors : b # a => hand'[b] = hand[b]
  BY DEF TypeOK
<1>2. CASE activeState = None
  <2>1. mailbox \cup UNION {pending[s] : s \in {}} = mailbox /\ mailbox' = mailbox \ mailbox
    BY <1>2
  <2>2. \A s \in TurnStates : pending'[s] = IF s \in {} THEN {} ELSE pending[s]
    BY <1>2
  <2>3. PICK M : M = mailbox
    OBVIOUS
  <2> QED BY <1>1, <1>2, <2>1, <2>2, <2>3, TakenInHand
<1>3. CASE activeState # None /\ accepts[activeState]
  <2>1. PICK r \in TurnStates : r = activeState
    BY <1>3 DEF TypeOK
  <2>2. PICK S \in SUBSET TurnStates : S = {r}
    OBVIOUS
  <2>3. PICK M : M = mailbox
    OBVIOUS
  <2>4. mailbox' = mailbox \ M /\ UNION {pending[s] : s \in S} = pending[r]
    BY <1>3, <2>2, <2>3
  <2>5. \A s \in TurnStates : pending'[s] = IF s \in S THEN {} ELSE pending[s]
    BY <1>3, <2>1, <2>2 DEF TypeOK
  <2>6. hand' = [hand EXCEPT ![a] = M \cup UNION {pending[s] : s \in S}]
    BY <1>3, <2>1, <2>3, <2>4
  <2> QED BY <1>1, <2>3, <2>4, <2>5, <2>6, TakenInHand
<1>4. CASE activeState # None /\ ~accepts[activeState]
  <2>1. \A i \in Items : Stays(i)
    BY <1>4 DEF Stays
  <2> QED BY <1>1, <2>1, StepOnce
<1> QED BY <1>2, <1>3, <1>4

(* The drain of a task, and of a turn for pending work. *)
LEMMA DrainItems ==
  ASSUME IInv, ItemsOK, NEW a \in Actors,
         MaybeStartDrain(a) \/ (a \in Turns /\ DrainPending(a))
  PROVE  ItemsOK'
<1> USE DEF IInv, ItemsOK, MaybeStartDrain, DrainPending, turnVars, others
<1>1. hand[a] = {}
  BY DEF HandsOK, HandPcs
<1>2. DeliveredOnce' /\ \A b \in Actors : b # a => hand'[b] = hand[b]
  BY <1>1, GetPendingInputItems
<1>3. HandsOK'
  <2>1. pc'[a] \in HandPcs /\ \A b \in Actors : b # a => pc'[b] = pc[b]
    BY DEF Goto, HandPcs, TypeOK
  <2> QED BY <1>2, <2>1, StepHands
<1>4. FreshOK'
  BY StepFresh
<1> QED BY <1>2, <1>3, <1>4

(* drain_mailbox_input_items *)
LEMMA StartDrainItems ==
  ASSUME IInv, ItemsOK, NEW a \in Actors, StartDrain(a)
  PROVE  ItemsOK'
<1> USE DEF IInv, ItemsOK, StartDrain, turnVars, stateVars, others
<1>1. hand[a] = {}
  BY DEF HandsOK, HandPcs
<1>2. DeliveredOnce'
  <2>1. PICK M : M = mailbox
    OBVIOUS
  <2>2. M \cup UNION {pending[s] : s \in {}} = M /\ mailbox' = mailbox \ M
    BY <2>1
  <2>3. \A s \in TurnStates : pending'[s] = IF s \in {} THEN {} ELSE pending[s]
    OBVIOUS
  <2> QED BY <1>1, <2>1, <2>2, <2>3, TakenInHand
<1>3. HandsOK'
  <2>1. /\ pc'[a] \in HandPcs
        /\ \A b \in Actors : b # a => pc'[b] = pc[b] /\ hand'[b] = hand[b]
    BY DEF Goto, HandPcs, TypeOK
  <2> QED BY <2>1, StepHands
<1>4. FreshOK'
  BY StepFresh
<1> QED BY <1>2, <1>3, <1>4

(* Drained mail goes into the reserved turn state, or into the one start_task has
   attached to. *)
LEMMA ExtendItems ==
  ASSUME IInv, ItemsOK, NEW a \in Actors, MaybeStartExtend(a) \/ StartExtend(a)
  PROVE  ItemsOK'
<1> USE DEF IInv, ItemsOK, turnVars, stateVars, others
<1>1. PICK s \in TurnStates : Extend(s, hand[a])
  <2>1. home[a] # None /\ home[a] \in TurnStates \cup {None}
    BY DEF MaybeStartExtend, StartExtend, LocalsSet, HomePcs, TypeOK
  <2> QED BY <2>1 DEF MaybeStartExtend, StartExtend
<1>2. /\ hand' = [hand EXCEPT ![a] = {}] /\ UNCHANGED <<input, mailbox, fate, born>>
      /\ \E p \in {"stDrain", "stInstall"} : Goto(a, p)
  BY DEF MaybeStartExtend, StartExtend
<1>3. DeliveredOnce'
  BY <1>1, <1>2, HandToPending DEF Extend
<1>4. HandsOK'
  <2>1. /\ hand'[a] = {}
        /\ \A b \in Actors : b # a => pc'[b] = pc[b] /\ hand'[b] = hand[b]
    BY <1>2 DEF Goto, TypeOK
  <2> QED BY <2>1, StepHands
<1>5. FreshOK'
  BY <1>2, StepFresh
<1> QED BY <1>3, <1>4, <1>5

(* start_task attaches to the active turn with the mail in its hands. *)
LEMMA StartAttachItems ==
  ASSUME IInv, ItemsOK, NEW a \in Actors, StartAttach(a)
  PROVE  ItemsOK'
BY ItemsStill DEF IInv, StartAttach, Goto, HandPcs, TypeOK, turnVars, stateVars, others

(* A task records its input, loses it to an error or observes the cancellation. *)
LEMMA InputOutItems ==
  ASSUME IInv, ItemsOK, NEW t \in Turns,
         RecordInput(t) \/ PreSamplingCompactFails(t) \/ ObserveCancel(t)
  PROVE  ItemsOK'
<1> USE Basics DEF IInv, ItemsOK, RecordInput, PreSamplingCompactFails, ObserveCancel,
                   Finish, Goto, locals, stateVars, others
<1>1. Gone(input[t])
  BY SettleGone, RecordGone
<1>2. input' = [input EXCEPT ![t] = {}] /\ UNCHANGED <<pending, hand, mailbox, born>>
  OBVIOUS
<1>3. DeliveredOnce'
  BY <1>1, <1>2, InputOut
<1>4. HandsOK'
  <2>1. hand[t] = {} /\ \A b \in Actors : b # t => pc'[b] = pc[b]
    BY DEF HandsOK, HandPcs, TypeOK
  <2> QED BY <1>2, <2>1, StepHands
<1>5. FreshOK'
  <2>1. \A r \in Turns : input'[r] = input[r] \/ input'[r] = {}
    BY <1>2 DEF TypeOK
  <2> QED BY <1>2, <2>1, StepFresh
<1> QED BY <1>3, <1>4, <1>5

(* A task records what it drained, and on_task_finished what was left. *)
LEMMA HandOutItems ==
  ASSUME IInv, ItemsOK, NEW t \in Turns, RecordPending(t) \/ FinishRecord(t)
  PROVE  ItemsOK'
<1> USE Basics DEF IInv, ItemsOK, RecordPending, FinishRecord, Goto, turnVars, stateVars,
                   others
<1>1. DeliveredOnce'
  BY RecordGone, HandOut
<1>2. HandsOK'
  <2>1. /\ hand'[t] = {}
        /\ \A b \in Actors : b # t => pc'[b] = pc[b] /\ hand'[b] = hand[b]
    BY DEF TypeOK
  <2> QED BY <2>1, StepHands
<1>3. FreshOK'
  BY StepFresh
<1> QED BY <1>1, <1>2, <1>3

(* on_task_finished takes what the turn left pending. *)
LEMMA FinishTakeItems ==
  ASSUME IInv, ItemsOK, NEW t \in Turns, FinishTake(t)
  PROVE  ItemsOK'
<1> USE Basics DEF IInv, FinishTake, turnVars, others
<1>1. CASE HasTask
  <2>1. PICK r \in TurnStates : r = activeState
    BY <1>1 DEF HasTask, ActiveTaskAlive, TypeOK
  <2>2. PICK S \in SUBSET TurnStates : S = {r}
    OBVIOUS
  <2>3. PICK M : M = {}
    OBVIOUS
  <2>4. mailbox' = mailbox \ M /\ M \cup UNION {pending[s] : s \in S} = pending[r]
    BY <2>2, <2>3
  <2>5. \A s \in TurnStates : pending'[s] = IF s \in S THEN {} ELSE pending[s]
    BY <1>1, <2>1, <2>2 DEF TakePending, TypeOK
  <2>6. hand' = [hand EXCEPT ![t] = M \cup UNION {pending[s] : s \in S}]
    BY <1>1, <2>1, <2>4 DEF TakePending
  <2>7. hand[t] = {} /\ UNCHANGED <<input, fate>>
    BY <1>1 DEF ItemsOK, HandsOK, HandPcs
  <2>8. DeliveredOnce'
    BY <2>3, <2>4, <2>5, <2>6, <2>7, TakenInHand DEF ItemsOK
  <2>9. HandsOK'
    <3>1. /\ pc'[t] \in HandPcs
          /\ \A b \in Actors : b # t => pc'[b] = pc[b] /\ hand'[b] = hand[b]
      BY <1>1, <2>6 DEF Goto, HandPcs, TypeOK
    <3> QED BY <3>1, StepHands DEF ItemsOK
  <2>10. FreshOK'
    BY StepFresh DEF ItemsOK
  <2> QED BY <2>8, <2>9, <2>10 DEF ItemsOK
<1>2. CASE ~HasTask
  BY <1>2, ReturnItems DEF HandPcs
<1> QED BY <1>1, <1>2

(* clear_pending drops what waits in the turn state of the aborted turn. *)
LEMMA AbortClearItems ==
  ASSUME IInv, ItemsOK, NEW a \in Actors, AbortClear(a)
  PROVE  ItemsOK'
<1> USE DEF IInv, ItemsOK, AbortClear, turnVars
<1>1. PICK s \in TurnStates : s = home[a]
  <2>1. home[a] # None /\ home[a] \in TurnStates \cup {None}
    BY DEF LocalsSet, HomePcs, VictimPcs, TypeOK
  <2> QED BY <2>1
<1>2. /\ Settle(pending[s], "dropped") /\ pending'[s] = {}
      /\ \A r \in TurnStates : r # s => pending'[r] = pending[r]
  BY <1>1 DEF ClearPending, TypeOK
<1>3. \A i \in Items : Stays(i) \/ Leaves(i) \/ Comes(i)
  <2> TAKE i \in Items
  <2>1. CASE i \in pending[s]
    <3>1. Place(i, {s}, {}, {}, FALSE)
      BY <2>1, AlonePending
    <3>2. NewPlace(i, {}, {}, {}, FALSE)
      BY <1>2, <3>1 DEF Place, NewPlace
    <3>3. fate'[i] = "dropped"
      BY <1>2, <2>1, SettleFate
    <3> QED BY <3>2, <3>3 DEF Leaves
  <2>2. CASE i \notin pending[s]
    <3>1. fate'[i] = fate[i]
      BY <1>2, <2>2, SettleFate
    <3> QED BY <1>2, <2>2, <3>1 DEF Stays
  <2> QED BY <2>1, <2>2
<1>4. DeliveredOnce'
  BY <1>3, StepOnce
<1>5. HandsOK'
  <2>1. hand[a] = {} /\ \A b \in Actors : b # a => pc'[b] = pc[b]
    BY DEF HandsOK, HandPcs, Goto, TypeOK
  <2> QED BY <2>1, StepHands
<1>6. FreshOK'
  BY StepFresh
<1> QED BY <1>4, <1>5, <1>6

(* An aborted task loses its input and what it had drained. *)
LEMMA AbortWaitItems ==
  ASSUME IInv, ItemsOK, NEW a \in Actors, AbortWait(a)
  PROVE  ItemsOK'
<1> USE Basics DEF IInv, ItemsOK, stateVars, others
<1>1. PICK v \in Turns : v = victim[a]
  <2>1. victim[a] \in cancelled /\ cancelled \subseteq Turns
    BY DEF AbortWait, LocalsSet, VictimPcs, TypeOK
  <2> QED BY <2>1
<1>2. /\ Settle(hand[v] \cup input[v], "dropped") /\ input' = [input EXCEPT ![v] = {}]
      /\ UNCHANGED <<pending, mailbox, born>>
  BY <1>1 DEF AbortWait
<1>3. hand'[v] = {} /\ \A b \in Actors : b # v => hand'[b] = hand[b]
  BY <1>1 DEF AbortWait, Reset
<1>4. DeliveredOnce'
  BY <1>2, <1>3, TaskOut
<1>5. HandsOK'
  <2>1. hand[a] = {} /\ \A b \in Actors : b # a /\ b # v => pc'[b] = pc[b]
    BY <1>1 DEF AbortWait, HandsOK, HandPcs, TypeOK
  <2> QED BY <1>3, <2>1 DEF HandsOK
<1>6. FreshOK'
  <2>1. \A r \in Turns : input'[r] = input[r] \/ input'[r] = {}
    BY <1>2 DEF TypeOK
  <2> QED BY <1>2, <2>1, StepFresh
<1> QED BY <1>4, <1>5, <1>6

(* A task that is overwritten loses the same; the task that is spawned has its
   input and empty hands. *)
LEMMA StartInstallItems ==
  ASSUME IInv, ItemsOK, NEW a \in Actors, StartInstall(a)
  PROVE  ItemsOK'
<1> USE Basics DEF IInv, ItemsOK, StartInstall, stateVars, others
<1>1. hand[a] = {}
  BY DEF HandsOK, HandPcs
<1>2. PICK j \in Turns : j = job[a] /\ hand[j] = {}
  <2>1. job[a] # None /\ job[a] \in Turns
    BY DEF LocalsSet, JobPcs, TypeOK
  <2>2. pc[job[a]] = "idle"
    BY <2>1 DEF JobsFresh
  <2> QED BY <2>1, <2>2 DEF HandsOK, HandPcs
<1>3. CASE HasTask
  <2>1. PICK v \in Turns : v = activeTask
    BY <1>3 DEF HasTask, TypeOK
  <2>2. /\ Settle(hand[v] \cup input[v], "dropped") /\ input' = [input EXCEPT ![v] = {}]
        /\ UNCHANGED <<pending, mailbox, born>>
    BY <1>3, <2>1
  <2>3. hand'[v] = {} /\ \A b \in Actors : b # v => hand'[b] = hand[b]
    BY <1>1, <1>3, <2>1 DEF Reset
  <2>4. DeliveredOnce'
    BY <2>2, <2>3, TaskOut
  <2>5. HandsOK'
    <3>1. \A b \in Actors : b \notin {a, v, j} => pc'[b] = pc[b]
      BY <1>2, <1>3, <2>1 DEF TypeOK
    <3> QED BY <1>1, <1>2, <2>3, <3>1 DEF HandsOK
  <2>6. FreshOK'
    <3>1. \A r \in Turns : input'[r] = input[r] \/ input'[r] = {}
      BY <2>2 DEF TypeOK
    <3> QED BY <2>2, <3>1, StepFresh
  <2> QED BY <2>4, <2>5, <2>6
<1>4. CASE ~HasTask
  <2>1. hand' = hand /\ UNCHANGED <<pending, mailbox, born, input, fate>>
    BY <1>1, <1>4, ResetKeeps DEF HandPcs
  <2>2. DeliveredOnce'
    <3>1. \A i \in Items : Stays(i)
      BY <2>1 DEF Stays
    <3> QED BY <3>1, StepOnce
  <2>3. HandsOK'
    <3>1. \A b \in Actors : b \notin {a, j} => pc'[b] = pc[b]
      BY <1>2, <1>4 DEF TypeOK
    <3> QED BY <1>1, <1>2, <2>1, <3>1 DEF HandsOK
  <2>4. FreshOK'
    BY <2>1, StepFresh
  <2> QED BY <2>2, <2>3, <2>4
<1> QED BY <1>3, <1>4

(* An injection goes into the active turn or straight into history. *)
LEMMA InjectItems ==
  ASSUME IInv, ItemsOK, NEW x \in Injections, InjectNoNewTurn(x)
  PROVE  ItemsOK'
<1> USE DEF IInv, ItemsOK, InjectNoNewTurn, locals, turnVars, others, Items
<1>1. DeliveredOnce'
  <2>1. CASE activeState # None
    <3>1. PICK s \in TurnStates : s = activeState
      BY <2>1 DEF TypeOK
    <3> QED BY <2>1, <3>1, UnsentPending DEF ExtendAndAccept
  <2>2. CASE activeState = None
    BY <2>2, UnsentOut DEF stateVars
  <2> QED BY <2>1, <2>2
<1>2. HandsOK'
  BY DEF HandsOK
<1>3. FreshOK'
  BY StepFresh
<1> QED BY <1>1, <1>2, <1>3

(* Nothing is in a queue at first. *)
LEMMA InitItems == Init => ItemsOK
<1> SUFFICES ASSUME Init PROVE ItemsOK
  OBVIOUS
<1>1. ASSUME NEW i \in Items PROVE fate[i] # "live" /\ Holders(i) = {}
  <2>1. \A h : h \notin Holders(i)
    BY HolderKinds DEF Init
  <2> QED BY <2>1 DEF Init
<1>2. DeliveredOnce
  BY <1>1 DEF DeliveredOnce
<1>3. HandsOK /\ FreshOK
  BY DEF Init, HandsOK, FreshOK
<1> QED BY <1>2, <1>3 DEF ItemsOK

(* Every step of the session moves its items as DeliveredOnce asks. *)
LEMMA NextItems == IInv /\ ItemsOK /\ [Next]_vars => ItemsOK'
<1> SUFFICES ASSUME IInv, ItemsOK, [Next]_vars PROVE ItemsOK'
  OBVIOUS
<1>1. CASE LoopStep
  BY <1>1, SubmitItems, InterAgentCommunicationItems, SpawnStandaloneItems, LoopStillItems,
     Basics DEF LoopStep, UserItems
<1>2. CASE LoopInternal
  BY <1>2, StartIfIdleReserveItems, StartIfIdleSettingsItems, LoopStillItems,
     ConversationItems DEF LoopInternal
<1>3. ASSUME NEW a \in Actors, Procedure(a) PROVE ItemsOK'
  BY <1>3, AbortStillItems, AbortWaitItems, AbortClearItems, MaybeStartItems, DrainItems,
     ExtendItems, StartDrainItems, StartAttachItems, StartInstallItems DEF Procedure
<1>4. ASSUME NEW t \in Turns, Running(t) PROVE ItemsOK'
  BY <1>4, Basics, TaskStillItems, InputOutItems, HandOutItems, DrainItems DEF Running
<1>5. ASSUME NEW t \in Turns, Finishing(t) PROVE ItemsOK'
  BY <1>5, TaskStillItems, FinishStillItems, FinishTakeItems, HandOutItems DEF Finishing
<1>6. CASE UNCHANGED vars
  <2>1. UNCHANGED <<pending, hand, input, mailbox, fate, pc, born>>
    BY <1>6 DEF vars, locals, turnVars, stateVars, others
  <2>2. DeliveredOnce'
    <3>1. \A i \in Items : Stays(i)
      BY <2>1 DEF Stays
    <3> QED BY <3>1, StepOnce DEF ItemsOK
  <2>3. HandsOK' /\ FreshOK'
    BY <2>1 DEF ItemsOK, HandsOK, FreshOK
  <2> QED BY <2>2, <2>3 DEF ItemsOK
<1>7. ASSUME NEW u \in Texts, StartOrSteer(Realtime, u) PROVE ItemsOK'
  BY <1>7, SubmitItems, Basics DEF UserItems
<1> QED BY <1>1, <1>2, <1>3, <1>4, <1>5, <1>6, <1>7, GuardianItems, InjectItems,
          LoopStillItems DEF Next

(* No input, mail or injection is ever in two queues, or in none while it is still
   owed to the model: whatever drains, takes, extends, aborts and starts of the
   loop, the realtime conversation, the guardian and the tasks interleave, each accepted item is in exactly
   one of the mailbox, a turn state, an actor's hands and a task's input, and a
   recorded or discarded one is in none, for any number of turns and items
   (session/input_queue.rs, tasks/mod.rs). *)
THEOREM ItemsDeliveredOnce == Spec => []DeliveredOnce
<1>1. Init => IInv /\ ItemsOK
  BY InitInv, InitItems
<1>2. IInv /\ ItemsOK /\ [Next]_vars => (IInv /\ ItemsOK)'
  BY NextInv, NextItems
<1>3. IInv /\ ItemsOK => DeliveredOnce
  BY DEF ItemsOK
<1> QED BY <1>1, <1>2, <1>3, PTL DEF Spec
=============================================================================
