SPECIFICATION Spec
CONSTANTS
  Inputs = {u1}
  Texts = {}
  Mails = {m1}
  TriggerMails = {m1}
  Injections = {x1}
  MaxTurns = 2
  MaxInterrupts = 0
  MaxToolCalls = 0
  OtherKinds = {}
  GuardianOn = TRUE
  DurableSleep = FALSE
  Loop = Loop
  Guardian = Guardian
  Realtime = Realtime
  None = None
INVARIANT IInv
INVARIANT ActiveTaskAlive
INVARIANT DeliveredOnce
CHECK_DEADLOCK FALSE
