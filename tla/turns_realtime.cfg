SPECIFICATION FairSpec
CONSTANTS
  Inputs = {}
  Texts = {r1}
  Mails = {}
  TriggerMails = {}
  Injections = {}
  MaxTurns = 2
  MaxInterrupts = 0
  MaxToolCalls = 0
  OtherKinds = {"shell"}
  GuardianOn = FALSE
  DurableSleep = FALSE
  Loop = Loop
  Guardian = Guardian
  Realtime = Realtime
  None = None
INVARIANTS IInv ActiveTaskAlive DeliveredOnce
PROPERTIES OpsReturn FinishedTaskFreesSession
CHECK_DEADLOCK FALSE
