SPECIFICATION FairSpec
CONSTANTS
  Inputs = {u1}
  Texts = {}
  Mails = {m1}
  TriggerMails = {m1}
  Injections = {}
  MaxTurns = 2
  MaxInterrupts = 1
  MaxToolCalls = 0
  OtherKinds = {}
  GuardianOn = FALSE
  DurableSleep = FALSE
  Loop = Loop
  Guardian = Guardian
  Realtime = Realtime
  None = None
PROPERTY TriggerMailTakenUp
CHECK_DEADLOCK FALSE
