SPECIFICATION Spec
CONSTANTS
  Inputs = {u1, u2}
  Texts = {}
  Mails = {m1}
  TriggerMails = {m1}
  Injections = {}
  MaxTurns = 3
  MaxInterrupts = 0
  MaxToolCalls = 0
  OtherKinds = {}
  GuardianOn = FALSE
  DurableSleep = FALSE
  Loop = Loop
  Guardian = Guardian
  Realtime = Realtime
  None = None
INVARIANT NoSilentDeath
CHECK_DEADLOCK FALSE
