SPECIFICATION Spec
CONSTANTS
  Inputs = {u1, u2}
  Texts = {}
  Mails = {}
  TriggerMails = {}
  Injections = {}
  MaxTurns = 2
  MaxInterrupts = 1
  MaxToolCalls = 1
  OtherKinds = {"compact", "review"}
  GuardianOn = FALSE
  DurableSleep = FALSE
  Loop = Loop
  Guardian = Guardian
  Realtime = Realtime
  None = None
SYMMETRY ItemSymmetry
INVARIANTS TypeOK DeliveredOnce OneTerminalEvent SuspendedIsSilent NoSilentDeath NoInputStranded StartFindsNoTask OneRunner IdleNotRunning
PROPERTY ApprovalNotDropped
CHECK_DEADLOCK FALSE
