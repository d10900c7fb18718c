SPECIFICATION YoloFairSpec
CONSTANTS
  None = None
  Target = {t1}
  Vmid = {v1}
  VmidOf <- OneVmid
  Attempt = {a1, a2}
  ScanSlots = 1
  UpdateSlots = 1
  ReentrantPoints = {}
  Calls <- YoloCalls
  Observed = {"absent", "stopped", "running"}
  Follow = {f1}
  MayFail = TRUE
INVARIANTS SleepHasCause
PROPERTIES ImplementsManager FollowTakesTurn FollowEnds
