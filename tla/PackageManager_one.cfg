SPECIFICATION Spec
CONSTANTS
  t1 = t1
  t2 = t2
  t3 = t3
  v1 = v1
  v2 = v2
  None = None
  Target = {t1}
  Vmid = {v1}
  VmidOf <- OneVmid
  Attempt = {a1, a2, a3}
  ScanSlots = 2
  UpdateSlots = 1
  ReentrantPoints = {"claimed", "published"}
  Calls <- EveryCall
  Observed = {"absent", "stopped", "running"}
SYMMETRY Symmetry
INVARIANTS NothingOutdated ConfirmedPlanOnly RunningIsWorkedOn
PROPERTIES UnloadStartsNothing ImplementsOwnership ImplementsAttempts
