SPECIFICATION FairSpec
CONSTANTS
  t1 = t1
  t2 = t2
  t3 = t3
  v1 = v1
  v2 = v2
  None = None
  Target = {t1, t2, t3}
  Vmid = {v1, v2}
  VmidOf <- TwoVmids
  Attempt = {a1, a2, a3}
  ScanSlots = 1
  UpdateSlots = 1
  ReentrantPoints = {}
  Calls <- PeerCalls
  Observed = {"running"}
INVARIANTS VmidExclusion OneWorker
PROPERTIES AttemptsEnd
