SPECIFICATION ReentrySpec
CONSTANTS
  t1 = t1
  v1 = v1
  None = None
  Target = {t1}
  Vmid = {v1}
  VmidOf <- OneVmid
  Attempt = {a1, a2, a3}
  ScanSlots = 2
  UpdateSlots = 1
  ReentrantPoints = {"claimed", "published"}
  Calls <- ScanCalls
  Observed = {"running"}
INVARIANT OneScanPerVmid
