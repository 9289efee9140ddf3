CONSTANTS
  t1 = t1
  t2 = t2
  i1 = i1
  i2 = i2
  Targets = {t1, t2}
  HostOf <- MCHostOf
  Processes = {p1, p2}
  Addresses = {a1, a2}
  NoAddress = NoAddress
  MaxRequests = 3
  MaxChanges = 1
  Idle = Idle
SPECIFICATION Spec
SYMMETRY MCSymmetry
INVARIANTS TabsInv RecoversSession OpenedTabListed StoppedHasNoTabs
