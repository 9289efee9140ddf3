SPECIFICATION EvidenceSpec
CONSTANTS
  Processes = {p1, p2}
  Runs = {r1}
  NoRun = NoRun
  MaxArtifacts = 3
  MaxIncidents = 1
  Parts = {0, 1, 2, 3, 6, 7, 8, 11, 13, 16, 17, 23, 31, 32, 33, 47, 61, 63, 64, 65}
  Overlaps = {0, 1, 40, 250, 251}
  Widths = {1, 7, 640, 999, 1000, 1921}
  AskedLists <- MCAskedLists
  InitialGrants <- MCInitialGrants
  InitialRoles = {"button", "plain"}
  Requests <- MCRequests
  MaxChanges = 1
SYMMETRY MCSymmetry
INVARIANTS StoreInv GridCovers ActionsKept AvailableHolds ReportsHonest
CHECK_DEADLOCK FALSE
