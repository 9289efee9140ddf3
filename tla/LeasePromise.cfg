CONSTANTS
  h1 = h1
  h2 = h2
  h3 = h3
  Instances = {i1}
  Holders = {h1, h3}
  Ids <- MCIds
  StableId <- MCStableId
  Fractions = 2
  FractionRank <- MCFractionRank
  MinTtl = 1
  MaxTtl = 1
  Processes = {p1, p2}
  Ttls = {0}
  DefaultTtl = 1
  MaxSec = 1
  Idle = Idle
SPECIFICATION Spec
SYMMETRY MCSymmetry
INVARIANTS LeaseInv
PROPERTIES ImplementsPromise
