SPECIFICATION Spec
CONSTANTS
  Named = {"h"}
  Daemon = "daemon"
  Processes = {"p1", "p2"}
  Clients = {"c1", "c2"}
  Granted = {"host_access_setup"}
INVARIANTS PlaneInv TablesTruthful RefusalsTruthful
PROPERTY Answered
