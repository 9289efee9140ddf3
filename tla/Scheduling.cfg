SPECIFICATION SchedulingSpec
CONSTANTS
  Agents = {1, 2}
  Ids = {1, 2}
  Priorities = {0, 1}
  Instants = {1, 2}
  max_capacity = 4
  max_per_agent = 3
  MaxServed = 4
  max_restarts = 4
  initial_delay = 2
  max_delay = 4
  factor_num = 3
  factor_den = 2
  stable_period = 4
  Never = Never
  MaxClock = 24
  MaxAttempts = 6
  Candidates = 3
  IndexWidth = 3
  max_retries = 2
  NoStatus = NoStatus
  NoAgent = NoAgent
  Unset = Unset
  Fractions = 3
  FractionRank <- MCFractionRank
  MaxIncrements = 4
INVARIANTS QueueSound TurnsKept DeliveryHonest
PROPERTIES ServesInOrder RestartsBounded TablesKept
CHECK_DEADLOCK FALSE
