----------------------------- MODULE Scheduling -----------------------------
(***************************************************************************)
(* The parts of the task plane side by side: the queue, the restart        *)
(* tracker, the allocation policies, the delivery of webhooks, the table   *)
(* of tasks and the scheduler metrics.  No code calls one from another and *)
(* they share no state, so a behaviour of all of them is one of each with  *)
(* the others at rest: in every behaviour here one part, chosen at the     *)
(* start, makes the steps.                                                 *)
(***************************************************************************)
EXTENDS TaskQueue

CONSTANTS
  max_restarts, initial_delay, max_delay, factor_num, factor_den, stable_period, Never, MaxClock, MaxAttempts,
  Candidates, IndexWidth,
  max_retries, NoStatus,
  NoAgent, Unset, Fractions, FractionRank(_), MaxIncrements

VARIABLES
  part,            \* the part that makes steps
  clock, attempts, last_start_at, browser, launch_at, delay, in_a_row, up_since, late,
  policy, available, last_index, picks,
  delivery, received,
  rows, metrics, counted

Restart == INSTANCE RestartTracker
Alloc == INSTANCE Allocation
Webhook == INSTANCE WebhookDelivery
Table == INSTANCE TaskTable

ASSUME SchedulingAssumption ==
  /\ Restart!RestartAssumption
  /\ Candidates \in Nat \ {0} /\ 2 ^ IndexWidth \in Nat \ {0} /\ max_retries \in Nat /\ NoStatus \notin Nat
  /\ NoAgent \notin Agents /\ Unset \notin Instants /\ Fractions \in Nat \ {0}

queue == vars
restart == <<clock, attempts, last_start_at, browser, launch_at, delay, in_a_row, up_since, late>>
allocation == <<policy, available, last_index, picks>>
webhook == <<delivery, received>>
table == <<rows, metrics, counted>>
all == <<part, vars, restart, allocation, webhook, table>>

SchedulingInit ==
  /\ part \in {"queue", "restart", "allocation", "webhook", "tasks", "metrics"}
  /\ Init /\ Restart!Init /\ Webhook!Init /\ Table!Init
  /\ Alloc!Init
  /\ part # "allocation" => policy = "fcfs" /\ available = {}
  /\ part # "webhook" => delivery.host = "none"

SchedulingNext ==
  /\ UNCHANGED part
  /\ \/ part = "queue" /\ Next
        /\ UNCHANGED <<restart, allocation, webhook, table>>
     \/ part = "restart" /\ Restart!Next
        /\ UNCHANGED <<queue, allocation, webhook, table>>
     \/ part = "allocation" /\ Alloc!Next
        /\ UNCHANGED <<queue, restart, webhook, table>>
     \/ part = "webhook" /\ Webhook!Next
        /\ UNCHANGED <<queue, restart, allocation, table>>
     \/ /\ \/ part = "tasks" /\ Table!NextTask
           \/ part = "metrics" /\ Table!NextMetric
        /\ UNCHANGED <<queue, restart, allocation, webhook>>

SchedulingSpec == SchedulingInit /\ [][SchedulingNext]_all

-----------------------------------------------------------------------------
\* Restarts in a row are counted exactly and bounded, and their delays stay below the limit
\* and, with a factor of one or more, do not shrink (RestartTracker).
RestartsBounded == []Restart!RestartInv /\ Restart!BacksOff
\* Round robin keeps its turns (Allocation).
TurnsKept == Alloc!TurnsKept
\* A webhook's result is true of what was sent and received (WebhookDelivery).
DeliveryHonest == Webhook!DeliveryHonest
\* Metrics add up and queries list by whole seconds; late and repeated updates erase nothing
\* (TaskTable).
TablesKept == []Table!TablesExact /\ Table!TimesKept

=============================================================================
