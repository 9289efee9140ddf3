----------------------------- MODULE TaskQueue -----------------------------
(***************************************************************************)
(* The in-memory task queue: bounded admission, and a dequeue order of     *)
(* priority first, then the agent served least recently, then time of      *)
(* enqueueing.  Agents and task ids are compared as strings, so they are   *)
(* numbers here; an agent that was never served has last_served 0, and the *)
(* service order, which saturates at 2^64 - 1, is bounded by MaxServed.    *)
(***************************************************************************)
EXTENDS Naturals, Sequences, FiniteSets

CONSTANTS
  Agents,        \* numbers, in the order of the agents' ids
  Ids,           \* numbers, in the order of the task ids; ids need not be unique
  Priorities,    \* priorities that occur
  Instants,      \* values of enqueued_at
  max_capacity,  \* TaskQueueConfig
  max_per_agent,
  MaxServed      \* bound: dequeues

ASSUME QueueAssumption ==
  /\ Agents \subseteq Nat /\ Ids \subseteq Nat /\ Priorities \subseteq Nat /\ Instants \subseteq Nat
  /\ max_capacity \in Nat /\ max_per_agent \in Nat /\ MaxServed \in Nat

VARIABLES
  tasks,               \* the vector of waiting tasks
  agent_counts,        \* agent -> tasks it is counted with
  last_served,         \* agent -> its place in the service order
  next_service_order,
  jumped               \* <<a, b>> -> times b was served before a waiting task of a that
                       \* has no lower priority, since a was served (history)

vars == <<tasks, agent_counts, last_served, next_service_order, jumped>>

QueuedTask == [id : Ids, agent : Agents, priority : Priorities, enqueued_at : Instants]

Init ==
  /\ tasks = <<>>
  /\ agent_counts = [a \in Agents |-> 0]
  /\ last_served = [a \in Agents |-> 0]
  /\ next_service_order = 0
  /\ jumped = [ab \in Agents \X Agents |-> 0]

-----------------------------------------------------------------------------
Admits(t) == Len(tasks) < max_capacity /\ agent_counts[t.agent] < max_per_agent

Enqueue(t) ==
  /\ Admits(t)
  /\ agent_counts' = [agent_counts EXCEPT ![t.agent] = @ + 1]
  /\ tasks' = Append(tasks, t)
  /\ UNCHANGED <<last_served, next_service_order, jumped>>

\* The agent never served, or served longer ago, comes first.
FairerThan(a, b) == last_served[a] < last_served[b]

CandidateBeats(s, t) ==
  \/ s.priority > t.priority
  \/ /\ s.priority = t.priority
     /\ \/ FairerThan(s.agent, t.agent)
        \/ /\ ~ FairerThan(t.agent, s.agent)
           /\ \/ s.enqueued_at < t.enqueued_at
              \/ s.enqueued_at = t.enqueued_at
                 /\ (s.agent < t.agent \/ (s.agent = t.agent /\ s.id < t.id))

\* The scan over the vector (Scan[i]: the best index among the first i).
\* Mutant: the scan goes on from the previous index instead of the best one.
ScanPrevious ==
  LET best[i \in 1 .. Len(tasks)] ==
        IF i = 1 THEN 1 ELSE IF CandidateBeats(tasks[i], tasks[i - 1]) THEN i ELSE best[i - 1]
  IN  best[Len(tasks)]
Scan[i \in 1 .. Len(tasks)] ==
  IF i = 1 THEN 1 ELSE IF CandidateBeats(tasks[i], tasks[Scan[i - 1]]) THEN i ELSE Scan[i - 1]
Best == Scan[Len(tasks)]

SwapRemove(s, i) == [k \in 1 .. Len(s) - 1 |-> IF k = i THEN s[Len(s)] ELSE s[k]]

\* Mutant: the count of the agent is not given back.
KeepCount(t) == UNCHANGED agent_counts
DecrementAgent(t) == agent_counts' = [agent_counts EXCEPT ![t.agent] = IF @ = 0 THEN 0 ELSE @ - 1]

\* Mutant: only the first service of an agent is recorded.
RecordFirst(t) ==
  /\ next_service_order' = next_service_order + 1
  /\ last_served' = IF last_served[t.agent] = 0
                    THEN [last_served EXCEPT ![t.agent] = next_service_order + 1] ELSE last_served
RecordService(t) ==
  /\ next_service_order' = next_service_order + 1
  /\ last_served' = [last_served EXCEPT ![t.agent] = next_service_order + 1]

Waiting(i, a, p) == \E k \in DOMAIN tasks \ {i} : tasks[k].agent = a /\ tasks[k].priority >= p

Jump(i) ==
  LET t == tasks[i]
  IN  jumped' = [ab \in Agents \X Agents |->
                   IF ab[1] = t.agent THEN 0
                   ELSE IF ab[2] = t.agent /\ Waiting(i, ab[1], t.priority) THEN jumped[ab] + 1
                   ELSE jumped[ab]]

Dequeue ==
  /\ tasks # <<>> /\ next_service_order < MaxServed
  /\ tasks' = SwapRemove(tasks, Best)
  /\ RecordService(tasks[Best])
  /\ DecrementAgent(tasks[Best])
  /\ Jump(Best)

\* The first task with the id.
Cancel(id) ==
  \E i \in DOMAIN tasks :
    /\ tasks[i].id = id
    /\ \A k \in 1 .. i - 1 : tasks[k].id # id
    /\ tasks' = SwapRemove(tasks, i)
    /\ DecrementAgent(tasks[i])
    /\ UNCHANGED <<last_served, next_service_order, jumped>>

Next == (\E t \in QueuedTask : Enqueue(t)) \/ Dequeue \/ (\E id \in Ids : Cancel(id))

Spec == Init /\ [][Next]_vars

-----------------------------------------------------------------------------
(* Properties.                                                             *)

TypeOK ==
  /\ tasks \in Seq(QueuedTask)
  /\ agent_counts \in [Agents -> Nat]
  /\ last_served \in [Agents -> 0 .. MaxServed]
  /\ next_service_order \in 0 .. MaxServed
  /\ jumped \in [Agents \X Agents -> Nat]

\* However tasks are enqueued, dequeued and cancelled, with ids used twice too, an agent
\* is charged for exactly the tasks it has waiting, and neither limit is exceeded.
AccountsExact ==
  /\ Len(tasks) <= max_capacity
  /\ \A a \in Agents :
       /\ agent_counts[a] = Cardinality({i \in DOMAIN tasks : tasks[i].agent = a})
       /\ agent_counts[a] <= max_per_agent

\* Types and accounts.
QueueInv == TypeOK /\ AccountsExact

\* Dequeue's scan finds the task the documentation of TaskQueue promises: none that
\* stays has a higher priority; of the same priority none is of an agent served longer
\* ago; of the same priority and agent none was enqueued earlier.
ServesInOrder ==
  [][next_service_order' # next_service_order =>
       LET t == tasks[Best]
       IN  \A i \in DOMAIN tasks :
             /\ tasks[i].priority <= t.priority
             /\ tasks[i].priority = t.priority =>
                  /\ last_served[t.agent] <= last_served[tasks[i].agent]
                  /\ tasks[i].agent = t.agent => t.enqueued_at <= tasks[i].enqueued_at]_vars

\* "One agent cannot monopolize a priority band by enqueuing a deeper backlog": no agent
\* is served twice before another one that has a task of that priority or a higher one
\* waiting each time, whatever is enqueued and cancelled in between.
NoMonopoly == \A ab \in Agents \X Agents : jumped[ab] <= 1

\* The accounts are exact, and no agent keeps another one waiting.
QueueSound == QueueInv /\ NoMonopoly

=============================================================================
