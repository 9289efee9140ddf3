------------------------------ MODULE TaskTable ------------------------------
(***************************************************************************)
(* The tables tasks and scheduler_metrics of the store.  Every operation   *)
(* is one statement.  A metric may have no agent; SQL takes two such rows  *)
(* for different ones, so that each increment without an agent adds a row. *)
(* A task is created at a Timestamp, whose text a query sorts by.  Of the  *)
(* other times only whether they are stored matters.                       *)
(***************************************************************************)
EXTENDS Timestamps, Sequences, SequencesExt, FiniteSets, FiniteSetsExt

CONSTANTS
  Agents, Ids, Instants,     \* as in TaskQueue
  NoAgent,         \* a metric of no agent
  Unset,           \* no time given or stored
  MaxIncrements    \* bound: increments

VARIABLES
  rows,            \* id -> row of tasks, for the ids stored
  metrics,         \* rows of scheduler_metrics, in the order of their ids
  counted          \* agent -> increments since the last reset (history)

table == <<rows, metrics, counted>>

States == {"pending", "running", "completed"}
Times == Instants \cup {Unset}
Created == [sec : Instants, frac : 0 .. Fractions - 1]
TaskRecord == [agent : Agents, state : States, created : Created, started : Times, completed : Times]
Owners == Agents \cup {NoAgent}

Init ==
  /\ rows = [id \in {} |-> 0]
  /\ metrics = <<>>
  /\ counted = [a \in Owners |-> 0]

\* The id is the primary key: a second insertion fails.
insert_task(id, task) ==
  /\ id \notin DOMAIN rows
  /\ rows' = [i \in DOMAIN rows \cup {id} |-> IF i = id THEN task ELSE rows[i]]
  /\ UNCHANGED <<metrics, counted>>

\* Mutant: what is not given is erased.
Overwrite(new, old) == new
COALESCE(new, old) == IF new = Unset THEN old ELSE new

\* No state is refused: a late update takes a task back from its final state.
update_task_state(id, state, started, completed) ==
  /\ id \in DOMAIN rows
  /\ LET row == rows[id]
     IN  rows' = [rows EXCEPT ![id] = [row EXCEPT !.state = state, !.started = COALESCE(started, row.started),
                                                  !.completed = COALESCE(completed, row.completed)]]
  /\ UNCHANGED <<metrics, counted>>

\* ORDER BY created_at DESC.  Mutant: the oldest come first.
OldestFirst(a, b) == TextLE(a, b)
NewestFirst(a, b) == TextLE(b, a)

\* Rows of the same text in any order.
Matching(agent, state) ==
  {id \in DOMAIN rows : agent \in {NoAgent, rows[id].agent} /\ state \in {"any", rows[id].state}}
query_tasks(agent, state, limit) ==
  LET order == SetToSortSeq(Matching(agent, state), LAMBDA a, b : NewestFirst(rows[a].created, rows[b].created))
  IN  SubSeq(order, 1, Min({limit, Len(order)}))

\* Mutant: a row that exists is set to one.
SetToOne(row) == [row EXCEPT !.counter = 1]
Increment(row) == [row EXCEPT !.counter = @ + 1]
increment_scheduler_metric(agent) ==
  /\ SumFunction(counted) < MaxIncrements
  /\ LET same == {i \in DOMAIN metrics : metrics[i].agent = agent /\ agent # NoAgent}
     IN  metrics' = IF same = {} THEN Append(metrics, [agent |-> agent, counter |-> 1])
                    ELSE [i \in DOMAIN metrics |-> IF i \in same THEN Increment(metrics[i]) ELSE metrics[i]]
  /\ counted' = [counted EXCEPT ![agent] = @ + 1]
  /\ UNCHANGED rows
\* Without an agent, the rows of all of them.
query_scheduler_metrics(agent) == SelectSeq(metrics, LAMBDA row : agent \in {NoAgent, row.agent})
reset_scheduler_metrics ==
  /\ metrics' = <<>> /\ counted' = [a \in Owners |-> 0]
  /\ UNCHANGED rows

NextTask ==
  \/ \E id \in Ids, task \in TaskRecord : insert_task(id, task)
  \/ \E id \in Ids, s \in States, st \in Times, co \in Times : update_task_state(id, s, st, co)
NextMetric ==
  \/ \E a \in Owners : increment_scheduler_metric(a)
  \/ reset_scheduler_metrics

-----------------------------------------------------------------------------
\* However many rows a metric is spread over, they add up to the increments since the last
\* reset, and an agent has one row; of the tasks that a query selects, none that it puts
\* behind another one, or cuts off, is newer by a second or more.
Total(agent) == FoldLeft(LAMBDA sum, row : sum + row.counter, 0, query_scheduler_metrics(agent))
TablesExact ==
  /\ \A a \in Agents : Total(a) = counted[a] /\ Len(query_scheduler_metrics(a)) <= 1
  /\ Total(NoAgent) = SumFunction(counted)
  /\ \A a \in Owners, s \in States \cup {"any"}, limit \in 1 .. 2 :
       LET found == query_tasks(a, s, limit)
       IN  \A i \in DOMAIN found : \A id \in Matching(a, s) \ {found[k] : k \in 1 .. i} :
             rows[id].created.sec <= rows[found[i]].created.sec

\* Updates arrive in any order and more than once: none of them erases a time that was
\* stored, and no row vanishes or changes its owner.
TimesKept ==
  [][\A id \in DOMAIN rows :
       /\ id \in DOMAIN rows' /\ rows'[id].agent = rows[id].agent /\ rows'[id].created = rows[id].created
       /\ rows[id].started # Unset => rows'[id].started # Unset
       /\ rows[id].completed # Unset => rows'[id].completed # Unset]_table

=============================================================================
