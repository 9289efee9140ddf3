----------------------------- MODULE Allocation -----------------------------
(***************************************************************************)
(* The allocation policies: which of the running instances handles the     *)
(* next request.  Candidates are numbered in the order they are offered;   *)
(* between two requests they become available or not.                      *)
(***************************************************************************)
EXTENDS Naturals, Sequences

CONSTANTS
  Candidates,      \* number of instances offered
  IndexWidth       \* bits of the round-robin index

VARIABLES
  policy,          \* "fcfs", "round_robin" or "random"
  available,       \* candidates that accept work
  last_index,      \* of the round-robin policy
  picks            \* chosen since the available ones last changed (history)

alloc == <<policy, available, last_index, picks>>

Init ==
  /\ policy \in {"fcfs", "round_robin", "random"}
  /\ available \in SUBSET (1 .. Candidates)
  /\ last_index = 0 /\ picks = <<>>

\* The available candidates, in the order they are offered.
Increasing(q) == \A i, j \in DOMAIN q : i < j => q[i] < q[j]
Offered ==
  CHOOSE q \in UNION {[1 .. n -> available] : n \in 0 .. Candidates} :
    Increasing(q) /\ available = {q[i] : i \in DOMAIN q}

Take(i) == picks' = Append(picks, i) /\ UNCHANGED <<policy, available>>

\* Mutant: the index counts in the list of all candidates, and the next available one is taken.
SkipForward ==
  LET from == (last_index % Candidates) + 1
      ahead == {i \in available : i >= from}
      i == IF ahead = {} THEN Head(Offered) ELSE CHOOSE a \in ahead : \A b \in ahead : a <= b
  IN  Take(i) /\ last_index' = (last_index + 1) % 2 ^ IndexWidth
RoundRobin ==
  /\ Take(Offered[(last_index % Len(Offered)) + 1])
  /\ last_index' = (last_index + 1) % 2 ^ IndexWidth
Fcfs == Take(Head(Offered)) /\ UNCHANGED last_index
Random == \E i \in available : Take(i) /\ UNCHANGED last_index

\* Without candidates, or with none available, an error and no change.  At most as many
\* picks as candidates are remembered.
select ==
  /\ available # {} /\ Len(picks) < Candidates
  /\ CASE policy = "fcfs" -> Fcfs [] policy = "round_robin" -> RoundRobin [] OTHER -> Random

Change ==
  /\ available' \in SUBSET (1 .. Candidates)
  /\ picks' = <<>>
  /\ UNCHANGED <<policy, last_index>>

Next == select \/ Change

-----------------------------------------------------------------------------
\* An instance that does not accept work is never chosen.  While the available ones do not
\* change, first come first served stays with one of them, and round robin goes through
\* all of them before it returns to one; but for the moment its index starts again at
\* zero, where the cycle breaks unless the number of instances divides 2^64.
Wrapped == last_index < Len(picks)
TurnsKept ==
  /\ \A i \in DOMAIN picks : picks[i] \in available
  /\ policy = "fcfs" => \A i, j \in DOMAIN picks : picks[i] = picks[j]
  /\ policy = "round_robin" /\ ~ Wrapped =>
       \A i, j \in DOMAIN picks : picks[i] = picks[j] <=> i % Len(Offered) = j % Len(Offered)

=============================================================================
