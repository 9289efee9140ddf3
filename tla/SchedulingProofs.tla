-------------------------- MODULE SchedulingProofs --------------------------
(***************************************************************************)
(* Proofs about the task plane.  Of the queue: dequeue's scan over the     *)
(* vector finds the task that the order of priority, fairness and age puts *)
(* first, so that no agent is served twice past another one that waits,    *)
(* and the accounts of agents are exact however the vector is reordered by *)
(* swap_remove.  Of the webhooks: a delivery's result is true of what was  *)
(* sent.  Of the restart tracker: restarts in a row are bounded and their  *)
(* delays grow up to the limit.  Of the table of tasks: no update erases a *)
(* time.  Of the allocation policies: turns are kept until the index       *)
(* starts again at zero.                                                   *)
(***************************************************************************)
EXTENDS Scheduling, FiniteSetTheorems, WellFoundedInduction, TLAPS

-----------------------------------------------------------------------------
(* The scan of dequeue: what a recursive function computes, by the least   *)
(* counterexample.                                                         *)

\* A set of naturals has a least element.
LEMMA Least ==
  ASSUME NEW T \in SUBSET Nat, T # {}
  PROVE  \E x \in T : \A y \in T : x <= y
  <1>1. IsWellFoundedOn(OpToRel(<, Nat), Nat)
    BY NatLessThanWellFounded
  <1>2. PICK x \in T : \A y \in T : ~ (<<y, x>> \in OpToRel(<, Nat))
    BY <1>1, WFMin
  <1>3. \A y \in T : ~ (y < x)
    BY <1>2 DEF OpToRel
  <1> QED  BY <1>3

\* One step of the scan, after the scan of the tasks before i; and a scan of the first n.
ScanStep(g, i) ==
  IF i = 1 THEN 1 ELSE IF CandidateBeats(tasks[i], tasks[g[i - 1]]) THEN i ELSE g[i - 1]
IsScan(g, n) == g = [i \in 1 .. n |-> ScanStep(g, i)]

\* A scan of n tasks extends to one of the next task.
LEMMA ScanExtends ==
  ASSUME NEW n \in Nat, NEW g, IsScan(g, n)
  PROVE  \E h : IsScan(h, n + 1)
  <1> DEFINE h == [i \in 1 .. n + 1 |-> IF i = n + 1 THEN ScanStep(g, n + 1) ELSE g[i]]
  <1>1. ASSUME NEW i \in 1 .. n + 1  PROVE  h[i] = ScanStep(h, i)
    <2>1. i = 1 \/ (i # 1 /\ i - 1 \in 1 .. n + 1 /\ i - 1 # n + 1)
      OBVIOUS
    <2>2. i # 1 => h[i - 1] = g[i - 1]
      BY <2>1
    <2>3. ScanStep(h, i) = ScanStep(g, i)
      <3> HIDE DEF h
      <3> QED  BY <2>2 DEF ScanStep
    <2>4. CASE i = n + 1
      BY <2>3, <2>4
    <2>5. CASE i # n + 1
      <3>1. i \in 1 .. n
        BY <2>5
      <3>2. g[i] = ScanStep(g, i)
        BY <3>1 DEF IsScan
      <3> QED  BY <2>3, <2>5, <3>2
    <2> QED  BY <2>4, <2>5
  <1>2. h = [i \in 1 .. n + 1 |-> h[i]]
    OBVIOUS
  <1> HIDE DEF h
  <1>3. IsScan(h, n + 1)
    BY <1>1, <1>2 DEF IsScan
  <1> QED  BY <1>3

\* Every prefix of the vector has a scan.
LEMMA ScanExists ==
  ASSUME NEW n \in Nat
  PROVE  \E g : IsScan(g, n)
  <1> DEFINE T == {m \in Nat : ~ \E g : IsScan(g, m)}
  <1>1. SUFFICES ASSUME T # {}  PROVE FALSE
    OBVIOUS
  <1>2. PICK m \in T : \A y \in T : m <= y
    <2> T \in SUBSET Nat
      OBVIOUS
    <2> HIDE DEF T
    <2> QED  BY <1>1, Least
  <1>3. CASE m = 0
    <2>1. IsScan([i \in 1 .. 0 |-> 0], 0)
      BY DEF IsScan
    <2> QED  BY <1>3, <2>1
  <1>4. CASE m # 0
    <2>1. m - 1 \in Nat /\ (m - 1) + 1 = m /\ ~ (m <= m - 1)
      BY <1>4
    <2>2. PICK g : IsScan(g, m - 1)
      BY <1>2, <2>1
    <2>3. \E h : IsScan(h, m)
      BY <2>1, <2>2, ScanExtends
    <2> QED  BY <2>3
  <1> QED  BY <1>3, <1>4

\* The scan is what its definition says.
LEMMA ScanUnfolds ==
  ASSUME tasks \in Seq(QueuedTask)
  PROVE  IsScan(Scan, Len(tasks))
  <1> DEFINE P(g) == IsScan(g, Len(tasks))
  <1>1. \E g : P(g)
    BY ScanExists
  <1>2. Scan = CHOOSE g : P(g)
    BY Zenon DEF Scan, IsScan, ScanStep
  <1>3. P(CHOOSE g : P(g))
    <2> HIDE DEF P
    <2> QED  BY <1>1, Zenon
  <1> QED  BY <1>2, <1>3

-----------------------------------------------------------------------------
(* The order of tasks.                                                     *)

\* What the order compares, as numbers.
LEMMA TaskFields ==
  ASSUME TypeOK, NEW t \in QueuedTask
  PROVE  /\ t.agent \in Agents /\ t.agent \in Nat /\ t.id \in Nat
         /\ t.priority \in Nat /\ t.enqueued_at \in Nat
         /\ last_served[t.agent] \in Nat
  <1>1. t.agent \in Agents /\ t.id \in Ids /\ t.priority \in Priorities /\ t.enqueued_at \in Instants
    BY DEF QueuedTask
  <1>2. t.agent \in Nat /\ t.id \in Nat /\ t.priority \in Nat /\ t.enqueued_at \in Nat
    BY <1>1, QueueAssumption
  <1>3. last_served[t.agent] \in 0 .. MaxServed
    BY <1>1 DEF TypeOK
  <1> QED  BY <1>1, <1>2, <1>3

\* A task that beats another one beats all that the other one beats.
LEMMA BeatsTransitive ==
  ASSUME TypeOK, NEW r \in QueuedTask, NEW s \in QueuedTask, NEW t \in QueuedTask,
         CandidateBeats(r, s), CandidateBeats(s, t)
  PROVE  CandidateBeats(r, t)
  BY TaskFields DEF CandidateBeats, FairerThan

\* No task beats itself.
LEMMA BeatsIrreflexive ==
  ASSUME TypeOK, NEW t \in QueuedTask
  PROVE  ~ CandidateBeats(t, t)
  BY TaskFields DEF CandidateBeats, FairerThan

\* No task among the first i beats the one the scan has found there.
ScanFound(i) ==
  /\ Scan[i] \in 1 .. i
  /\ \A k \in 1 .. i : ~ CandidateBeats(tasks[k], tasks[Scan[i]])

LEMMA ScanFinds ==
  ASSUME TypeOK, NEW n \in 1 .. Len(tasks)
  PROVE  ScanFound(n)
  <1> DEFINE T == {m \in 1 .. Len(tasks) : ~ ScanFound(m)}
  <1>0. Len(tasks) \in Nat /\ \A i \in 1 .. Len(tasks) : tasks[i] \in QueuedTask
    BY DEF TypeOK
  <1>1. SUFFICES ASSUME T # {}  PROVE FALSE
    OBVIOUS
  <1>2. PICK m \in T : \A y \in T : m <= y
    <2> T \in SUBSET Nat
      BY <1>0
    <2> HIDE DEF T
    <2> QED  BY <1>1, Least
  <1>3. Scan[m] = ScanStep(Scan, m)
    <2>1. IsScan(Scan, Len(tasks))
      BY ScanUnfolds DEF TypeOK
    <2> QED  BY <2>1 DEF IsScan
  <1>4. CASE m = 1
    <2>1. Scan[m] = 1
      BY <1>3, <1>4 DEF ScanStep
    <2> QED  BY <1>0, <1>4, <2>1, BeatsIrreflexive DEF ScanFound
  <1>5. CASE m # 1
    <2> DEFINE b == Scan[m - 1]
    <2>1. m - 1 \in 1 .. Len(tasks) /\ ~ (m <= m - 1)
      BY <1>0, <1>5
    <2>2. b \in 1 .. m - 1 /\ \A k \in 1 .. m - 1 : ~ CandidateBeats(tasks[k], tasks[b])
      BY <1>2, <2>1 DEF ScanFound
    <2>3. b \in 1 .. Len(tasks) /\ m \in 1 .. Len(tasks)
      BY <1>0, <2>2
    <2> HIDE DEF b
    <2>4. CASE CandidateBeats(tasks[m], tasks[b])
      <3>1. Scan[m] = m
        BY <1>3, <1>5, <2>4 DEF ScanStep, b
      <3>2. ASSUME NEW k \in 1 .. m  PROVE ~ CandidateBeats(tasks[k], tasks[m])
        <4>1. CASE k = m
          BY <1>0, <2>3, <4>1, BeatsIrreflexive
        <4>2. CASE k # m
          <5>1. k \in 1 .. m - 1 /\ k \in 1 .. Len(tasks)
            BY <1>0, <4>2
          <5>2. ~ CandidateBeats(tasks[k], tasks[b])
            BY <2>2, <5>1
          <5> QED  BY <1>0, <2>3, <2>4, <5>1, <5>2, BeatsTransitive
        <4> QED  BY <4>1, <4>2
      <3>3. ScanFound(m)
        BY <3>1, <3>2 DEF ScanFound
      <3> QED  BY <3>3
    <2>5. CASE ~ CandidateBeats(tasks[m], tasks[b])
      <3>1. Scan[m] = b
        BY <1>3, <1>5, <2>5 DEF ScanStep, b
      <3>2. \A k \in 1 .. m : k = m \/ k \in 1 .. m - 1
        BY <1>0
      <3>3. b \in 1 .. m
        BY <1>0, <2>2
      <3>4. ScanFound(m)
        BY <2>2, <2>5, <3>1, <3>2, <3>3 DEF ScanFound
      <3> QED  BY <3>4
    <2> QED  BY <2>4, <2>5
  <1> QED  BY <1>4, <1>5

\* Dequeue takes a task of the vector that no other one beats.
LEMMA BestUnbeaten ==
  ASSUME TypeOK, tasks # <<>>
  PROVE  /\ Best \in 1 .. Len(tasks)
         /\ tasks[Best] \in QueuedTask
         /\ \A k \in 1 .. Len(tasks) : ~ CandidateBeats(tasks[k], tasks[Best])
  <1>1. Len(tasks) \in Nat /\ Len(tasks) # 0
    BY DEF TypeOK
  <1>2. Len(tasks) \in 1 .. Len(tasks)
    BY <1>1
  <1>3. ScanFound(Len(tasks))
    BY <1>2, ScanFinds
  <1>4. Best \in 1 .. Len(tasks) /\ \A k \in 1 .. Len(tasks) : ~ CandidateBeats(tasks[k], tasks[Best])
    BY <1>3 DEF ScanFound, Best
  <1> QED  BY <1>4 DEF TypeOK

\* What the order of the documentation says of the task that is taken.
LEMMA BestFirst ==
  ASSUME TypeOK, tasks # <<>>, NEW i \in 1 .. Len(tasks)
  PROVE  /\ tasks[i].priority <= tasks[Best].priority
         /\ tasks[i].priority = tasks[Best].priority =>
              /\ last_served[tasks[Best].agent] <= last_served[tasks[i].agent]
              /\ tasks[i].agent = tasks[Best].agent => tasks[Best].enqueued_at <= tasks[i].enqueued_at
  <1> DEFINE s == tasks[i]
             t == tasks[Best]
  <1>1. s \in QueuedTask /\ t \in QueuedTask /\ ~ CandidateBeats(s, t)
    BY BestUnbeaten DEF TypeOK
  <1> HIDE DEF s, t
  <1>2. /\ s.priority <= t.priority
        /\ s.priority = t.priority =>
             /\ last_served[t.agent] <= last_served[s.agent]
             /\ s.agent = t.agent => t.enqueued_at <= s.enqueued_at
    BY <1>1, TaskFields DEF CandidateBeats, FairerThan
  <1> QED  BY <1>2 DEF s, t

-----------------------------------------------------------------------------
(* The accounts: swap_remove moves the last task into the gap.             *)

\* Places of the tasks of an agent.
Places(s, a) == {i \in DOMAIN s : s[i].agent = a}

\* Places are finitely many.
LEMMA PlacesFinite ==
  ASSUME NEW s \in Seq(QueuedTask), NEW a
  PROVE  IsFiniteSet(Places(s, a)) /\ Cardinality(Places(s, a)) \in Nat
  <1>1. Places(s, a) \in SUBSET (1 .. Len(s)) /\ Len(s) \in Nat
    BY DEF Places
  <1>2. IsFiniteSet(1 .. Len(s))
    BY <1>1, FS_Interval
  <1> QED  BY <1>1, <1>2, FS_Subset, FS_CardinalityType

\* A task that is appended has a place of its own.
LEMMA PlacesAppend ==
  ASSUME NEW s \in Seq(QueuedTask), NEW t \in QueuedTask, NEW a
  PROVE  Cardinality(Places(Append(s, t), a)) =
           IF a = t.agent THEN Cardinality(Places(s, a)) + 1 ELSE Cardinality(Places(s, a))
  <1> DEFINE n == Len(s) + 1
  <1>1. n \notin Places(s, a) /\ IsFiniteSet(Places(s, a))
    <2>1. n \notin 1 .. Len(s) /\ Places(s, a) \subseteq 1 .. Len(s)
      BY DEF Places
    <2> QED  BY <2>1, PlacesFinite
  <1>2. CASE a = t.agent
    <2>1. Places(Append(s, t), a) = Places(s, a) \cup {n}
      BY <1>2 DEF Places
    <2> HIDE DEF n
    <2>2. Cardinality(Places(s, a) \cup {n}) = Cardinality(Places(s, a)) + 1
      BY <1>1, FS_AddElement
    <2> QED  BY <1>2, <2>1, <2>2
  <1>3. CASE a # t.agent
    <2>1. Places(Append(s, t), a) = Places(s, a)
      BY <1>3 DEF Places
    <2> QED  BY <1>3, <2>1
  <1> QED  BY <1>2, <1>3

\* What swap_remove leaves.
LEMMA SwapRemoveType ==
  ASSUME NEW s \in Seq(QueuedTask), NEW i \in 1 .. Len(s)
  PROVE  /\ SwapRemove(s, i) \in Seq(QueuedTask)
         /\ Len(SwapRemove(s, i)) = Len(s) - 1
         /\ \A k \in 1 .. Len(s) - 1 : SwapRemove(s, i)[k] = IF k = i THEN s[Len(s)] ELSE s[k]
  <1>1. Len(s) \in Nat /\ Len(s) - 1 \in Nat /\ Len(s) \in 1 .. Len(s)
    OBVIOUS
  <1>2. \A k \in 1 .. Len(s) - 1 : (IF k = i THEN s[Len(s)] ELSE s[k]) \in QueuedTask
    BY <1>1
  <1> QED  BY <1>1, <1>2 DEF SwapRemove

\* swap_remove takes one place from the agent of the task removed and none from another.
LEMMA PlacesSwapRemove ==
  ASSUME NEW s \in Seq(QueuedTask), NEW i \in 1 .. Len(s), NEW a
  PROVE  Cardinality(Places(SwapRemove(s, i), a)) =
           IF a = s[i].agent THEN Cardinality(Places(s, a)) - 1 ELSE Cardinality(Places(s, a))
  <1> DEFINE n == Len(s)
             P == Places(s, a)
             Q == Places(SwapRemove(s, i), a)
  <1>1. n \in Nat /\ n \in 1 .. n /\ IsFiniteSet(P) /\ Cardinality(P) \in Nat
    BY PlacesFinite
  <1>2. \A k : k \in P <=> k \in 1 .. n /\ s[k].agent = a
    BY DEF Places
  <1>3. \A k : k \in Q <=> k \in 1 .. n - 1 /\ (IF k = i THEN s[n].agent = a ELSE s[k].agent = a)
    <2>1. DOMAIN SwapRemove(s, i) = 1 .. n - 1
      BY DEF SwapRemove
    <2>2. \A k \in 1 .. n - 1 : SwapRemove(s, i)[k] = IF k = i THEN s[n] ELSE s[k]
      BY SwapRemoveType
    <2>3. \A k \in 1 .. n - 1 : SwapRemove(s, i)[k].agent = IF k = i THEN s[n].agent ELSE s[k].agent
      BY <2>2
    <2>4. \A k : k \in Q <=> k \in 1 .. n - 1 /\ SwapRemove(s, i)[k].agent = a
      BY <2>1 DEF Places
    <2> HIDE DEF n, Q
    <2> QED  BY <2>3, <2>4
  <1>4. \A k : k \in 1 .. n - 1 <=> k \in 1 .. n /\ k # n
    BY <1>1
  <1> HIDE DEF n, P, Q
  <1>5. CASE a = s[i].agent /\ (i = n \/ s[n].agent # a)
    <2>1. i \in P /\ Q = P \ {i}
      BY <1>1, <1>2, <1>3, <1>4, <1>5 DEF n
    <2>2. Cardinality(Q) = Cardinality(P) - 1
      BY <1>1, <2>1, FS_RemoveElement
    <2> QED  BY <1>5, <2>2 DEF P, Q
  <1>6. CASE a = s[i].agent /\ i # n /\ s[n].agent = a
    <2>1. n \in P /\ Q = P \ {n}
      BY <1>1, <1>2, <1>3, <1>4, <1>6 DEF n
    <2>2. Cardinality(Q) = Cardinality(P) - 1
      BY <1>1, <2>1, FS_RemoveElement
    <2> QED  BY <1>6, <2>2 DEF P, Q
  <1>7. CASE a # s[i].agent /\ s[n].agent = a
    <2>1. n \in P /\ i \notin P /\ i # n /\ Q = (P \ {n}) \cup {i}
      BY <1>1, <1>2, <1>3, <1>4, <1>7 DEF n
    <2>2. Cardinality(P \ {n}) = Cardinality(P) - 1 /\ IsFiniteSet(P \ {n})
      BY <1>1, <2>1, FS_RemoveElement
    <2>3. Cardinality(Q) = Cardinality(P \ {n}) + 1
      BY <2>1, <2>2, FS_AddElement
    <2>4. Cardinality(Q) = Cardinality(P)
      BY <1>1, <2>2, <2>3
    <2> QED  BY <1>7, <2>4 DEF P, Q
  <1>8. CASE a # s[i].agent /\ s[n].agent # a
    <2>1. \A k : k \in Q <=> k \in P
      BY <1>2, <1>3, <1>4, <1>8
    <2>2. Q = P
      BY <2>1
    <2> QED  BY <1>8, <2>2 DEF P, Q
  <1> QED  BY <1>5, <1>6, <1>7, <1>8

-----------------------------------------------------------------------------
(* The invariant of the queue.                                             *)

\* An agent that was served past another one, and not the other one since, was served
\* later: so the other one comes first as long as it waits.
JumpedLater ==
  /\ \A a \in Agents : last_served[a] <= next_service_order
  /\ \A ab \in Agents \X Agents : jumped[ab] # 0 => last_served[ab[1]] < last_served[ab[2]]

QueueInd == QueueSound /\ JumpedLater

\* The accounts after a task left the vector.
LEMMA RemovalKeepsAccounts ==
  ASSUME QueueInv, NEW i \in 1 .. Len(tasks), tasks' = SwapRemove(tasks, i), DecrementAgent(tasks[i])
  PROVE  /\ tasks' \in Seq(QueuedTask)
         /\ agent_counts' \in [Agents -> Nat]
         /\ AccountsExact'
  <1> DEFINE t == tasks[i]
  <1>1. tasks \in Seq(QueuedTask) /\ t \in QueuedTask /\ t.agent \in Agents /\ agent_counts \in [Agents -> Nat]
    <2>1. tasks \in Seq(QueuedTask) /\ t \in QueuedTask /\ agent_counts \in [Agents -> Nat]
      BY DEF QueueInv, TypeOK
    <2> HIDE DEF t
    <2> QED  BY <2>1 DEF QueuedTask
  <1>2. tasks' \in Seq(QueuedTask) /\ Len(tasks') = Len(tasks) - 1
    BY <1>1, SwapRemoveType
  <1>3. \A a \in Agents : agent_counts[a] = Cardinality(Places(tasks, a)) /\ agent_counts[a] <= max_per_agent
    BY DEF QueueInv, AccountsExact, Places
  <1>4. agent_counts[t.agent] # 0
    <2>1. i \in Places(tasks, t.agent)
      BY <1>1 DEF Places
    <2> QED  BY <1>1, <1>3, <2>1, PlacesFinite, FS_EmptySet
  <1>5. agent_counts' = [agent_counts EXCEPT ![t.agent] = agent_counts[t.agent] - 1]
    BY <1>4 DEF DecrementAgent
  <1> HIDE DEF t
  <1>6. ASSUME NEW a \in Agents
        PROVE  /\ agent_counts'[a] \in Nat
               /\ agent_counts'[a] = Cardinality(Places(tasks', a))
               /\ agent_counts'[a] <= max_per_agent
    <2>1. Cardinality(Places(tasks', a)) =
            IF a = t.agent THEN Cardinality(Places(tasks, a)) - 1 ELSE Cardinality(Places(tasks, a))
      BY <1>1, PlacesSwapRemove DEF t
    <2>2. agent_counts'[a] = IF a = t.agent THEN agent_counts[a] - 1 ELSE agent_counts[a]
      BY <1>1, <1>5
    <2>3. agent_counts[a] \in Nat /\ (a = t.agent => agent_counts[a] # 0) /\ max_per_agent \in Nat
      BY <1>1, <1>4, QueueAssumption
    <2> QED  BY <1>3, <2>1, <2>2, <2>3
  <1>7. agent_counts' \in [Agents -> Nat]
    BY <1>1, <1>5, <1>6
  <1>8. Len(tasks') <= max_capacity
    BY <1>1, <1>2, QueueAssumption DEF QueueInv, AccountsExact
  <1>9. AccountsExact'
    BY <1>6, <1>8 DEF AccountsExact, Places
  <1> QED  BY <1>2, <1>7, <1>9

LEMMA QueueInitially == Init => QueueInd
  <1> SUFFICES ASSUME Init  PROVE QueueInd
    OBVIOUS
  <1>1. TypeOK
    BY QueueAssumption DEF Init, TypeOK
  <1>2. AccountsExact
    <2>1. \A a : {i \in DOMAIN tasks : tasks[i].agent = a} = {}
      BY DEF Init
    <2> QED  BY <2>1, FS_EmptySet, QueueAssumption DEF Init, AccountsExact
  <1>3. NoMonopoly /\ JumpedLater
    BY DEF Init, NoMonopoly, JumpedLater
  <1> QED  BY <1>1, <1>2, <1>3 DEF QueueInd, QueueSound, QueueInv

LEMMA EnqueueKeeps ==
  ASSUME QueueInd, NEW t \in QueuedTask, Enqueue(t)
  PROVE  QueueInd'
  <1> USE DEF QueueInd, QueueSound, QueueInv
  <1>1. /\ tasks \in Seq(QueuedTask) /\ t.agent \in Agents /\ agent_counts \in [Agents -> Nat]
        /\ tasks' = Append(tasks, t)
        /\ agent_counts' = [agent_counts EXCEPT ![t.agent] = agent_counts[t.agent] + 1]
        /\ Len(tasks) < max_capacity /\ agent_counts[t.agent] < max_per_agent
    BY DEF TypeOK, QueuedTask, Enqueue, Admits
  <1>2. TypeOK'
    BY <1>1 DEF TypeOK, Enqueue
  <1>3. AccountsExact'
    <2>1. \A a \in Agents : agent_counts[a] = Cardinality(Places(tasks, a)) /\ agent_counts[a] <= max_per_agent
      BY DEF AccountsExact, Places
    <2>2. ASSUME NEW a \in Agents
          PROVE  agent_counts'[a] = Cardinality(Places(tasks', a)) /\ agent_counts'[a] <= max_per_agent
      <3>1. Cardinality(Places(tasks', a)) =
              IF a = t.agent THEN Cardinality(Places(tasks, a)) + 1 ELSE Cardinality(Places(tasks, a))
        BY <1>1, PlacesAppend
      <3>2. agent_counts'[a] = IF a = t.agent THEN agent_counts[a] + 1 ELSE agent_counts[a]
        BY <1>1
      <3>3. agent_counts[a] \in Nat /\ max_per_agent \in Nat
        BY <1>1, QueueAssumption
      <3> QED  BY <1>1, <2>1, <3>1, <3>2, <3>3
    <2>3. Len(tasks') <= max_capacity
      BY <1>1, QueueAssumption
    <2> QED  BY <2>2, <2>3 DEF AccountsExact, Places
  <1>4. NoMonopoly' /\ JumpedLater'
    BY DEF Enqueue, NoMonopoly, JumpedLater
  <1> QED  BY <1>2, <1>3, <1>4

LEMMA CancelKeeps ==
  ASSUME QueueInd, NEW id \in Ids, Cancel(id)
  PROVE  QueueInd'
  <1> USE DEF QueueInd, QueueSound, QueueInv
  <1>1. PICK i \in DOMAIN tasks :
          /\ tasks' = SwapRemove(tasks, i) /\ DecrementAgent(tasks[i])
          /\ UNCHANGED <<last_served, next_service_order, jumped>>
    BY DEF Cancel
  <1>2. i \in 1 .. Len(tasks)
    BY DEF TypeOK
  <1>3. tasks' \in Seq(QueuedTask) /\ agent_counts' \in [Agents -> Nat] /\ AccountsExact'
    BY <1>1, <1>2, RemovalKeepsAccounts
  <1>4. TypeOK'
    BY <1>1, <1>3 DEF TypeOK
  <1>5. NoMonopoly' /\ JumpedLater'
    BY <1>1 DEF NoMonopoly, JumpedLater
  <1> QED  BY <1>3, <1>4, <1>5

\* Who was passed over once comes before the one who passed as long as it waits with a
\* priority as high: a second time does not happen.
LEMMA DequeueKeeps ==
  ASSUME QueueInd, Dequeue
  PROVE  QueueInd'
  <1> USE DEF QueueInd, QueueSound, QueueInv
  <1> DEFINE t == tasks[Best]
  <1>1. Best \in 1 .. Len(tasks) /\ t \in QueuedTask /\ t.agent \in Agents /\ t.priority \in Nat
    BY BestUnbeaten, TaskFields DEF Dequeue
  <1>2. tasks' \in Seq(QueuedTask) /\ agent_counts' \in [Agents -> Nat] /\ AccountsExact'
    BY <1>1, RemovalKeepsAccounts DEF Dequeue
  <1>3. /\ next_service_order \in 0 .. MaxServed /\ MaxServed \in Nat /\ next_service_order < MaxServed
        /\ next_service_order' = next_service_order + 1
        /\ last_served \in [Agents -> 0 .. MaxServed]
        /\ last_served' = [last_served EXCEPT ![t.agent] = next_service_order + 1]
        /\ jumped \in [Agents \X Agents -> Nat]
    BY QueueAssumption DEF TypeOK, Dequeue, RecordService
  <1>4. next_service_order' \in 0 .. MaxServed /\ last_served' \in [Agents -> 0 .. MaxServed]
    BY <1>1, <1>3
  <1>5. \A a \in Agents : last_served'[a] <= next_service_order'
    BY <1>1, <1>3 DEF JumpedLater
  <1>6. ASSUME NEW ab \in Agents \X Agents
        PROVE  /\ jumped'[ab] \in Nat /\ jumped'[ab] <= 1
               /\ jumped'[ab] # 0 => last_served'[ab[1]] < last_served'[ab[2]]
    <2>1. ab[1] \in Agents /\ ab[2] \in Agents
      OBVIOUS
    <2>2. /\ jumped[ab] \in Nat /\ jumped[ab] <= 1
          /\ jumped[ab] # 0 => last_served[ab[1]] < last_served[ab[2]]
      BY <1>3 DEF NoMonopoly, JumpedLater
    <2>3. jumped'[ab] = IF ab[1] = t.agent THEN 0
                        ELSE IF ab[2] = t.agent /\ Waiting(Best, ab[1], t.priority) THEN jumped[ab] + 1
                        ELSE jumped[ab]
      BY DEF Dequeue, Jump
    <2> HIDE DEF t
    <2>4. CASE ab[1] = t.agent
      BY <2>3, <2>4
    <2>5. CASE ab[1] # t.agent /\ ab[2] = t.agent
      <3>1. last_served'[ab[1]] = last_served[ab[1]] /\ last_served'[ab[2]] = next_service_order + 1
        BY <1>3, <2>1, <2>5
      <3>2. last_served[ab[1]] <= next_service_order /\ last_served[ab[1]] \in Nat
        BY <1>3, <2>1 DEF JumpedLater
      <3>3. last_served'[ab[1]] < last_served'[ab[2]]
        BY <1>3, <3>1, <3>2
      <3>4. ASSUME Waiting(Best, ab[1], t.priority)  PROVE jumped[ab] = 0
        <4>1. PICK k \in 1 .. Len(tasks) : tasks[k].agent = ab[1] /\ tasks[k].priority >= t.priority
          <5>1. DOMAIN tasks = 1 .. Len(tasks)
            BY DEF TypeOK
          <5> QED  BY <3>4, <5>1 DEF Waiting
        <4>2. tasks[k].priority \in Nat
          <5>1. tasks[k] \in QueuedTask
            BY DEF TypeOK
          <5> QED  BY <5>1, TaskFields
        <4>3. last_served[t.agent] <= last_served[ab[1]]
          BY <1>1, <4>1, <4>2, BestFirst DEF Dequeue, t
        <4>4. last_served[t.agent] \in Nat
          BY <1>1, <1>3
        <4> QED  BY <2>2, <2>5, <3>2, <4>3, <4>4
      <3> QED  BY <2>2, <2>3, <2>5, <3>3, <3>4
    <2>6. CASE ab[1] # t.agent /\ ab[2] # t.agent
      <3>1. last_served'[ab[1]] = last_served[ab[1]] /\ last_served'[ab[2]] = last_served[ab[2]]
        BY <1>3, <2>1, <2>6
      <3> QED  BY <2>2, <2>3, <2>6, <3>1
    <2> QED  BY <2>4, <2>5, <2>6
  <1>7. jumped' \in [Agents \X Agents -> Nat]
    <2>1. jumped' = [ab \in Agents \X Agents |-> jumped'[ab]]
      BY DEF Dequeue, Jump
    <2> QED  BY <1>6, <2>1
  <1>8. TypeOK'
    BY <1>2, <1>4, <1>7 DEF TypeOK
  <1>9. NoMonopoly' /\ JumpedLater'
    BY <1>5, <1>6 DEF NoMonopoly, JumpedLater
  <1> QED  BY <1>2, <1>8, <1>9

LEMMA QueueInductive ==
  ASSUME QueueInd, [SchedulingNext]_all
  PROVE  QueueInd'
  <1>1. CASE Next
    BY <1>1, EnqueueKeeps, DequeueKeeps, CancelKeeps DEF Next
  <1>2. CASE UNCHANGED vars
    BY <1>2 DEF vars, QueueInd, QueueSound, QueueInv, TypeOK, AccountsExact, NoMonopoly, JumpedLater
  <1> QED  BY <1>1, <1>2 DEF SchedulingNext, all, queue

\* However tasks are enqueued, dequeued and cancelled, for any number of agents, limits
\* and priorities: an agent is charged for exactly the tasks it has waiting, the limits
\* hold, and no agent is served twice past another one that has a task as high waiting
\* (task_queue.rs, "one agent cannot monopolize a priority band").
THEOREM QueueStaysSound == SchedulingSpec => []QueueSound
  <1>1. SchedulingInit => QueueInd
    BY QueueInitially DEF SchedulingInit
  <1>2. QueueInd /\ [SchedulingNext]_all => QueueInd'
    BY QueueInductive
  <1>3. QueueInd => QueueSound
    BY DEF QueueInd
  <1> QED  BY <1>1, <1>2, <1>3, PTL DEF SchedulingSpec

\* Dequeue takes the task that the documentation of TaskQueue promises, wherever it is
\* in the vector.
THEOREM DequeueServesInOrder == SchedulingSpec => ServesInOrder
  <1>1. SchedulingInit => QueueInd
    BY QueueInitially DEF SchedulingInit
  <1>2. QueueInd /\ [SchedulingNext]_all => QueueInd'
    BY QueueInductive
  <1> DEFINE InOrder ==
        next_service_order' # next_service_order =>
          LET t == tasks[Best]
          IN  \A i \in DOMAIN tasks :
                /\ tasks[i].priority <= t.priority
                /\ tasks[i].priority = t.priority =>
                     /\ last_served[t.agent] <= last_served[tasks[i].agent]
                     /\ tasks[i].agent = t.agent => t.enqueued_at <= tasks[i].enqueued_at
  <1>3. QueueInd /\ [SchedulingNext]_all => [InOrder]_vars
    <2> SUFFICES ASSUME QueueInd, SchedulingNext, next_service_order' # next_service_order
                 PROVE  InOrder
      BY DEF all, vars
    <2>1. Dequeue
      BY DEF SchedulingNext, queue, vars, Next, Enqueue, Cancel
    <2>2. TypeOK /\ tasks # <<>> /\ DOMAIN tasks = 1 .. Len(tasks)
      BY <2>1 DEF QueueInd, QueueSound, QueueInv, TypeOK, Dequeue
    <2> QED  BY <2>2, BestFirst
  <1> QED  BY <1>1, <1>2, <1>3, PTL DEF SchedulingSpec, ServesInOrder

-----------------------------------------------------------------------------
(* Webhooks.                                                               *)

Ats == {"validate", "posting", "done"}
Statuses == {NoStatus, 200, 404, 500}
Errors == {"none", "refused", "payload", "status", "transport"}
DeliveryRecord ==
  [at : Ats, host : Webhook!Hosts, attempts : Nat, status : Statuses, error : Errors, success : BOOLEAN]

\* A delivery that has not ended has no success and posts left; one that has not been
\* validated has made none.
DeliveryInd ==
  /\ Webhook!DeliveryHonest
  /\ delivery \in DeliveryRecord
  /\ received \in Nat
  /\ delivery.at = "validate" => delivery.attempts = 0 /\ received = 0 /\ ~ delivery.success
  /\ delivery.at = "posting" =>
       /\ delivery.attempts < 1 + max_retries /\ ~ delivery.success
       /\ ~ Webhook!is_blocked_host(delivery.host)

LEMMA DeliveryInitially == SchedulingInit => DeliveryInd
  <1> SUFFICES ASSUME SchedulingInit  PROVE DeliveryInd
    OBVIOUS
  <1>1. PICK h \in Webhook!Hosts :
          delivery = [at |-> "validate", host |-> h, attempts |-> 0, status |-> NoStatus, error |-> "none",
                      success |-> FALSE]
    BY DEF SchedulingInit, Webhook!Init
  <1>2. received = 0 /\ max_retries \in Nat
    BY SchedulingAssumption DEF SchedulingInit, Webhook!Init
  <1> QED  BY <1>1, <1>2, SchedulingAssumption
           DEF DeliveryInd, DeliveryRecord, Ats, Statuses, Errors, Webhook!DeliveryHonest

\* After a post the delivery ends, with a success or with the last attempt, or goes on.
LEMMA PostKeeps ==
  ASSUME NEW d \in DeliveryRecord, delivery' = Webhook!After(d),
         d.at = "posting", d.attempts <= 1 + max_retries, d.attempts # 0,
         received' \in Nat, received' <= d.attempts, ~ Webhook!is_blocked_host(d.host),
         d.success => d.status = 200 /\ received' > 0,
         d.status = 200 => d.success
  PROVE  DeliveryInd'
  <1> DEFINE c == Webhook!After(d)
             over == d.success \/ d.attempts = 1 + max_retries
  <1>1. c = IF over THEN [d EXCEPT !.at = "done"] ELSE d
    BY DEF Webhook!After, Webhook!total_attempts
  <1>2. /\ c \in DeliveryRecord
        /\ c.host = d.host /\ c.attempts = d.attempts /\ c.status = d.status /\ c.success = d.success
        /\ c.at = IF over THEN "done" ELSE "posting"
    <2> HIDE DEF c, over
    <2>1. CASE over
      BY <1>1, <2>1 DEF DeliveryRecord, Ats
    <2>2. CASE ~ over
      BY <1>1, <2>2
    <2> QED  BY <2>1, <2>2
  <1> HIDE DEF c
  <1>3. c.attempts \in Nat /\ max_retries \in Nat
    BY <1>2, SchedulingAssumption DEF DeliveryRecord
  <1>4. c.at = "posting" => c.attempts < 1 + max_retries /\ ~ c.success /\ ~ Webhook!is_blocked_host(c.host)
    BY <1>2, <1>3
  <1>5. /\ ~ Webhook!is_blocked_host(c.host) /\ c.attempts <= 1 + max_retries /\ received' <= c.attempts
        /\ c.success => c.at = "done" /\ c.status = 200 /\ received' > 0
        /\ c.at = "done" /\ ~ c.success => c.attempts = 1 + max_retries
        /\ c.status = 200 => c.success
        /\ c.at # "validate"
    BY <1>2
  <1>6. delivery' = c
    BY DEF c
  <1> QED  BY <1>2, <1>4, <1>5, <1>6 DEF DeliveryInd, Webhook!DeliveryHonest

\* A delivery that ends before its first post.
LEMMA EndKeeps ==
  ASSUME DeliveryInd, NEW e \in {"refused", "payload"}, e \in Errors, delivery.at = "validate",
         delivery' = [delivery EXCEPT !.at = "done", !.error = e], received' = received
  PROVE  DeliveryInd'
  <1>1. delivery \in DeliveryRecord
    BY DEF DeliveryInd
  <1>2. delivery' \in DeliveryRecord
    BY <1>1 DEF DeliveryRecord, Ats
  <1>3. /\ delivery'.at = "done" /\ delivery'.error = e /\ delivery'.host = delivery.host
        /\ delivery'.attempts = delivery.attempts /\ delivery'.status = delivery.status
        /\ delivery'.success = delivery.success
    BY <1>1 DEF DeliveryRecord
  <1> QED  BY <1>2, <1>3 DEF DeliveryInd, Webhook!DeliveryHonest

LEMMA DeliveryInductive ==
  ASSUME DeliveryInd, [SchedulingNext]_all
  PROVE  DeliveryInd'
  <1>1. CASE UNCHANGED webhook
    BY <1>1 DEF webhook, DeliveryInd, Webhook!DeliveryHonest
  <1>2. CASE Webhook!Validate
    <2>1. CASE Webhook!validate_webhook_url(delivery.host)
      <3>1. delivery' = [delivery EXCEPT !.at = "posting"] /\ received' = received /\ delivery.at = "validate"
        BY <1>2, <2>1 DEF Webhook!Validate
      <3>2. delivery' \in DeliveryRecord
        BY <3>1 DEF DeliveryInd, DeliveryRecord, Ats
      <3>3. 0 < 1 + max_retries /\ 0 <= 1 + max_retries
        BY SchedulingAssumption
      <3>4. ~ Webhook!is_blocked_host(delivery'.host)
        BY <2>1, <3>1 DEF Webhook!validate_webhook_url, DeliveryInd, DeliveryRecord
      <3> QED  BY <3>1, <3>2, <3>3, <3>4 DEF DeliveryInd, DeliveryRecord, Webhook!DeliveryHonest
    <2>2. CASE ~ Webhook!validate_webhook_url(delivery.host)
      <3>1. /\ delivery' = [delivery EXCEPT !.at = "done", !.error = "refused"]
            /\ received' = received /\ delivery.at = "validate"
        BY <1>2, <2>2 DEF Webhook!Validate
      <3> QED  BY <3>1, EndKeeps DEF Errors
    <2> QED  BY <2>1, <2>2
  <1>3. CASE Webhook!SerializeFails
    <2>1. /\ delivery' = [delivery EXCEPT !.at = "done", !.error = "payload"]
          /\ received' = received /\ delivery.at = "validate"
      BY <1>3 DEF Webhook!SerializeFails
    <2> QED  BY <2>1, EndKeeps DEF Errors
  <1>4. ASSUME NEW status \in {200, 404, 500}, Webhook!Answered(status)
        PROVE  DeliveryInd'
    <2> DEFINE d == [delivery EXCEPT !.attempts = delivery.attempts + 1, !.status = status,
                                     !.error = IF status = 200 THEN "none" ELSE "status", !.success = (status = 200)]
    <2>1. delivery.at = "posting" /\ received' = received + 1 /\ delivery' = Webhook!After(d)
      BY <1>4 DEF Webhook!Answered
    <2>2. delivery \in DeliveryRecord
      BY DEF DeliveryInd
    <2>3. d \in DeliveryRecord
      <3> DEFINE a == delivery.attempts + 1
                 e == IF status = 200 THEN "none" ELSE "status"
                 o == (status = 200)
      <3>1. a \in Nat /\ e \in Errors /\ o \in BOOLEAN /\ status \in Statuses
        BY <2>2 DEF DeliveryRecord, Errors, Statuses
      <3>2. d = [delivery EXCEPT !.attempts = a, !.status = status, !.error = e, !.success = o]
        OBVIOUS
      <3> HIDE DEF a, e, o, d
      <3> QED  BY <2>2, <3>1, <3>2 DEF DeliveryRecord
    <2>4. /\ d.at = delivery.at /\ d.host = delivery.host /\ d.attempts = delivery.attempts + 1
          /\ d.status = status /\ d.success = (status = 200)
      BY <2>2 DEF DeliveryRecord
    <2> HIDE DEF d
    <2>5. /\ delivery.attempts \in Nat /\ received \in Nat /\ max_retries \in Nat
          /\ received <= delivery.attempts /\ delivery.attempts < 1 + max_retries
          /\ ~ Webhook!is_blocked_host(delivery.host)
      BY <2>1, <2>2, SchedulingAssumption DEF DeliveryInd, DeliveryRecord, Webhook!DeliveryHonest
    <2>6. /\ d.attempts <= 1 + max_retries /\ d.attempts # 0 /\ received' \in Nat /\ received' <= d.attempts
          /\ received' > 0
      BY <2>1, <2>4, <2>5
    <2>7. (d.success => d.status = 200) /\ (d.status = 200 => d.success)
      BY <2>4, Zenon
    <2> QED  BY <2>1, <2>3, <2>4, <2>5, <2>6, <2>7, PostKeeps
  <1>5. ASSUME NEW taken \in BOOLEAN, Webhook!Lost(taken)
        PROVE  DeliveryInd'
    <2> DEFINE d == [delivery EXCEPT !.attempts = delivery.attempts + 1, !.error = "transport"]
    <2>1. delivery.at = "posting" /\ received' \in {received, received + 1} /\ delivery' = Webhook!After(d)
      BY <1>5 DEF Webhook!Lost
    <2>2. delivery \in DeliveryRecord
      BY DEF DeliveryInd
    <2>3. d \in DeliveryRecord
      <3> DEFINE a == delivery.attempts + 1
      <3>1. a \in Nat /\ "transport" \in Errors
        BY <2>2 DEF DeliveryRecord, Errors
      <3>2. d = [delivery EXCEPT !.attempts = a, !.error = "transport"]
        OBVIOUS
      <3> HIDE DEF a, d
      <3> QED  BY <2>2, <3>1, <3>2 DEF DeliveryRecord
    <2>4. /\ d.at = delivery.at /\ d.host = delivery.host /\ d.attempts = delivery.attempts + 1
          /\ d.status = delivery.status /\ d.success = delivery.success
      BY <2>2 DEF DeliveryRecord
    <2> HIDE DEF d
    <2>5. /\ delivery.attempts \in Nat /\ received \in Nat /\ max_retries \in Nat
          /\ received <= delivery.attempts /\ delivery.attempts < 1 + max_retries
          /\ ~ Webhook!is_blocked_host(delivery.host) /\ ~ delivery.success /\ delivery.status # 200
      BY <2>1, <2>2, SchedulingAssumption DEF DeliveryInd, DeliveryRecord, Webhook!DeliveryHonest
    <2>6. /\ d.attempts <= 1 + max_retries /\ d.attempts # 0 /\ received' \in Nat /\ received' <= d.attempts
      BY <2>1, <2>4, <2>5
    <2> QED  BY <2>1, <2>3, <2>4, <2>5, <2>6, PostKeeps
  <1>6. CASE Webhook!Next
    BY <1>2, <1>3, <1>4, <1>5, <1>6 DEF Webhook!Next
  <1> QED  BY <1>1, <1>6 DEF SchedulingNext, all, webhook

\* Whatever is answered and whatever is lost: a blocked host is never contacted, at most
\* max_retries + 1 posts are made, success is reported for a payload that was received
\* and only then, and nothing is sent after it (webhook.rs, deliver_webhook).
THEOREM DeliveryStaysHonest == SchedulingSpec => []DeliveryHonest
  <1>1. SchedulingInit => DeliveryInd
    BY DeliveryInitially
  <1>2. DeliveryInd /\ [SchedulingNext]_all => DeliveryInd'
    BY DeliveryInductive
  <1>3. DeliveryInd => DeliveryHonest
    BY DEF DeliveryInd, DeliveryHonest
  <1> QED  BY <1>1, <1>2, <1>3, PTL DEF SchedulingSpec

-----------------------------------------------------------------------------
(* The restart tracker.                                                    *)

\* The powers of the factor up to n.
PowerStep(g, k) ==
  IF k = 0 THEN [num |-> 1, den |-> 1]
  ELSE [num |-> factor_num * g[k - 1].num, den |-> factor_den * g[k - 1].den]
ArePowers(g, n) == g = [k \in 0 .. n |-> PowerStep(g, k)]

\* There is one power more.
LEMMA PowersExtend ==
  ASSUME NEW n \in Nat, NEW g, ArePowers(g, n)
  PROVE  \E h : ArePowers(h, n + 1)
  <1> DEFINE h == [k \in 0 .. n + 1 |-> IF k = n + 1 THEN PowerStep(g, n + 1) ELSE g[k]]
  <1>1. ASSUME NEW k \in 0 .. n + 1  PROVE  h[k] = PowerStep(h, k)
    <2>1. k = 0 \/ (k # 0 /\ k - 1 \in 0 .. n + 1 /\ k - 1 # n + 1)
      OBVIOUS
    <2>2. k # 0 => h[k - 1] = g[k - 1]
      BY <2>1
    <2>3. PowerStep(h, k) = PowerStep(g, k)
      <3> HIDE DEF h
      <3> QED  BY <2>2 DEF PowerStep
    <2>4. CASE k = n + 1
      BY <2>3, <2>4
    <2>5. CASE k # n + 1
      <3>1. k \in 0 .. n
        BY <2>5
      <3>2. g[k] = PowerStep(g, k)
        BY <3>1 DEF ArePowers
      <3> QED  BY <2>3, <2>5, <3>2
    <2> QED  BY <2>4, <2>5
  <1>2. h = [k \in 0 .. n + 1 |-> h[k]]
    OBVIOUS
  <1> HIDE DEF h
  <1>3. ArePowers(h, n + 1)
    BY <1>1, <1>2 DEF ArePowers
  <1> QED  BY <1>3

LEMMA PowersExist ==
  ASSUME NEW n \in Nat
  PROVE  \E g : ArePowers(g, n)
  <1> DEFINE T == {m \in Nat : ~ \E g : ArePowers(g, m)}
  <1>1. SUFFICES ASSUME T # {}  PROVE FALSE
    OBVIOUS
  <1>2. PICK m \in T : \A y \in T : m <= y
    <2> T \in SUBSET Nat
      OBVIOUS
    <2> HIDE DEF T
    <2> QED  BY <1>1, Least
  <1>3. CASE m = 0
    <2>1. ArePowers([k \in 0 .. 0 |-> [num |-> 1, den |-> 1]], 0)
      BY DEF ArePowers, PowerStep
    <2> QED  BY <1>3, <2>1
  <1>4. CASE m # 0
    <2>1. m - 1 \in Nat /\ (m - 1) + 1 = m /\ ~ (m <= m - 1)
      BY <1>4
    <2>2. PICK g : ArePowers(g, m - 1)
      BY <1>2, <2>1
    <2>3. \E h : ArePowers(h, m)
      BY <2>1, <2>2, PowersExtend
    <2> QED  BY <2>3
  <1> QED  BY <1>3, <1>4

LEMMA PowersUnfold == ArePowers(Restart!powi, MaxAttempts)
  <1> DEFINE P(g) == ArePowers(g, MaxAttempts)
  <1>1. \E g : P(g)
    BY PowersExist, SchedulingAssumption DEF Restart!RestartAssumption
  <1>2. Restart!powi = CHOOSE g : P(g)
    BY Zenon DEF Restart!powi, ArePowers, PowerStep
  <1>3. P(CHOOSE g : P(g))
    <2> HIDE DEF P
    <2> QED  BY <1>1, Zenon
  <1> QED  BY <1>2, <1>3

LEMMA TimesNat ==
  ASSUME NEW a \in Nat, NEW b \in Nat
  PROVE  a * b \in Nat /\ (a # 0 /\ b # 0 => a * b # 0)
  OBVIOUS

\* Powers are ratios of numbers.
LEMMA PowersAreRatios ==
  ASSUME NEW n \in 0 .. MaxAttempts
  PROVE  Restart!powi[n].num \in Nat /\ Restart!powi[n].den \in Nat /\ Restart!powi[n].den # 0
  <1> DEFINE Ratio(m) == Restart!powi[m].num \in Nat /\ Restart!powi[m].den \in Nat /\ Restart!powi[m].den # 0
             T == {m \in 0 .. MaxAttempts : ~ Ratio(m)}
  <1>0. factor_num \in Nat /\ factor_den \in Nat /\ factor_den # 0 /\ MaxAttempts \in Nat
    BY SchedulingAssumption DEF Restart!RestartAssumption
  <1>1. SUFFICES ASSUME T # {}  PROVE FALSE
    OBVIOUS
  <1>2. PICK m \in T : \A y \in T : m <= y
    <2> T \in SUBSET Nat
      BY <1>0
    <2> HIDE DEF T
    <2> QED  BY <1>1, Least
  <1>3. Restart!powi[m] = PowerStep(Restart!powi, m)
    BY PowersUnfold DEF ArePowers
  <1>4. CASE m = 0
    BY <1>3, <1>4 DEF PowerStep
  <1>5. CASE m # 0
    <2>1. m - 1 \in 0 .. MaxAttempts /\ ~ (m <= m - 1)
      BY <1>0, <1>5
    <2>2. Ratio(m - 1)
      BY <1>2, <2>1
    <2>3. /\ Restart!powi[m].num = factor_num * Restart!powi[m - 1].num
          /\ Restart!powi[m].den = factor_den * Restart!powi[m - 1].den
      BY <1>3, <1>5 DEF PowerStep
    <2> QED  BY <1>0, <2>2, <2>3, TimesNat
  <1> QED  BY <1>4, <1>5

\* A quotient of numbers is the number its definition says.
LEMMA Quotient ==
  ASSUME NEW x \in Nat, NEW y \in Nat, y # 0
  PROVE  /\ x \div y \in Nat
         /\ (x \div y) * y <= x
         /\ \A q \in Nat : q * y <= x => q <= x \div y
  <1>1. /\ x \div y \in Nat
        /\ (x \div y) * y <= x
        /\ x < ((x \div y) + 1) * y
    OBVIOUS
  <1> DEFINE d == x \div y
  <1>2. ASSUME NEW q \in Nat, q * y <= x  PROVE q <= d
    <2>1. d \in Nat /\ x < (d + 1) * y
      BY <1>1
    <2> HIDE DEF d
    <2>2. SUFFICES ASSUME d + 1 <= q  PROVE FALSE
      BY <2>1
    <2>3. (d + 1) * y <= q * y
      BY <2>1, <2>2
    <2> QED  BY <1>2, <2>1, <2>3
  <1> QED  BY <1>1, <1>2

\* Scaling by a ratio of one or more does not make a quotient smaller.
LEMMA QuotientGrows ==
  ASSUME NEW x \in Nat, NEW y \in Nat, y # 0, NEW a \in Nat, NEW b \in Nat, b # 0, b <= a
  PROVE  x \div y <= (a * x) \div (b * y)
  <1> DEFINE q == x \div y
             ax == a * x
             by == b * y
  <1>1. q \in Nat /\ q * y <= x
    BY Quotient
  <1>2. ax \in Nat /\ by \in Nat /\ by # 0
    BY TimesNat
  <1>3. q * by <= ax
    <2> DEFINE qy == q * y
    <2>1. qy \in Nat /\ qy <= x
      BY <1>1, TimesNat
    <2>2. q * by = b * qy
      <3> HIDE DEF q
      <3> QED  BY <1>1
    <2> HIDE DEF qy, q
    <2>3. b * qy <= a * qy
      BY <2>1
    <2>4. a * qy <= ax
      BY <2>1
    <2>5. b * qy \in Nat /\ a * qy \in Nat
      BY <2>1, TimesNat
    <2> HIDE DEF ax, by
    <2> QED  BY <1>2, <2>2, <2>3, <2>4, <2>5
  <1> HIDE DEF q, ax, by
  <1>4. q <= ax \div by
    BY <1>1, <1>2, <1>3, Quotient
  <1> QED  BY <1>4 DEF q, ax, by

\* The backoff is a number, and grows with the attempts if the factor is one or more.
LEMMA BackoffIsNumber ==
  ASSUME NEW n \in 1 .. MaxAttempts
  PROVE  Restart!Backoff(n) \in Nat
  <1>1. n - 1 \in 0 .. MaxAttempts /\ n # 0 /\ initial_delay \in Nat
    BY SchedulingAssumption DEF Restart!RestartAssumption
  <1> DEFINE p == Restart!powi[n - 1]
             x == initial_delay * p.num
  <1>2. p.num \in Nat /\ p.den \in Nat /\ p.den # 0
    BY <1>1, PowersAreRatios
  <1>3. Restart!Backoff(n) = x \div p.den
    BY <1>1 DEF Restart!Backoff
  <1> HIDE DEF p
  <1>4. x \in Nat
    BY <1>1, <1>2, TimesNat
  <1> HIDE DEF x
  <1> QED  BY <1>2, <1>3, <1>4, Quotient

LEMMA BackoffGrows ==
  ASSUME NEW n \in 1 .. MaxAttempts, n + 1 \in 1 .. MaxAttempts, factor_num >= factor_den
  PROVE  Restart!Backoff(n) <= Restart!Backoff(n + 1)
  <1>1. /\ n - 1 \in 0 .. MaxAttempts /\ n \in 0 .. MaxAttempts /\ n # 0 /\ n + 1 # 0 /\ (n + 1) - 1 = n
        /\ initial_delay \in Nat /\ factor_num \in Nat /\ factor_den \in Nat /\ factor_den # 0
        /\ factor_den <= factor_num
    BY SchedulingAssumption DEF Restart!RestartAssumption
  <1> DEFINE p == Restart!powi[n - 1]
             s == Restart!powi[n]
             x == initial_delay * p.num
             y == initial_delay * s.num
             d == p.den
             e == s.den
  <1>2. p.num \in Nat /\ d \in Nat /\ d # 0
    BY <1>1, PowersAreRatios
  <1>3. s.num = factor_num * p.num /\ e = factor_den * d
    <2>1. Restart!powi[n] = PowerStep(Restart!powi, n)
      BY <1>1, PowersUnfold DEF ArePowers
    <2> QED  BY <1>1, <2>1 DEF PowerStep
  <1>4. Restart!Backoff(n) = x \div d /\ Restart!Backoff(n + 1) = y \div e
    BY <1>1 DEF Restart!Backoff
  <1>5. y = factor_num * x /\ x \in Nat
    <2> DEFINE u == p.num
    <2>1. u \in Nat /\ y = initial_delay * (factor_num * u)
      BY <1>2, <1>3
    <2> HIDE DEF y
    <2> QED  BY <1>1, <2>1, TimesNat
  <1> HIDE DEF x, y, d, e
  <1>6. x \div d <= (factor_num * x) \div (factor_den * d)
    BY <1>1, <1>2, <1>5, QuotientGrows
  <1> QED  BY <1>3, <1>4, <1>5, <1>6

\* Delays are numbers up to the limit, and grow where the backoff does.
LEMMA DelayBounded ==
  ASSUME NEW n \in 1 .. MaxAttempts
  PROVE  Restart!DelayOf(n) \in Nat /\ Restart!DelayOf(n) <= max_delay
  <1>1. Restart!Backoff(n) \in Nat /\ max_delay \in Nat
    BY BackoffIsNumber, SchedulingAssumption DEF Restart!RestartAssumption
  <1> QED  BY <1>1 DEF Restart!DelayOf, Restart!AtMost

LEMMA DelayGrows ==
  ASSUME NEW n \in 1 .. MaxAttempts, n + 1 \in 1 .. MaxAttempts, factor_num >= factor_den
  PROVE  Restart!DelayOf(n) <= Restart!DelayOf(n + 1)
  <1>1. /\ Restart!Backoff(n) \in Nat /\ Restart!Backoff(n + 1) \in Nat /\ max_delay \in Nat
        /\ Restart!Backoff(n) <= Restart!Backoff(n + 1)
    BY BackoffIsNumber, BackoffGrows, SchedulingAssumption DEF Restart!RestartAssumption
  <1> QED  BY <1>1 DEF Restart!DelayOf, Restart!AtMost

\* The last delay is the one of the attempts counted.
RestartInd ==
  /\ Restart!RestartInv
  /\ delay <= max_delay
  /\ ~ late /\ browser # "given_up" => delay = IF attempts = 0 THEN 0 ELSE Restart!DelayOf(attempts)

\* What a step may do to the delays.
DelayStep ==
  /\ delay' <= max_delay
  /\ factor_num >= factor_den /\ ~ late' /\ in_a_row' > in_a_row => delay' >= delay

\* Numbers of the tracker.
LEMMA RestartNumbers ==
  ASSUME RestartInd
  PROVE  /\ clock \in Nat /\ clock <= MaxClock /\ MaxClock \in Nat /\ MaxAttempts \in Nat
         /\ attempts \in Nat /\ attempts <= MaxAttempts /\ launch_at \in Nat /\ delay \in Nat /\ in_a_row \in Nat
         /\ up_since \in Nat /\ up_since # Never /\ Never \notin Nat /\ max_restarts \in Nat /\ max_delay \in Nat
         /\ stable_period \in Nat /\ 0 \in 0 .. MaxAttempts
  BY SchedulingAssumption DEF RestartInd, Restart!RestartInv, Restart!TypeOK, Restart!RestartAssumption

LEMMA RestartInitially == SchedulingInit => RestartInd
  <1> SUFFICES ASSUME Restart!Init  PROVE RestartInd
    BY DEF SchedulingInit
  <1>1. MaxClock \in Nat /\ MaxAttempts \in Nat /\ max_restarts \in Nat /\ max_delay \in Nat
    BY SchedulingAssumption DEF Restart!RestartAssumption
  <1>2. Restart!TypeOK
    <2>1. 0 \in 0 .. MaxClock /\ 0 \in 0 .. MaxAttempts
      BY <1>1
    <2>2. last_start_at \in 0 .. MaxClock \cup {Never} /\ late \in BOOLEAN
      BY Zenon DEF Restart!Init
    <2> QED  BY <2>1, <2>2 DEF Restart!Init, Restart!TypeOK
  <1> QED  BY <1>1, <1>2 DEF Restart!Init, RestartInd, Restart!RestartInv

\* A crash that is counted, whatever it was: stable says whether the counter starts again,
\* unless the failure is one that late notes.
LEMMA CrashKeeps ==
  ASSUME RestartInd, NEW stable \in BOOLEAN, Restart!CrashAndDecide(stable),
         browser \in {"up", "down"}, late' \in BOOLEAN,
         ~ late' => /\ ~ late
                    /\ Restart!AfterCrash = IF stable THEN 1 ELSE attempts + 1
  PROVE  RestartInd' /\ DelayStep
  <1> DEFINE n == attempts'
  <1>1. /\ attempts < MaxAttempts /\ n = Restart!AfterCrash
        /\ UNCHANGED <<clock, last_start_at, up_since>>
    BY DEF Restart!CrashAndDecide
  <1>2. n \in {1, attempts + 1} /\ n \in 1 .. MaxAttempts /\ n \in 0 .. MaxAttempts /\ n # 0
    BY <1>1, RestartNumbers DEF Restart!AfterCrash
  <1>3. Restart!DelayOf(n) \in Nat /\ Restart!DelayOf(n) <= max_delay
    BY <1>2, DelayBounded
  <1>4. CASE Restart!Allowed(n)
    <2>1. /\ browser' = "down" /\ delay' = Restart!DelayOf(n) /\ launch_at' = clock + delay'
          /\ in_a_row' = (IF stable THEN 0 ELSE in_a_row) + 1
      BY <1>4 DEF Restart!CrashAndDecide
    <2> HIDE DEF n
    <2>2. launch_at' \in Nat /\ delay' \in Nat /\ in_a_row' \in Nat /\ n <= max_restarts
      BY <1>3, <1>4, <2>1, RestartNumbers DEF Restart!Allowed
    <2>3. ~ late' => in_a_row' = n
      BY <1>1, <2>1, RestartNumbers DEF RestartInd, Restart!RestartInv, n
    <2>4. Restart!TypeOK'
      BY <1>1, <1>2, <2>1, <2>2 DEF RestartInd, Restart!RestartInv, Restart!TypeOK, n
    <2>5. RestartInd'
      BY <1>2, <1>3, <2>1, <2>2, <2>3, <2>4 DEF RestartInd, Restart!RestartInv, n
    <2>6. ASSUME factor_num >= factor_den, ~ late', in_a_row' > in_a_row  PROVE delay' >= delay
      <3>1. in_a_row = attempts /\ delay = IF attempts = 0 THEN 0 ELSE Restart!DelayOf(attempts)
        BY <2>6 DEF RestartInd, Restart!RestartInv
      <3>2. n > attempts
        BY <2>3, <2>6, <3>1
      <3>3. n = attempts + 1
        BY <1>2, <3>2, RestartNumbers
      <3>4. CASE attempts = 0
        BY <2>2, <3>1, <3>4, RestartNumbers
      <3>5. CASE attempts # 0
        <4>1. attempts \in 1 .. MaxAttempts /\ attempts + 1 \in 1 .. MaxAttempts
          BY <1>1, <3>5, RestartNumbers
        <4>2. Restart!DelayOf(attempts) <= Restart!DelayOf(attempts + 1)
          BY <2>6, <4>1, DelayGrows
        <4>3. delay = Restart!DelayOf(attempts) /\ delay' = Restart!DelayOf(attempts + 1)
          BY <2>1, <3>1, <3>3, <3>5
        <4> QED  BY <2>2, <4>2, <4>3, RestartNumbers
      <3> QED  BY <3>4, <3>5
    <2> QED  BY <1>3, <2>1, <2>5, <2>6 DEF DelayStep
  <1>5. CASE ~ Restart!Allowed(n)
    <2>1. browser' = "given_up" /\ UNCHANGED <<delay, launch_at, in_a_row>>
      BY <1>5 DEF Restart!CrashAndDecide
    <2> HIDE DEF n
    <2>2. Restart!TypeOK'
      BY <1>1, <1>2, <2>1 DEF RestartInd, Restart!RestartInv, Restart!TypeOK, n
    <2>3. RestartInd'
      BY <2>1, <2>2 DEF RestartInd, Restart!RestartInv
    <2>4. DelayStep
      BY <2>1, RestartNumbers DEF RestartInd, DelayStep
    <2> QED  BY <2>3, <2>4
  <1> QED  BY <1>4, <1>5

LEMMA RestartInductive ==
  ASSUME RestartInd, [SchedulingNext]_all
  PROVE  RestartInd' /\ (UNCHANGED restart \/ DelayStep)
  <1>1. CASE UNCHANGED restart
    BY <1>1 DEF restart, RestartInd, Restart!RestartInv, Restart!TypeOK
  <1>2. CASE Restart!Tick
    <2>1. Restart!TypeOK'
      BY <1>2, RestartNumbers DEF RestartInd, Restart!RestartInv, Restart!TypeOK, Restart!Tick
    <2> QED  BY <1>2, <2>1, RestartNumbers DEF Restart!Tick, RestartInd, Restart!RestartInv, DelayStep
  <1>3. CASE Restart!Crash
    <2>1. (clock - up_since >= stable_period) \in BOOLEAN
      OBVIOUS
    <2>2. last_start_at = up_since /\ last_start_at # Never
      BY <1>3, RestartNumbers DEF Restart!Crash, RestartInd, Restart!RestartInv
    <2>3. Restart!AfterCrash = IF clock - up_since >= stable_period THEN 1 ELSE attempts + 1
      BY <2>2 DEF Restart!AfterCrash
    <2>4. late' = late /\ late \in BOOLEAN /\ browser = "up" /\ Restart!CrashAndDecide(clock - up_since >= stable_period)
      BY <1>3 DEF Restart!Crash, RestartInd, Restart!RestartInv, Restart!TypeOK
    <2> QED  BY <2>1, <2>3, <2>4, CrashKeeps
  <1>4. CASE Restart!LaunchFails
    <2>1. browser = "down" /\ Restart!CrashAndDecide(FALSE)
      BY <1>4 DEF Restart!LaunchFails
    <2>2. late' \in BOOLEAN
      BY <1>4 DEF Restart!LaunchFails
    <2>3. ~ late' => ~ late /\ ~ (last_start_at # Never /\ clock - last_start_at >= stable_period)
      BY <1>4 DEF Restart!LaunchFails
    <2>4. ~ late' => ~ late /\ Restart!AfterCrash = attempts + 1
      BY <2>3 DEF Restart!AfterCrash
    <2> QED  BY <2>1, <2>2, <2>4, CrashKeeps
  <1>5. CASE Restart!RecordStart
    <2>1. Restart!TypeOK'
      BY <1>5, RestartNumbers DEF RestartInd, Restart!RestartInv, Restart!TypeOK, Restart!RecordStart
    <2> QED  BY <1>5, <2>1, RestartNumbers DEF Restart!RecordStart, RestartInd, Restart!RestartInv, DelayStep
  <1>6. CASE Restart!Reset
    <2>1. Restart!TypeOK'
      BY <1>6, RestartNumbers DEF RestartInd, Restart!RestartInv, Restart!TypeOK, Restart!Reset
    <2> QED  BY <1>6, <2>1, RestartNumbers DEF Restart!Reset, RestartInd, Restart!RestartInv, DelayStep
  <1>7. CASE Restart!Next
    BY <1>2, <1>3, <1>4, <1>5, <1>6, <1>7 DEF Restart!Next
  <1> QED  BY <1>1, <1>7 DEF SchedulingNext, all

\* Restarts in a row are counted exactly and stay within max_restarts unless a launch
\* failed a stable period after the last start, and no delay passes the limit, for every
\* factor that is a ratio of whole numbers, less than one or not; with a factor of one or
\* more the delays never shrink before the browser was stable (autorestart.rs,
\* record_crash and should_restart).
THEOREM RestartsStayBounded == SchedulingSpec => RestartsBounded
  <1>1. SchedulingInit => RestartInd
    BY RestartInitially
  <1>2. RestartInd /\ [SchedulingNext]_all => RestartInd'
    BY RestartInductive
  <1>3. RestartInd => Restart!RestartInv
    BY DEF RestartInd
  <1>4. RestartInd /\ [SchedulingNext]_all => [DelayStep]_(Restart!vars)
    BY RestartInductive DEF restart, Restart!vars
  <1> QED  BY <1>1, <1>2, <1>3, <1>4, PTL DEF SchedulingSpec, RestartsBounded, Restart!BacksOff, DelayStep

-----------------------------------------------------------------------------
(* The table of tasks.                                                     *)

RowsTyped == rows \in [DOMAIN rows -> Table!TaskRecord]

\* What a step may do to the rows that are stored.
RowsStep ==
  \A id \in DOMAIN rows :
    /\ id \in DOMAIN rows' /\ rows'[id].agent = rows[id].agent /\ rows'[id].created = rows[id].created
    /\ rows[id].started # Unset => rows'[id].started # Unset
    /\ rows[id].completed # Unset => rows'[id].completed # Unset

LEMMA InsertKeeps ==
  ASSUME RowsTyped, NEW id, NEW task \in Table!TaskRecord, Table!insert_task(id, task)
  PROVE  RowsTyped' /\ RowsStep
  <1>1. id \notin DOMAIN rows /\ rows' = [i \in DOMAIN rows \cup {id} |-> IF i = id THEN task ELSE rows[i]]
    BY DEF Table!insert_task
  <1>2. \A i \in DOMAIN rows : rows'[i] = rows[i]
    BY <1>1
  <1> QED  BY <1>1, <1>2 DEF RowsTyped, RowsStep

LEMMA UpdateKeeps ==
  ASSUME RowsTyped, NEW id, NEW state \in Table!States, NEW started \in Table!Times, NEW completed \in Table!Times,
         Table!update_task_state(id, state, started, completed)
  PROVE  RowsTyped' /\ RowsStep
  <1> DEFINE r == rows[id]
             st == Table!COALESCE(started, r.started)
             co == Table!COALESCE(completed, r.completed)
             c == [r EXCEPT !.state = state, !.started = st, !.completed = co]
  <1>1. id \in DOMAIN rows /\ r \in Table!TaskRecord
    BY DEF Table!update_task_state, RowsTyped
  <1>2. rows' = [rows EXCEPT ![id] = c]
    BY Zenon DEF Table!update_task_state
  <1>3. /\ st \in Table!Times /\ co \in Table!Times
        /\ r.started # Unset => st # Unset
        /\ r.completed # Unset => co # Unset
    BY <1>1 DEF Table!COALESCE, Table!TaskRecord
  <1> HIDE DEF st, co, r
  <1>4. /\ c \in Table!TaskRecord /\ c.agent = r.agent /\ c.created = r.created
        /\ c.started = st /\ c.completed = co
    BY <1>1, <1>3 DEF Table!TaskRecord
  <1> HIDE DEF c
  <1>5. /\ DOMAIN rows' = DOMAIN rows /\ rows'[id] = c
        /\ \A i \in DOMAIN rows : i # id => rows'[i] = rows[i]
    BY <1>1, <1>2 DEF RowsTyped
  <1>6. RowsTyped'
    BY <1>1, <1>2, <1>4 DEF RowsTyped
  <1>7. RowsStep
    BY <1>3, <1>4, <1>5 DEF RowsStep, r
  <1> QED  BY <1>6, <1>7

LEMMA RowsInductive ==
  ASSUME RowsTyped, [SchedulingNext]_all
  PROVE  RowsTyped' /\ (UNCHANGED table \/ RowsStep)
  <1>1. CASE UNCHANGED table
    BY <1>1 DEF table, RowsTyped
  <1>2. CASE Table!NextTask
    BY <1>2, InsertKeeps, UpdateKeeps DEF Table!NextTask
  <1>3. CASE Table!NextMetric
    <2>1. rows' = rows
      BY <1>3 DEF Table!NextMetric, Table!increment_scheduler_metric, Table!reset_scheduler_metrics
    <2> QED  BY <2>1 DEF RowsTyped, RowsStep
  <1> QED  BY <1>1, <1>2, <1>3 DEF SchedulingNext, all, table

\* Updates of tasks, however late, repeated or out of order, erase no time that was stored
\* and no row, and give no task to another agent (update_task_state's COALESCE).
THEOREM TimesNeverErased == SchedulingSpec => Table!TimesKept
  <1>1. SchedulingInit => RowsTyped
    BY DEF SchedulingInit, Table!Init, RowsTyped
  <1>2. RowsTyped /\ [SchedulingNext]_all => RowsTyped'
    BY RowsInductive
  <1>3. RowsTyped /\ [SchedulingNext]_all => [RowsStep]_(Table!table)
    BY RowsInductive DEF table, Table!table
  <1> QED  BY <1>1, <1>2, <1>3, PTL DEF SchedulingSpec, Table!TimesKept, RowsStep

-----------------------------------------------------------------------------
(* The allocation policies: the list of the available candidates exists,   *)
(* and places in it are remainders of the round-robin index.               *)

\* q of length k lists the elements of S in increasing order.
Lists(q, k, S) ==
  /\ q \in [1 .. k -> S] /\ S = {q[i] : i \in 1 .. k}
  /\ \A i, j \in 1 .. k : i < j => q[i] < q[j]

\* A list without the greatest element, and then with it.
LEMMA ListExtends ==
  ASSUME NEW m \in Nat, NEW S \in SUBSET (1 .. m), m \in S, NEW k \in Nat, NEW q, Lists(q, k, S \ {m})
  PROVE  \E r : Lists(r, k + 1, S)
  <1> DEFINE B == S \ {m}
             r == [i \in 1 .. k + 1 |-> IF i = k + 1 THEN m ELSE q[i]]
  <1>1. /\ q \in [1 .. k -> B] /\ B = {q[i] : i \in 1 .. k}
        /\ \A i, j \in 1 .. k : i < j => q[i] < q[j]
    BY DEF Lists
  <1>2. B \subseteq S /\ S = B \cup {m} /\ \A x \in B : x \in Nat /\ x < m
    OBVIOUS
  <1> HIDE DEF B
  <1>3. \A i \in 1 .. k + 1 : i = k + 1 \/ (i \in 1 .. k /\ i # k + 1)
    OBVIOUS
  <1>4. k + 1 \in 1 .. k + 1 /\ \A i \in 1 .. k : i \in 1 .. k + 1 /\ i # k + 1
    OBVIOUS
  <1>5. r[k + 1] = m /\ \A i \in 1 .. k : r[i] = q[i]
    BY <1>4
  <1>6. r \in [1 .. k + 1 -> S]
    BY <1>1, <1>2, <1>3
  <1> HIDE DEF r
  <1>7. S = {r[i] : i \in 1 .. k + 1}
    BY <1>1, <1>2, <1>3, <1>4, <1>5
  <1>8. ASSUME NEW i \in 1 .. k + 1, NEW j \in 1 .. k + 1, i < j  PROVE r[i] < r[j]
    <2>1. i \in 1 .. k
      BY <1>8
    <2>2. r[i] = q[i] /\ q[i] \in B
      BY <1>1, <1>5, <2>1
    <2>3. CASE j = k + 1
      BY <1>2, <1>5, <2>2, <2>3
    <2>4. CASE j \in 1 .. k
      BY <1>1, <1>5, <1>8, <2>1, <2>2, <2>4
    <2> QED  BY <1>3, <2>3, <2>4
  <1> QED  BY <1>6, <1>7, <1>8 DEF Lists

\* Every set of naturals up to n has a list.
LEMMA ListExists ==
  ASSUME NEW n \in Nat, NEW S \in SUBSET (1 .. n)
  PROVE  \E k \in 0 .. n : \E q : Lists(q, k, S)
  <1> DEFINE Listed(R, b) == \E k \in 0 .. b : \E q : Lists(q, k, R)
             T == {b \in Nat : \E R \in SUBSET (1 .. b) : ~ Listed(R, b)}
  <1> SUFFICES ASSUME T # {}  PROVE FALSE
    OBVIOUS
  <1>1. PICK m \in T : \A b \in T : m <= b
    <2> T \in SUBSET Nat
      OBVIOUS
    <2> HIDE DEF T
    <2> QED  BY Least
  <1>2. PICK R \in SUBSET (1 .. m) : ~ Listed(R, m)
    BY <1>1
  <1>3. m \in Nat /\ \A b \in Nat : b < m => \A R1 \in SUBSET (1 .. b) : Listed(R1, b)
    BY <1>1
  <1> HIDE DEF T
  <1>4. CASE R = {}
    <2>1. Lists([i \in 1 .. 0 |-> 0], 0, R)
      BY <1>4 DEF Lists
    <2>2. 0 \in 0 .. m
      BY <1>3
    <2> QED  BY <1>2, <2>1, <2>2
  <1>5. CASE R # {}
    <2> DEFINE B == R \ {m}
    <2>1. PICK x \in R : TRUE
      BY <1>5
    <2>2. m - 1 \in Nat /\ m - 1 < m
      BY <1>3, <2>1
    <2>3. B \in SUBSET (1 .. m - 1)
      <3>1. \A y \in R : y = m \/ y \in 1 .. m - 1
        BY <1>3
      <3> QED  BY <3>1
    <2>4. PICK k \in 0 .. m - 1 : \E q : Lists(q, k, B)
      BY <1>3, <2>2, <2>3
    <2>5. k \in Nat /\ k \in 0 .. m /\ k + 1 \in 0 .. m
      BY <1>3, <2>2
    <2>6. CASE m \in R
      <3>1. \E r : Lists(r, k + 1, R)
        <4>1. PICK q : Lists(q, k, B)
          BY <2>4
        <4> QED  BY <1>3, <2>5, <2>6, <4>1, ListExtends
      <3> QED  BY <1>2, <2>5, <3>1
    <2>7. CASE m \notin R
      <3>1. B = R
        BY <2>7
      <3> QED  BY <1>2, <2>4, <2>5, <3>1
    <2> QED  BY <2>6, <2>7
  <1> QED  BY <1>4, <1>5

\* The candidates that a policy chooses from: each available one, once.
LEMMA OfferedIs ==
  ASSUME available \in SUBSET (1 .. Candidates), Candidates \in Nat
  PROVE  LET q == Alloc!Offered
         IN  /\ Len(q) \in Nat /\ (available # {} => Len(q) # 0)
             /\ q \in [1 .. Len(q) -> available]
             /\ \A i, j \in 1 .. Len(q) : q[i] = q[j] => i = j
  <1> DEFINE U == UNION {[1 .. n -> available] : n \in 0 .. Candidates}
             Fits(r) == Alloc!Increasing(r) /\ available = {r[i] : i \in DOMAIN r}
             q == Alloc!Offered
  <1>0. PICK k \in 0 .. Candidates : \E r : Lists(r, k, available)
    BY ListExists
  <1>1. PICK r : Lists(r, k, available)
    BY <1>0
  <1>2. r \in U /\ Fits(r)
    <2>1. r \in [1 .. k -> available] /\ DOMAIN r = 1 .. k
      BY <1>1 DEF Lists
    <2>2. r \in U
      BY <2>1
    <2> QED  BY <1>1, <2>1, <2>2 DEF Lists, Alloc!Increasing
  <1>3. q \in U /\ Fits(q)
    <2>1. q = CHOOSE z \in U : Fits(z)
      BY DEF Alloc!Offered
    <2> HIDE DEF U, Fits, q
    <2> QED  BY <1>2, <2>1
  <1> HIDE DEF q
  <1>4. PICK c \in 0 .. Candidates : q \in [1 .. c -> available]
    BY <1>3
  <1>5. Len(q) = c /\ DOMAIN q = 1 .. c
    BY <1>4
  <1>6. available # {} => c # 0
    BY <1>3, <1>5
  <1>7. ASSUME NEW i \in 1 .. c, NEW j \in 1 .. c, q[i] = q[j]  PROVE i = j
    <2> SUFFICES ASSUME i # j  PROVE FALSE
      OBVIOUS
    <2>1. q[i] < q[j] \/ q[j] < q[i]
      <3>1. i < j \/ j < i
        OBVIOUS
      <3>2. \A a, b \in 1 .. c : a < b => q[a] < q[b]
        BY <1>3, <1>5 DEF Alloc!Increasing
      <3> QED  BY <3>1, <3>2
    <2> DEFINE a == q[i]
    <2>2. a \in Nat
      <3>1. a \in available
        BY <1>4
      <3>2. \A x \in available : x \in Nat
        OBVIOUS
      <3> HIDE DEF a
      <3> QED  BY <3>1, <3>2
    <2>3. a < a
      BY <1>7, <2>1
    <2> HIDE DEF a
    <2> QED  BY <2>2, <2>3
  <1> QED  BY <1>4, <1>5, <1>6, <1>7 DEF q

\* What division leaves.
LEMMA Remainder ==
  ASSUME NEW a \in Nat, NEW d \in Nat \ {0}
  PROVE  (a % d) \in 0 .. d - 1 /\ (a \div d) \in Nat /\ a = d * (a \div d) + (a % d)
  OBVIOUS

\* A product is below its factor only at zero.
LEMMA SmallMultiple ==
  ASSUME NEW d \in Nat \ {0}, NEW k \in Int, NEW x \in 0 .. d - 1, NEW y \in 0 .. d - 1, d * k = x - y
  PROVE  k = 0 /\ x = y
  <1>1. CASE k >= 1
    <2>1. d * k >= d
      BY <1>1
    <2> QED  BY <2>1
  <1>2. CASE k <= 0 - 1
    <2>1. d * k <= 0 - d
      BY <1>2
    <2> QED  BY <2>1
  <1> QED  BY <1>1, <1>2

\* Two numbers that are as far apart as two others leave the same when those do.
LEMMA SameTurn ==
  ASSUME NEW d \in Nat \ {0}, NEW e \in Nat, NEW f \in Nat, NEW i \in Nat, NEW j \in Nat, e - f = i - j
  PROVE  ((e % d) = (f % d)) <=> ((i % d) = (j % d))
  <1> DEFINE A == e \div d
             B == f \div d
             C == i \div d
             D == j \div d
             u == e % d
             v == f % d
             w == i % d
             z == j % d
  <1>1. A \in Nat /\ u \in 0 .. d - 1 /\ e = d * A + u
    BY Remainder
  <1>2. B \in Nat /\ v \in 0 .. d - 1 /\ f = d * B + v
    BY Remainder
  <1>3. C \in Nat /\ w \in 0 .. d - 1 /\ i = d * C + w
    BY Remainder
  <1>4. D \in Nat /\ z \in 0 .. d - 1 /\ j = d * D + z
    BY Remainder
  <1> HIDE DEF A, B, C, D, u, v, w, z
  <1> DEFINE k == (A - B) - (C - D)
  <1>6. k \in Int /\ d * k = (w - z) - (u - v)
    BY <1>1, <1>2, <1>3, <1>4
  <1> HIDE DEF k
  <1>7. ASSUME u = v  PROVE w = z
    <2>1. d * k = w - z
      BY <1>1, <1>2, <1>3, <1>4, <1>6, <1>7
    <2> QED  BY <1>3, <1>4, <1>6, <2>1, SmallMultiple
  <1>8. ASSUME w = z  PROVE u = v
    <2>1. d * k = v - u
      BY <1>1, <1>2, <1>3, <1>4, <1>6, <1>8
    <2> QED  BY <1>1, <1>2, <1>6, <2>1, SmallMultiple
  <1>9. u = v <=> w = z
    BY <1>7, <1>8
  <1> QED  BY <1>9 DEF u, v, w, z

\* An index that starts again at zero.
LEMMA IndexStep ==
  ASSUME NEW M \in Nat \ {0}, NEW x \in 0 .. M - 1
  PROVE  (x + 1) % M = IF x + 1 = M THEN 0 ELSE x + 1
  OBVIOUS

\* Where round robin stood in the list when it made its i-th pick.
PlaceOf(i) == ((last_index - Len(picks)) + (i - 1)) % Len(Alloc!Offered)

\* The inductive invariant: each pick is the one that the policy's place in the list names,
\* the picks of round robin counted back from the index as long as it did not start again.
AllocInd ==
  /\ policy \in {"fcfs", "round_robin", "random"} /\ available \in SUBSET (1 .. Candidates)
  /\ last_index \in 0 .. 2 ^ IndexWidth - 1
  /\ picks \in Seq(available)
  /\ policy = "fcfs" => \A i \in 1 .. Len(picks) : picks[i] = Alloc!Offered[1]
  /\ policy = "round_robin" /\ ~ Alloc!Wrapped =>
       \A i \in 1 .. Len(picks) : picks[i] = Alloc!Offered[PlaceOf(i) + 1]

\* No pick yet, and the index at zero.
LEMMA AllocStarts ==
  ASSUME SchedulingInit
  PROVE  AllocInd
  <1>1. Alloc!Init
    BY DEF SchedulingInit
  <1>2. last_index \in 0 .. 2 ^ IndexWidth - 1
    <2> DEFINE M == 2 ^ IndexWidth
    <2>1. M \in Nat \ {0} /\ last_index = 0
      BY <1>1, SchedulingAssumption DEF SchedulingAssumption, Alloc!Init
    <2> HIDE DEF M
    <2>2. last_index \in 0 .. M - 1
      BY <2>1
    <2> QED  BY <2>2 DEF M
  <1> QED  BY <1>1, <1>2 DEF Alloc!Init, AllocInd

\* A pick is at its place, and the places of the earlier ones do not move: the index and the
\* number of picks grow together until the index starts again.
LEMMA SelectKeeps ==
  ASSUME AllocInd, Alloc!select
  PROVE  AllocInd'
  <1> DEFINE L == Len(Alloc!Offered)
             M == 2 ^ IndexWidth
             n == Len(picks)
             b == last_index - n
             q == Alloc!Offered
  <1>1. M \in Nat \ {0} /\ last_index \in 0 .. M - 1
    BY SchedulingAssumption DEF SchedulingAssumption, AllocInd
  <1>2. /\ L \in Nat \ {0} /\ q \in [1 .. L -> available]
    <2>1. Candidates \in Nat /\ available \in SUBSET (1 .. Candidates) /\ available # {}
      BY SchedulingAssumption DEF SchedulingAssumption, AllocInd, Alloc!select
    <2> QED  BY <2>1, OfferedIs
  <1>3. policy' = policy /\ available' = available
    BY DEF Alloc!select, Alloc!Fcfs, Alloc!RoundRobin, Alloc!Random, Alloc!Take
  <1>4. q' = q /\ L' = L
    BY <1>3 DEF Alloc!Offered, Alloc!Increasing
  <1>5. n \in Nat /\ picks \in Seq(available) /\ policy \in {"fcfs", "round_robin", "random"}
    BY DEF AllocInd
  <1>6. ASSUME NEW x \in available, picks' = Append(picks, x)
        PROVE  /\ picks' \in Seq(available) /\ n' = n + 1 /\ picks'[n + 1] = x
               /\ \A i \in 1 .. n : picks'[i] = picks[i]
    BY <1>5, <1>6
  <1>7. \A i \in 1 .. n + 1 : i = n + 1 \/ i \in 1 .. n
    BY <1>5
  <1>8. CASE policy = "fcfs"
    <2>1. last_index' = last_index /\ picks' = Append(picks, q[1])
      BY <1>2, <1>8 DEF Alloc!select, Alloc!Fcfs, Alloc!Take
    <2>2. q[1] \in available
      BY <1>2
    <2>3. \A i \in 1 .. n' : picks'[i] = q'[1]
      BY <1>4, <1>6, <1>7, <1>8, <2>1, <2>2 DEF AllocInd
    <2> QED  BY <1>1, <1>3, <1>6, <1>8, <2>1, <2>2, <2>3 DEF AllocInd
  <1>9. CASE policy = "random"
    <2>1. last_index' = last_index /\ \E x \in available : picks' = Append(picks, x)
      BY <1>9 DEF Alloc!select, Alloc!Random, Alloc!Take
    <2> QED  BY <1>1, <1>3, <1>6, <1>9, <2>1 DEF AllocInd
  <1>10. CASE policy = "round_robin"
    <2> DEFINE k == last_index % L
    <2>1. last_index' = (last_index + 1) % M /\ picks' = Append(picks, q[k + 1])
      BY <1>10 DEF Alloc!select, Alloc!RoundRobin, Alloc!Take
    <2>2. k \in 0 .. L - 1
      <3>1. last_index \in Nat /\ L \in Nat \ {0}
        <4> HIDE DEF M
        <4> QED  BY <1>1, <1>2
      <3> HIDE DEF L
      <3> QED  BY <3>1, Remainder
    <2>3. q[k + 1] \in available
      <3> HIDE DEF k, L, q
      <3> QED  BY <1>2, <2>2
    <2>4. last_index' = IF last_index + 1 = M THEN 0 ELSE last_index + 1
      BY <1>1, <2>1, IndexStep
    <2> HIDE DEF M
    <2>5. last_index' \in 0 .. M - 1
      BY <1>1, <2>4
    <2>6. picks' \in Seq(available) /\ n' = n + 1 /\ picks'[n + 1] = q[k + 1] /\ \A i \in 1 .. n : picks'[i] = picks[i]
      BY <1>6, <2>1, <2>3
    <2>7. ASSUME ~ Alloc!Wrapped', NEW i \in 1 .. n'  PROVE picks'[i] = q'[PlaceOf(i)' + 1]
      <3>1. last_index' >= n'
        BY <1>1, <1>5, <2>5, <2>6, <2>7 DEF Alloc!Wrapped
      <3>2. last_index' = last_index + 1 /\ last_index >= n
        BY <1>1, <1>5, <2>4, <2>6, <3>1
      <3>3. ~ Alloc!Wrapped /\ b' = b /\ b + n = last_index
        BY <1>1, <1>5, <2>6, <3>2 DEF Alloc!Wrapped
      <3>4. PlaceOf(i)' = (b + (i - 1)) % L
        BY <1>4, <3>3 DEF PlaceOf
      <3>5. CASE i = n + 1
        <4>1. b + (i - 1) = last_index
          BY <1>1, <1>5, <3>3, <3>5
        <4> QED  BY <1>4, <2>6, <3>4, <3>5, <4>1
      <3>6. CASE i \in 1 .. n
        <4>1. picks[i] = q[PlaceOf(i) + 1]
          BY <1>10, <3>3, <3>6 DEF AllocInd
        <4>2. PlaceOf(i) = (b + (i - 1)) % L
          BY DEF PlaceOf
        <4> QED  BY <1>4, <2>6, <3>4, <3>6, <4>1, <4>2
      <3> QED  BY <1>7, <2>6, <2>7, <3>5, <3>6
    <2> QED  BY <1>3, <1>10, <2>5, <2>6, <2>7 DEF AllocInd, M
  <1> QED  BY <1>5, <1>8, <1>9, <1>10

\* The other steps change nothing here, or forget the picks.
LEMMA AllocStays ==
  ASSUME AllocInd, [SchedulingNext]_all
  PROVE  AllocInd'
  <1>1. CASE UNCHANGED allocation
    <2>1. policy' = policy /\ available' = available /\ last_index' = last_index /\ picks' = picks
      BY <1>1 DEF allocation
    <2>2. Alloc!Offered' = Alloc!Offered
      BY <2>1 DEF Alloc!Offered, Alloc!Increasing
    <2> QED  BY <2>1, <2>2 DEF AllocInd, Alloc!Wrapped, PlaceOf
  <1>2. CASE Alloc!Change
    BY <1>2 DEF Alloc!Change, AllocInd
  <1>3. CASE Alloc!select
    BY <1>3, SelectKeeps
  <1> QED  BY <1>1, <1>2, <1>3 DEF SchedulingNext, all, allocation, Alloc!Next

\* Two picks at places that leave the same remainder are one candidate, and only those: the
\* list names no candidate twice.
LEMMA AllocHolds ==
  ASSUME AllocInd
  PROVE  TurnsKept
  <1> DEFINE L == Len(Alloc!Offered)
             n == Len(picks)
             b == last_index - n
             q == Alloc!Offered
  <1>1. n \in Nat /\ picks \in Seq(available) /\ DOMAIN picks = 1 .. n /\ last_index \in Nat
    <2>1. last_index \in Nat
      <3> DEFINE M == 2 ^ IndexWidth
      <3>1. M \in Nat /\ last_index \in 0 .. M - 1
        BY SchedulingAssumption DEF SchedulingAssumption, AllocInd
      <3> HIDE DEF M
      <3> QED  BY <3>1
    <2> QED  BY <2>1 DEF AllocInd
  <1>2. \A i \in 1 .. n : picks[i] \in available
    BY <1>1
  <1>3. policy = "fcfs" => \A i, j \in 1 .. n : picks[i] = picks[j]
    BY DEF AllocInd
  <1>4. ASSUME policy = "round_robin", ~ Alloc!Wrapped, NEW i \in 1 .. n, NEW j \in 1 .. n
        PROVE  picks[i] = picks[j] <=> i % L = j % L
    <2>1. available # {}
      BY <1>2
    <2>2. L \in Nat \ {0} /\ \A x, y \in 1 .. L : q[x] = q[y] => x = y
      <3>1. Candidates \in Nat /\ available \in SUBSET (1 .. Candidates)
        BY SchedulingAssumption DEF SchedulingAssumption, AllocInd
      <3> QED  BY <2>1, <3>1, OfferedIs
    <2>3. b \in Nat
      BY <1>1, <1>4 DEF Alloc!Wrapped
    <2> DEFINE x == i - 1
               y == j - 1
               u == (b + x) % L
               v == (b + y) % L
    <2>4. picks[i] = q[u + 1] /\ picks[j] = q[v + 1]
      BY <1>4 DEF AllocInd, PlaceOf
    <2>5. x \in Nat /\ y \in Nat /\ b + x \in Nat /\ b + y \in Nat
      BY <1>1, <2>3
    <2>6. u \in 0 .. L - 1 /\ v \in 0 .. L - 1
      BY <2>2, <2>5, Remainder
    <2>7. u = v <=> i % L = j % L
      <3> DEFINE e == b + x
                 f == b + y
      <3>1. e \in Nat /\ f \in Nat /\ i \in Nat /\ j \in Nat /\ e - f = i - j
        BY <1>1, <2>3
      <3> HIDE DEF e, f, L
      <3>2. e % L = f % L <=> i % L = j % L
        <4>1. L \in Nat \ {0}
          BY <2>2
        <4> HIDE DEF n, b, q, x, y, u, v
        <4>2. \A e1, f1, i1, j1 \in Nat : (e1 - f1 = i1 - j1) => (((e1 % L) = (f1 % L)) <=> ((i1 % L) = (j1 % L)))
          BY <4>1, SameTurn
        <4>3. ((e % L) = (f % L)) <=> ((i % L) = (j % L))
          BY <3>1, <4>2
        <4> QED  BY <4>3
      <3> QED  BY <3>2 DEF e, f
    <2>8. picks[i] = picks[j] <=> u = v
      <3> HIDE DEF u, v, q, L
      <3>1. u + 1 \in 1 .. L /\ v + 1 \in 1 .. L
        BY <2>2, <2>6
      <3>2. q[u + 1] = q[v + 1] => u + 1 = v + 1
        BY <2>2, <3>1
      <3> QED  BY <2>2, <2>4, <2>6, <3>2
    <2> QED  BY <2>7, <2>8
  <1> QED  BY <1>1, <1>2, <1>3, <1>4 DEF TurnsKept, Alloc!TurnsKept

\* An instance that does not accept work is never chosen, first come first served stays
\* with one, and round robin visits all that are available before it returns to one, for
\* every number of candidates and every width of the index, until wrapping_add takes the
\* index back to zero (allocation.rs, select of the three policies).
THEOREM TurnsStayKept == SchedulingSpec => []TurnsKept
  <1>1. SchedulingInit => AllocInd
    BY AllocStarts
  <1>2. AllocInd /\ [SchedulingNext]_all => AllocInd'
    BY AllocStays
  <1>3. AllocInd => TurnsKept
    BY AllocHolds
  <1> QED  BY <1>1, <1>2, <1>3, PTL DEF SchedulingSpec

=============================================================================
