--------------------------- MODULE InstanceRegistry ---------------------------
(***************************************************************************)
(* The `instances` table and the operations that keep it: list_instances   *)
(* (refresh_instances), start_instance, attach_instance and stop_instance, *)
(* run by several processes on one store while browsers come and go.       *)
(*                                                                         *)
(* Nothing locks the table: an operation lists or reads rows, probes the   *)
(* browsers, and writes WHOLE rows back, one statement each.  Writer leases*)
(* are what LeaseCoordination is shown to implement: one writer per        *)
(* instance, which ends by itself or by its holder.  Browsers are external:*)
(* the number of a start stands for the process and for the websocket URL  *)
(* it reports, which is fresh; its pid may be any that no running process  *)
(* has, that of a process that has exited among them.                      *)
(* The tabs and attach_continuity tables, which these operations write and *)
(* never read, are left out; failing to list the tabs is not.              *)
(***************************************************************************)
EXTENDS Naturals, Sequences

CONSTANTS
  Processes,      \* processes sharing the store
  Urls,           \* debug HTTP URLs, as spelled
  EndpointOf(_),  \* the host and port a URL reaches: spellings may share one
  LocalUrl(_),    \* the spelling the code derives from an endpoint (127.0.0.1)
  Names,          \* instance names, up to the normalisation of StableId
  Holders,        \* holders on whose behalf the processes work
  Strangers,      \* holders that only take leases
  Pids,           \* process ids of the system
  PidsFor(_),     \* those the n-th process started may get
  MaxStarts,      \* bound: browsers and other processes ever started
  MaxRequests,    \* bound: start, attach and stop requests, and abandoned operations
  Nobody,         \* no writer
  Idle            \* a process that serves no request

ASSUME UrlsAssumption ==
  \A u \in Urls : LocalUrl(EndpointOf(u)) \in Urls
                  /\ EndpointOf(LocalUrl(EndpointOf(u))) = EndpointOf(u)
ASSUME BoundsAssumption == MaxStarts \in Nat /\ MaxRequests \in Nat
ASSUME PidsAssumption ==
  0 \notin Pids /\ \A n \in 1 .. MaxStarts : PidsFor(n) \subseteq Pids
ASSUME NobodyAssumption ==
  Nobody \notin Holders /\ Nobody \notin Strangers

VARIABLES
  listening,   \* endpoint -> number of the browser that answers there, 0 if none
  alive,       \* numbers of the processes that run
  launchedFor, \* number -> id of the instance it was launched for, External
  pidOf,       \* number -> pid it runs or ran under
  instances,   \* rows of the instances table
  writer,      \* instance id -> holder of the writer lease, or Nobody
  op,          \* per process: the operation it runs
  requests     \* start, attach and stop requests made and operations abandoned so far

world == <<listening, alive, launchedFor, pidOf>>
vars == <<listening, alive, launchedFor, pidOf, instances, writer, op, requests>>

Endpoints == {EndpointOf(u) : u \in Urls}
Started == 1 .. MaxStarts

\* StableId of "{name}_{channel}_{port}" and of "{name}_attached".
ManagedId(name, e) == <<"managed", name, e>>
AttachedId(name) == <<"attached", name>>

Ids == {ManagedId(n, e) : n \in Names, e \in Endpoints} \cup {AttachedId(n) : n \in Names}
External == <<"external">>

BrowserInstance ==
  [id : Ids, name : Names, mode : {"managed", "attached"},
   status : {"running", "attached", "closed"}, url : Urls,
   ws : 0 .. MaxStarts, pid : Pids \cup {0}]

(***************************************************************************)
(* An operation is the sequence of steps still to take, one label per      *)
(* statement, probe or signal, and what it has read so far:                *)
(*   snapshot  rows listed by refresh_instances and not yet probed         *)
(*   probed    the row probed last, not yet written                        *)
(*   row       the row being built, or read by require_instance            *)
(*   evidence  the websocket URL an attach request names, 0 if none or used*)
(*   attach    whether an attach found a seed ("seeded") or not ("new")   *)
(***************************************************************************)
Labels == {"version", "seed", "access", "list", "refresh", "acquire", "targets", "upsert",
           "launch", "get", "terminate", "still_up",
           "release"}

Refresh == <<"list", "refresh">>
LeaseAcquire == Refresh \o <<"acquire">>
SyncTabs == Refresh \o <<"get", "targets">>

AttachSteps == <<"version", "seed", "access", "targets", "upsert">> \o LeaseAcquire
StartSteps == <<"launch", "upsert">> \o LeaseAcquire \o SyncTabs
StopSteps == Refresh \o <<"get", "access", "terminate", "still_up", "upsert">>
             \o Refresh \o <<"release">>

\* An operation that has read nothing yet.
Operation(steps, id, h, row, evidence) ==
  [steps |-> steps, id |-> id, holder |-> h, row |-> row, evidence |-> evidence,
   snapshot |-> {}, probed |-> {}, attach |-> "no"]

Operations ==
  [steps : Seq(Labels) \ {<<>>}, id : Ids \cup {<<>>}, holder : Holders \cup {Nobody},
   row : SUBSET BrowserInstance, evidence : 0 .. MaxStarts,
   snapshot : SUBSET BrowserInstance, probed : SUBSET BrowserInstance,
   attach : {"no", "new", "seeded"}]

ASSUME IdleAssumption == Idle \notin Operations

\* The rows that start_instance and attach_instance build, before the browser is known.
ManagedRow(name, e) ==
  [id |-> ManagedId(name, e), name |-> name, mode |-> "managed", status |-> "running",
   url |-> LocalUrl(e), ws |-> 0, pid |-> 0]
AttachedRow(name, u) ==
  [id |-> AttachedId(name), name |-> name, mode |-> "attached", status |-> "attached",
   url |-> u, ws |-> 0, pid |-> 0]

Init ==
  /\ listening = [e \in Endpoints |-> 0]
  /\ alive = {}
  /\ launchedFor = <<>>
  /\ pidOf = <<>>
  /\ instances = {}
  /\ writer = [i \in Ids |-> Nobody]
  /\ op = [p \in Processes |-> Idle]
  /\ requests = 0

-----------------------------------------------------------------------------
(* Rows.                                                                   *)

upsert_instance(rows, r) == {x \in rows : x.id # r.id} \cup {r}

\* What refresh_instances makes of a row it has probed.
\* Mutant: a closed row is taken for final and not probed again.
ClosedIsFinal(r) ==
  IF r.status = "closed" \/ listening[EndpointOf(r.url)] = 0
  THEN [r EXCEPT !.status = "closed"]
  ELSE [r EXCEPT !.status = IF r.mode = "attached" THEN "attached" ELSE "running",
                 !.ws = listening[EndpointOf(r.url)]]

Refreshed(r) ==
  IF listening[EndpointOf(r.url)] = 0
  THEN [r EXCEPT !.status = "closed"]
  ELSE [r EXCEPT !.status = IF r.mode = "attached" THEN "attached" ELSE "running",
                 !.ws = listening[EndpointOf(r.url)]]

\* find_attached_instance_seed: rows that match by debug URL, else by websocket
\* URL.  The first listed is taken; updated_at orders the list, any row may be first.
\* Mutant: managed rows are seeds too.
SeedsOfAnyMode(rows, url, evidence) ==
  LET byUrl == {r \in rows : r.url = url}
  IN  IF byUrl # {} THEN byUrl ELSE {r \in rows : r.ws = evidence}

Seeds(rows, url, evidence) ==
  LET attached == {r \in rows : r.mode = "attached"}
      byUrl == {r \in attached : r.url = url}
  IN  IF byUrl # {} THEN byUrl ELSE {r \in attached : r.ws = evidence}

-----------------------------------------------------------------------------
(* Bookkeeping of an operation.                                            *)

At(p, label) == op[p] # Idle /\ Head(op[p].steps) = label

Begin(p, o) == op[p] = Idle /\ op' = [op EXCEPT ![p] = o]

\* A counted request, which changes nothing stored by itself.
Ask(p, o) ==
  /\ Begin(p, o)
  /\ requests < MaxRequests
  /\ requests' = requests + 1
  /\ UNCHANGED <<world, instances, writer>>

\* The next step, with what this one has read; an operation without one is answered.
Continue(p, o) ==
  op' = [op EXCEPT ![p] = IF Tail(o.steps) = <<>> THEN Idle
                          ELSE [o EXCEPT !.steps = Tail(o.steps)]]
Answer(p) == op' = [op EXCEPT ![p] = Idle]

-----------------------------------------------------------------------------
(* Requests.  reserve_debug_port hands out a port that is free at that     *)
(* moment and closes its listener: nothing reserves it until the launch.   *)

ListInstances(p) ==
  /\ Begin(p, Operation(Refresh, <<>>, Nobody, {}, 0))
  /\ UNCHANGED <<world, instances, writer, requests>>

StartInstance(p, name, e, h) ==
  /\ listening[e] = 0
  /\ Ask(p, Operation(StartSteps, ManagedId(name, e), h, {ManagedRow(name, e)}, 0))

\* cdp_url is a debug HTTP URL, or a websocket URL that a row holds.
AttachInstance(p, name, u, ws, h) ==
  LET url == IF ws = 0 THEN u ELSE LocalUrl(EndpointOf(u))
  IN  Ask(p, Operation(AttachSteps, AttachedId(name), h, {AttachedRow(name, url)}, ws))

StopInstance(p, id, h) == Ask(p, Operation(StopSteps, id, h, {}, 0))

-----------------------------------------------------------------------------
(* refresh_instances: list, then probe and write back every listed row.    *)

ListStep(p) ==
  /\ At(p, "list")
  /\ Continue(p, [op[p] EXCEPT !.snapshot = instances])
  /\ UNCHANGED <<world, instances, writer, requests>>

ProbeStep(p, r) ==
  /\ At(p, "refresh")
  /\ op[p].probed = {}
  /\ r \in op[p].snapshot
  /\ LET o == [op[p] EXCEPT !.snapshot = op[p].snapshot \ {r}, !.probed = {Refreshed(r)}]
     IN  op' = [op EXCEPT ![p] = o]
  /\ UNCHANGED <<world, instances, writer, requests>>

WriteBackStep(p, r) ==
  /\ At(p, "refresh")
  /\ r \in op[p].probed
  /\ instances' = upsert_instance(instances, r)
  /\ op' = [op EXCEPT ![p] = [@ EXCEPT !.probed = {}]]
  /\ UNCHANGED <<world, writer, requests>>

RefreshedStep(p) ==
  /\ At(p, "refresh")
  /\ op[p].snapshot = {} /\ op[p].probed = {}
  /\ Continue(p, op[p])
  /\ UNCHANGED <<world, instances, writer, requests>>

\* require_instance: the row as it is after the refresh.
GetStep(p) ==
  /\ At(p, "get")
  /\ LET found == {r \in instances : r.id = op[p].id}
     IN  IF found = {} THEN Answer(p) ELSE Continue(p, [op[p] EXCEPT !.row = found])
  /\ UNCHANGED <<world, instances, writer, requests>>

-----------------------------------------------------------------------------
(* Leases, as ExclusiveWriter promises them.                               *)

\* require_instance_access for a writer: covered, acquired implicitly, refused.
\* attach_instance does not ask when it found no seed.
AccessStep(p) ==
  /\ At(p, "access")
  /\ LET o == op[p]
     IN  \/ (o.attach = "new" \/ writer[o.id] = o.holder) /\ Continue(p, o)
         \/ /\ o.attach # "new" /\ writer[o.id] = Nobody
            /\ op' = [op EXCEPT ![p] = [o EXCEPT !.steps = LeaseAcquire \o Tail(@)]]
         \/ /\ o.attach # "new" /\ writer[o.id] \notin {o.holder, Nobody}
            /\ Answer(p)
  /\ UNCHANGED <<world, instances, writer, requests>>

AcquireStep(p) ==
  /\ At(p, "acquire")
  /\ LET o == op[p]
     IN  \/ /\ writer[o.id] \in {o.holder, Nobody}
            /\ writer' = [writer EXCEPT ![o.id] = o.holder]
            /\ Continue(p, o)
         \/ /\ writer[o.id] \notin {o.holder, Nobody}
            /\ Answer(p)
            /\ UNCHANGED writer
  /\ UNCHANGED <<world, instances, requests>>

ReleaseStep(p) ==
  /\ At(p, "release")
  /\ writer' = [writer EXCEPT ![op[p].id] = IF @ = op[p].holder THEN Nobody ELSE @]
  /\ Continue(p, op[p])
  /\ UNCHANGED <<world, instances, requests>>

-----------------------------------------------------------------------------
(* Steps of more than one operation.                                       *)

UpsertStep(p, r) ==
  /\ At(p, "upsert")
  /\ r \in op[p].row
  /\ instances' = upsert_instance(instances, r)
  /\ Continue(p, op[p])
  /\ UNCHANGED <<world, writer, requests>>

\* live_tabs_for_instance on the row's debug URL.
TargetsStep(p, r) ==
  /\ At(p, "targets")
  /\ r \in op[p].row
  /\ IF listening[EndpointOf(r.url)] = 0 THEN Answer(p)
     ELSE Continue(p, op[p])
  /\ UNCHANGED <<world, instances, writer, requests>>

-----------------------------------------------------------------------------
(* attach_instance.                                                        *)

VersionStep(p, r) ==
  /\ At(p, "version")
  /\ r \in op[p].row
  /\ LET n == listening[EndpointOf(r.url)]
     IN  IF n = 0 THEN Answer(p) ELSE Continue(p, [op[p] EXCEPT !.row = {[r EXCEPT !.ws = n]}])
  /\ UNCHANGED <<world, instances, writer, requests>>

\* With a seed its id and name are kept.
SeedStep(p, r) ==
  /\ At(p, "seed")
  /\ r \in op[p].row
  /\ LET o == [op[p] EXCEPT !.evidence = 0]
         seeds == Seeds(instances, r.url, op[p].evidence)
     IN  \/ \E s \in seeds :
              Continue(p, [o EXCEPT !.id = s.id, !.attach = "seeded",
                                    !.row = {[AttachedRow(s.name, r.url) EXCEPT !.ws = r.ws]}])
         \/ /\ seeds = {}
            /\ Continue(p, [o EXCEPT !.attach = "new"])
  /\ UNCHANGED <<world, instances, writer, requests>>

-----------------------------------------------------------------------------
(* Processes of the system.                                                *)

NextBrowser == Len(launchedFor) + 1

\* The pids a new process can get: only running processes keep theirs.
FreePids == {pid \in PidsFor(NextBrowser) : \A n \in alive : pidOf[n] # pid}

ProcessStarts(instance, pid) ==
  /\ NextBrowser \in Started
  /\ alive' = alive \cup {NextBrowser}
  /\ launchedFor' = Append(launchedFor, instance)
  /\ pidOf' = Append(pidOf, pid)

-----------------------------------------------------------------------------
(* start_instance and stop_instance.                                       *)

\* Numbers of the processes launched for an instance under a pid.
LaunchedAs(id, pid) == {n \in DOMAIN launchedFor : launchedFor[n] = id /\ pidOf[n] = pid}

\* A row with the child's pid and the websocket URL that the endpoint answered.
\* Mutant: the pid is taken to be that of the browser that answered.
PidOfAnswering(r, pid, answering) ==
  [r EXCEPT !.pid = IF answering \in alive THEN pidOf[answering] ELSE pid, !.ws = answering]
Launched(r, pid, answering) == [r EXCEPT !.pid = pid, !.ws = answering]

\* launch_managed_browser: the child is spawned; it answers at the port unless
\* another process took the port meanwhile, and then that one's answer is taken.
\* When no answer comes in time the start fails and the child goes on running.
LaunchStep(p, r) ==
  /\ At(p, "launch")
  /\ r \in op[p].row
  /\ LET e == EndpointOf(r.url)
         answering == IF listening[e] = 0 THEN NextBrowser ELSE listening[e]
     IN  \E pid \in FreePids :
           LET row == Launched(ManagedRow(r.name, e), pid, answering)
           IN  /\ ProcessStarts(row.id, pid)
               /\ \/ /\ listening' = [listening EXCEPT ![e] = answering]
                     /\ Continue(p, [op[p] EXCEPT !.id = row.id, !.row = {row}])
                  \/ /\ listening[e] = 0
                     /\ UNCHANGED listening
                     /\ Answer(p)
  /\ UNCHANGED <<instances, writer, requests>>

\* kill -TERM on the pid in the row, whatever the row's status and whoever has the
\* pid now.  An exited browser nobody has waited for still takes the signal.  The
\* stop fails for attached rows, rows without a pid, and when no process that this
\* user may signal has it.  The signal is only a wish: a process leaves by Exit.
TerminateStep(p, r) ==
  /\ At(p, "terminate")
  /\ r \in op[p].row
  /\ \/ r.mode = "managed" /\ r.pid # 0 /\ Continue(p, op[p])
     \/ /\ \/ r.mode = "attached" \/ r.pid = 0
           \/ \A n \in alive : pidOf[n] = r.pid => launchedFor[n] = External
        /\ Answer(p)
  /\ UNCHANGED <<world, instances, writer, requests>>

\* The stop fails if the endpoint still answers.
StillUpStep(p, r) ==
  /\ At(p, "still_up")
  /\ r \in op[p].row
  /\ IF listening[EndpointOf(r.url)] # 0 THEN Answer(p)
     ELSE Continue(p, [op[p] EXCEPT !.row = {[r EXCEPT !.status = "closed"]}])
  /\ UNCHANGED <<world, instances, writer, requests>>

-----------------------------------------------------------------------------
(* The environment.                                                        *)

\* Somebody else starts a browser.
ExternalBrowser(e) ==
  /\ listening[e] = 0
  /\ listening' = [listening EXCEPT ![e] = NextBrowser]
  /\ \E pid \in FreePids : ProcessStarts(External, pid)
  /\ UNCHANGED <<instances, writer, op, requests>>

\* A process that is no browser starts.
OtherProcess ==
  /\ \E pid \in FreePids : ProcessStarts(External, pid)
  /\ UNCHANGED <<listening, instances, writer, op, requests>>

Exit(n) ==
  /\ n \in alive
  /\ alive' = alive \ {n}
  /\ listening' = [e \in Endpoints |-> IF listening[e] = n THEN 0 ELSE listening[e]]
  /\ UNCHANGED <<launchedFor, pidOf, instances, writer, op, requests>>

\* A lease runs out or its holder gives it up; a stranger acquires a free one.
LeaseMoves(r, h) ==
  /\ r \in instances
  /\ writer[r.id] = Nobody \/ h = Nobody
  /\ writer[r.id] # h
  /\ writer' = [writer EXCEPT ![r.id] = h]
  /\ UNCHANGED <<world, instances, op, requests>>

\* The process dies, or a statement fails: what is written stays.
Abandon(p) ==
  /\ op[p] # Idle
  /\ Answer(p)
  /\ requests < MaxRequests
  /\ requests' = requests + 1
  /\ UNCHANGED <<world, instances, writer>>

-----------------------------------------------------------------------------
\* Websocket URLs a caller can have seen for an endpoint: they name it too.
KnownWs(u) == {r.ws : r \in {x \in instances : EndpointOf(x.url) = EndpointOf(u)}}

Request(p) ==
  \/ ListInstances(p)
  \/ \E n \in Names, e \in Endpoints, h \in Holders : StartInstance(p, n, e, h)
  \/ \E n \in Names, u \in Urls, h \in Holders : \E k \in {0} \cup KnownWs(u) :
       AttachInstance(p, n, u, k, h)
  \/ \E r \in instances, h \in Holders : StopInstance(p, r.id, h)

Step(p) ==
  \/ ListStep(p) \/ RefreshedStep(p)
  \/ op[p] # Idle /\ \E r \in op[p].snapshot : ProbeStep(p, r)
  \/ op[p] # Idle /\ \E r \in op[p].probed : WriteBackStep(p, r)
  \/ op[p] # Idle /\ \E r \in op[p].row :
       \/ VersionStep(p, r) \/ SeedStep(p, r) \/ LaunchStep(p, r)
       \/ TargetsStep(p, r) \/ TerminateStep(p, r) \/ StillUpStep(p, r)
       \/ UpsertStep(p, r)
  \/ GetStep(p) \/ AccessStep(p) \/ AcquireStep(p) \/ ReleaseStep(p)

Next ==
  \/ \E p \in Processes : Request(p) \/ Step(p) \/ Abandon(p)
  \/ \E e \in Endpoints : ExternalBrowser(e)
  \/ OtherProcess
  \/ \E n \in alive : Exit(n)
  \/ \E r \in instances, h \in ({Nobody} \cup Strangers) : LeaseMoves(r, h)

Spec == Init /\ [][Next]_vars

-----------------------------------------------------------------------------
(* Properties.                                                             *)

\* Every row an operation has read or is about to write.
RowsInHand(p) == IF op[p] = Idle THEN {} ELSE op[p].snapshot \cup op[p].probed \cup op[p].row

\* A row and its id belong together: a managed row sits at the port its id embeds
\* and its pid is one under which start_instance launched a browser for it;
\* an attached row has no pid for stop_instance to signal.
Coherent(r) ==
  /\ r \in BrowserInstance
  /\ \/ /\ r.mode = "managed"
        /\ r.id = ManagedId(r.name, EndpointOf(r.url))
        /\ r.pid # 0 => LaunchedAs(r.id, r.pid) # {}
     \/ /\ r.mode = "attached"
        /\ r.id = AttachedId(r.name)
        /\ r.pid = 0

\* Type correctness of the stored state and of the world.
TypeOK ==
  /\ listening \in [Endpoints -> 0 .. MaxStarts]
  /\ alive \subseteq DOMAIN launchedFor
  /\ launchedFor \in Seq(Ids \cup {External})
  /\ Len(launchedFor) <= MaxStarts
  /\ pidOf \in Seq(Pids) /\ Len(pidOf) = Len(launchedFor)
  /\ writer \in [Ids -> Holders \cup ({Nobody} \cup Strangers)]
  /\ op \in [Processes -> Operations \cup {Idle}]
  /\ requests \in Nat

\* However stale the rows that refresh_instances, attach_instance and stop_instance
\* write back over each other's writes, no row ever comes apart from its id, there
\* is one row per id, and an operation holds rows of its own instance only.
RowsCoherent ==
  /\ \A r \in instances : Coherent(r)
  /\ \A r, s \in instances : r.id = s.id => r = s
  /\ \A p \in Processes : \A r \in RowsInHand(p) : Coherent(r)
  /\ \A p \in Processes : op[p] # Idle => \A r \in op[p].row : r.id = op[p].id

\* A pid is given out again only after its process has exited: of the processes that
\* ever had it, at most the latest runs.
PidsReusedLate ==
  \A i, j \in DOMAIN launchedFor : i < j /\ pidOf[i] = pidOf[j] => i \notin alive

\* Inductive: types, coherence and the pids together.
RegistryInv == TypeOK /\ RowsCoherent /\ PidsReusedLate

\* p has sent its signal: the stop goes on to look whether the endpoint still answers.
Signals(p) == At(p, "terminate") /\ op'[p] # Idle /\ Head(op'[p].steps) = "still_up"

\* stop_instance sends its signal to a pid under which a browser was launched for the
\* very instance it was asked to stop, whatever happened to the row since it was
\* read.  While that browser runs nobody else gets the signal; another process does
\* only when it was started under the pid after that browser had exited.
SignalsOwnPid ==
  [][\A p \in Processes : Signals(p) =>
       \E r \in op[p].row : \E n \in LaunchedAs(op[p].id, r.pid) :
         \A k \in alive : pidOf[k] = r.pid => k = n \/ (k > n /\ n \notin alive)]_vars

\* A row tells the truth about its endpoint.
Accurate(r) ==
  IF listening[EndpointOf(r.url)] = 0 THEN r.status = "closed"
  ELSE r.status # "closed" /\ r.ws = listening[EndpointOf(r.url)]

\* Refreshes go on: a process with nothing to do lists the instances sooner or
\* later, and an operation that has begun takes its next step.
Fairness == \A p \in Processes : WF_vars(Step(p)) /\ WF_vars(ListInstances(p))
FairSpec == Spec /\ Fairness

\* Once browsers stop coming and going and no more requests or deaths of processes
\* interfere (the bounds run out), every row becomes accurate and stays so: stale
\* write-backs of refresh_instances over each other, over an attach or over a stop
\* cannot keep a wrong status alive.
StatusConverges == <>[](\A r \in instances : Accurate(r))

===============================================================================
