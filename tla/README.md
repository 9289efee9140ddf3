# pengu-mesh, modelled in TLA+

pengu-mesh is a browser runtime for agents: it launches or attaches Chrome over
CDP, coordinates agents with leases, and records what they do (event timeline,
artifacts, replay bundles, scenario evidence). This directory holds TLA+ models
of its stateful parts, the TLC configurations that check them and proofs that
TLAPS checks. Line numbers refer to the repository; `core`, `state`, `cdp`,
`artifacts` and `macos` stand for the `src/lib.rs` of `crates/pengu-mesh-core`,
`-state`, `-cdp`, `-artifacts` and `-macos`.

## 1. Inventory

### How the program runs

* `pengu-mesh serve` is a daemon with a single-threaded accept loop
  (`crates/pengu-mesh/src/main.rs:425`, `1173`), the MCP server reads one line at
  a time (`crates/pengu-mesh-mcp/src/main.rs:45`), every CLI command is a process
  (`main.rs:1107`). Inside a process nothing runs concurrently.
* All of them may share one runtime root: a SQLite database in WAL mode and
  directories. `StateStore` opens a connection for each operation (state 126), so
  the unit of atomicity between processes is one SQL statement, or one
  transaction where the code opens one (acquire, transfer, replace tabs, create
  step). Everything between two statements is open to other processes, to the
  browser and to crashes. That is where the hard behaviour of this program is,
  and what the models are made of.

### Components

| Component | State | Operations | Hard because | Correct when | Modules |
|---|---|---|---|---|---|
| leases | `leases` table | acquire, release, transfer, status, `require_instance_access` | check and write in different statements, stale `now`, timestamps compared as text, colliding ids | one writer per instance; a running lease is taken from nobody | `Timestamps`, `LeaseTable`, `LeaseCoordination`, `ExclusiveWriter` |
| instance registry | `instances` table, browser processes, ports | list (refresh), start, attach, stop | whole rows written back from stale listings, ports lost between reservation and launch, browsers that come and go, pids given out again | a row stays with its id; only pids of own browsers are signalled; statuses converge | `InstanceRegistry` |
| tabs and CDP sessions | `tabs` table, the pages of the browsers | list, open, close, action, captures; clear at stop | a listing is stored after the browser or another process has moved on; addresses drift | a refresh is exact; one retry recovers a session; an opened tab is found | `TabSessions` |
| replay export | `events` and `artifacts` tables, `portable*` directories | export (staging, promote, restore), validate | renames, errors and crashes between them, concurrent exports | `portable` is whole; no bundle is lost | `ReplayBundle` |
| artifact store | `artifacts` table, files, pictures of the bridge | capture, crop, grid of crops, snapshot of the surface | a file, its row and its event are three writes; grids write many of each; regions are rounded twice | rows are of whole files, events of stored artifacts; a grid shows the whole picture | `ArtifactCapture`, `CropGrid` |
| scenario recorder | scenario runs, steps, assertions, latency samples, fingerprints | start/finish run, start/finish step, record | every check precedes its write by a statement | dense numbering, evidence with its run, finished means closed | `ScenarioRecorder` |
| capture runs, timeline, daemon continuity | `runs`, `events`, runtime identity; a copy of the run in every process | open runtime, record, start/stop recording, serve, die | the copy decides, not the row; recovery before the address is bound | a stopped timeline stays closed; a restarted daemon resumes | `CaptureRuns` |
| scenario gate | none: it reads the recorder's tables | summary, gate | runs, assertions and samples are read in separate statements, the runs twice, while recorders write; floating-point ranks | the verdict is the policy's; stored evidence is not passed over | `ScenarioGate` |
| control plane (HTTP, MCP, CLI) | connections, operators | routes, tools, commands, refusals and their recovery | three ways to come by arguments, tables kept apart from what they describe, refusals classified by their text | the surfaces agree; matrix, schemas, codes and advice are true; requests are answered | `Contracts`, `ControlPlane` |
| CDP transport | one socket, the page | evaluate, navigate, screenshot, PDF, recording, trace | events and late answers between request and answer, pages that load by themselves, refusals and closed sockets on every path | own answers only; the page is restored; results are true; it ends | `CdpTransport` |
| macOS host access and browser surfaces | the user's permissions, windows and focus | status, setup, list of actions, action | consent that cannot be read, controls that say yes and do nothing, fallbacks over four channels | reports agree with what was done; nothing takes over without a grant | `NativeSurfaces` |
| task queue | vector, counts, service order (in memory) | enqueue, dequeue, cancel | five-key comparison, `swap_remove`, ids used twice | exact accounts, documented order, no monopoly | `TaskQueue` |
| auto-restart tracker | attempts, last start | record_start, record_crash, should_restart, reset | depends on the sequence of calls and on time | restarts and delays are bounded; delays do not shrink | `RestartTracker` |
| allocation policies | round-robin index | pick | the index was advanced over another list, and wraps | turns are kept | `Allocation` |
| webhook delivery | none | deliver with retries | the answer to a post that was taken is lost | the result is true of what was sent | `WebhookDelivery` |
| task table, scheduler metrics | `tasks`, `scheduler_metrics` tables | upsert, update, list, increment | updates late, twice or out of order; rows without an agent are never equal in SQL; queries sort by the text of a time | times are kept, sums exact, nothing newer cut off | `Timestamps`, `TaskTable` |

The last five are libraries or tables that no entry point uses yet; they are
modelled with the callers their documentation describes.

Not modelled: attach continuity, profiles, the HTTP proxy, the doctor, page
scripts, semantic matching, the dashboard, scripts (section 6). `PROJECT.json`
lists every component with its files and the reason.

### Interactions

`require_instance_access` (leases) stands in front of start, stop, attach, tab
operations and captures. Every operation of the registry and of tabs begins with
`refresh_instances`. `sync_tabs` reads the instance's endpoint from the registry
and replaces the rows of `tabs`. Captures write a file, then a row, then an event
of the process's capture run; `replay_export` reads events, then rows, then
files. `RestartTracker` decides about launches of managed browsers. The modules
meet at these interfaces: `InstanceRegistry` and `TabSessions` use leases only by
what `ExclusiveWriter` promises, and `LeaseCoordination` is proved to implement
that promise. The three control surfaces run one `execute_tool` over one store;
`ControlPlane` takes an operation as one step, the modules of the operations take
it apart. `ScenarioGate` reads what `ScenarioRecorder` writes; `ArtifactCapture`
makes what `ReplayBundle` exports, with sessions that `CdpTransport` takes apart
and pictures of the bridge that `NativeSurfaces` drives.

## 2. Plan

Done, in this order: leases and their promise; registry; replay bundle; scenario
recorder; capture runs; task queue and restart tracker; tabs; control plane;
scenario gate; the rest of the task plane; CDP transport; artifacts; native
surfaces.

Proved, in this order: leases, their refinement, registry, replay, scenario,
capture; then what the histories say of those (`StepsClosed`, `ClosedRun`,
`TimelineClosed`, `ResumesRecording`, `AloneKeepsBundle`, `EventsBacked`); tabs;
the task plane; artifacts and native surfaces; the CDP session; the allocation
policies; the grids of crops.

Next:

1. `NotTalkedOver` for `ScenarioGate`, from an invariant that ties what the gate has
   read to the rows it began with; it needs sums over sets and over listings to be
   compared, as `TablesExact` does.
2. Attach continuity (core 3243-3280, 6052) as an extension of
   `InstanceRegistry`, should an operation ever decide by it.

## 3. Modules and code

Every module has the same shape. A process is idle or carries an *operation*: the
steps it still has to take and what it has read so far. One step is one SQL
statement or transaction, one probe, signal or rename, so a definition ending in
`Step` (or named after the statement) is one point where others may intervene. A
process may die or fail between any two steps (`Abandon`, `Crash`, `Fault`).
Events that are only reported are left out, except where the timeline is the
subject.

* **`Timestamps`** - `utc_timestamp` (`crates/pengu-mesh-shared/src/outcome.rs:54`)
  as the store compares it. A timestamp is a second and a fraction; `TextLE` is the
  order of its RFC 3339 *text*, which within one second is not the order of time:
  trailing zeros are trimmed, and `Z` sorts after `.` and after every digit, so that
  `.5Z` comes after `.51Z`. Where the text of a fraction stands among those of one
  second is a parameter (`FractionRank`).
* **`LeaseTable`** - the statements on `leases` (state 1310-1700) as operators on
  the set of rows. `StableId` is a parameter that need not be injective: a colliding
  primary key makes the insertion fail.
* **`LeaseCoordination`** - `lease_acquire`, `lease_release`, `lease_transfer`,
  `lease_status` and `require_instance_access` (core 1264-1483, 3282-3377) of any
  number of processes; `now` may be older than the transaction that uses it.
* **`ExclusiveWriter`** - the promise, without tables: a grant ends only by a
  release or transfer that names its holder, or in its second of expiry.
  `LeaseCoordination` maps writer rows to grants and pending requests to wishes.
* **`InstanceRegistry`** - `refresh_instances`, `start_instance`,
  `attach_instance`, `stop_instance` (core 981-1262, 3653-3803; cdp 202-304).
  Browsers are external; a number stands for a process and for the websocket URL of
  a browser. Its pid may be any that no running process has, one that a row still
  holds included, and other programs take pids too. `stop_instance` signals the pid
  of the row whatever the row's status is. Two spellings of a URL may reach one
  endpoint.
* **`TabSessions`** - `sync_tabs`, `open_tab`, `close_tab`, `tab_action`, captures
  and `connect_tab_session` (core 1884-2332, 3690-3745; state 536-636; cdp 414-484),
  the listing of `attach_instance` and the clearing of `stop_instance`. Pages open,
  close, move and lose their address by themselves; `/json/close` may be answered
  before the page is gone.
* **`ReplayBundle`** - `replay_export` in portable mode (core 3033-3526,
  5880-5970; `crates/pengu-mesh-artifacts`). `place` says under which name each
  export's directory stands; removal empties the directory entry by entry.
* **`ScenarioRecorder`** - `scenario_recorder.rs` and its statements (state
  846-1308). Ordinals come from the transaction of `create_scenario_step`.
* **`CaptureRuns`** - opening a runtime, `record_event`, start and stop of recording
  and binding of the daemon (core 693-764, 2714-2773, 3578-3604; state 701-844).
* **`Contracts`**, **`ControlPlane`** - the tables of the tools, routes, commands,
  schemas, lease coverage and refusals (`crates/pengu-mesh-mcp/src/lib.rs`,
  `crates/pengu-mesh/src/main.rs`, core 3806-4250, `crates/pengu-mesh-shared/src/failure.rs`),
  and the daemon's loop, an MCP server and CLI processes over one instance, its
  tab and its leases. A message is the set of the phrases its text contains, which
  is what the rules that classify it look at. A request executes in one step.
* **`ScenarioGate`** - `scenario_summary` and `scenario_gate` (core 2773-3030) with
  the thresholds of `threshold.rs`: percentiles and
  rounding as operators against a reference definition of nearest rank.
* **`CdpTransport`** - a session from `connect` to the end of its operation (cdp
  468-857, `animations.rs`): request ids, events, refusals, the deadline of
  `navigate`, tracing, and the suppression of animations.
* **`ArtifactCapture`**, **`CropGrid`** - the operations that make artifacts (core
  1930-2500, artifacts 57-420) as the sequence of their files, rows and event; the
  regions of a grid in thousandths and their pixels.
* **`NativeSurfaces`** - `host_access_setup`, `browser_surface_list_actions` and
  `browser_surface_action` (core 855-905, 1616-1882, 4267-4608; macos with its
  bridge), against a user who grants, revokes, closes and moves the focus. An
  operation makes one call of the system at a time. Roles, services and keys are
  told apart as far as the code does.
* **`TaskQueue`**, **`RestartTracker`**, **`Allocation`**, **`WebhookDelivery`**,
  **`TaskTable`** - `task_queue.rs`, `autorestart.rs`, `allocation.rs`, `webhook.rs`
  and the statements on `tasks` and `scheduler_metrics` (state 1900-2250).
  `backoff_factor` is a ratio of whole numbers, zero and below one included; its
  powers are exact and the delay is rounded down. Tasks are sorted by the text of
  their creation.
* **`Scheduling`**, **`BrowserEvidence`** - modules that share no state, side by
  side: in each behaviour one of them, chosen at the start, makes the steps, which
  is enough because nothing one does is read by another.
* `MC*.tla` give operators and symmetry sets for TLC; `*Proofs.tla` hold the
  theorems.

Definitions marked "Mutant" are faulty forms of the definition after them, as a
plausible bug would leave it; `PROJECT.json` names the property that each breaks.

### History variables

Some promises hold as long as operations on the same thing came one after the
other, and the code does nothing to enforce that. Instead of checking them with a
single process, the models remember whether it was so, and the properties are
checked with all processes running:

| Variable | Remembers | Used by |
|---|---|---|
| `ReplayBundle!overlapped` | two exports of the run were under way together | `PortableWhole`, `OneErrorKeepsBundle`, `DebrisNeverBlocks` |
| `ScenarioRecorder!overlapped` | runs with two commands under way together | `ClosedRun`, `StepsClosed` |
| `CaptureRuns!contended` | two daemons were up together | `TimelineClosed`, `ResumesRecording` |
| `CaptureRuns!recording` | the run the last serving daemon recorded to | `ResumesRecording` |
| `TabSessions!disturbed` | processes whose last listing a browser or another process has outdated | `RecoversSession`, `OpenedTabListed`, `SyncExact` |
| `TabSessions!cleared` | whether a listing was in hand when a stop cleared the rows | `StoppedHasNoTabs` |
| `RestartTracker!in_a_row`, `up_since`, `late` | restarts since the browser was last stable, when it came up, a launch failed late | `RestartInv`, `BacksOff` |
| `ScenarioGate!before`, `writes` | the runs when the gate began, the writes since | `VerdictExact`, `NotTalkedOver` |
| `CdpTransport!seen` | what happened at the browser | `CapturesStill`, `TraceWhole`, `NavigationTrue` |
| `ArtifactCapture!last` | how a process's last operation ended and what it had written | `NothingLeft` |
| `NativeSurfaces!reply`, `catalog`, `seen` | what an answered operation did, the last listing while nothing changed, the services granted meanwhile | `CatalogKept`, `AvailableHolds`, `SetupHonest` |
| `TaskQueue!jumped` | how often one agent went before another that waited | `NoMonopoly` |

No guard reads a history variable.

## 4. Runs

| Run | Question | Instance |
|---|---|---|
| `lease_promise` | `LeaseInv` (with `OneWriter`); `ImplementsPromise` (refinement) | 2 processes, 2 holders, 1 instance, 2 fractions per second, time to live 1 s, the clock to the end of second 1 |
| `registry_rows` | `RegistryInv`: rows stay with their ids under stale write-backs; `SignalsOwnPid`: a stop signals a pid of its own instance, and a stranger only if he got the pid after its browser | 2 processes, 2 spellings of one endpoint, 1 name, 2 browsers or other programs with 2 pids, 2 requests or deaths |
| `registry_converges` | `StatusConverges` (liveness) | 2 processes, 1 URL, 2 browsers, 2 requests or deaths, fair |
| `tab_sessions` | `TabsInv` (`SyncExact`), `RecoversSession`, `OpenedTabListed`, `StoppedHasNoTabs` | 2 processes, 2 instances with a page each, 2 addresses and none, 3 requests or deaths, 1 change by the browsers |
| `replay_export` | `ReplayInv` (a whole bundle survives), `AloneKeepsBundle` (`PortableWhole`, `OneErrorKeepsBundle`, `DebrisNeverBlocks`), `EventsBacked` | 1 artifact, 3 exports, all at a time, 1 error, 1 crash |
| `scenario_recorder` | `ScenarioInv` (dense ordinals, owned evidence), `StepsClosed`, `ClosedRun` | 2 processes, 2 runs, 2 steps, 1 record |
| `scenario_gate` | `GateInv` (`VerdictExact`: undisturbed, the verdict is the policy's), `NotTalkedOver` (evidence stored before is not passed over) | 2 families, 2 runs, 2 pieces of evidence, 2 writes meanwhile, 3 policies: the default, one with every check, one with none it can avoid |
| `capture_runs` | `CaptureInv`, `ToolTimelineClosed`, `TimelineClosed`, `ResumesRecording` | 2 daemons, 1 tool, 2 addresses, 3 runs, 4 events per run |
| `control_plane` | `PlaneInv` (`SurfacesAgree`), `TablesTruthful` (`MatrixTruthful`, `SchemaTruthful`), `RefusalsTruthful` (`CodeByCause`, `RecoveryReachable`); `Answered` (liveness) | all tools, routes and commands, 1 instance in each of its states, its tab, 1 named holder and 3 operators, 2 HTTP clients, 1 grant |
| `cdp_transport` | `SessionInv` (`OwnAnswers`), `PageRestored`, `ResultsTrue` (`CapturesStill`, `NavigationTrue`, `TraceWhole`); `Ends` (liveness) | every operation, 3 chunks, 3 frames, 2 faults, 1 event or ping, 2 documents loaded meanwhile, 2 polls |
| `browser_evidence` | `StoreInv` (`RowsBacked`, `EventsBacked`, `NothingLeft`), `GridCovers`; `ActionsKept` (`TakeoverGranted`, `CatalogKept`), `AvailableHolds`, `ReportsHonest` (`FocusHonest`, `SetupHonest`) | 2 processes, 3 files, 1 run and none, 1 incident; grids of up to 64 parts in 6 widths with 5 overlaps; every action, channel and takeover, 2 sets of permissions, 1 change by the user or failing bridge |
| `scheduling` | `QueueSound` (`QueueInv`, `NoMonopoly`), `ServesInOrder`; `RestartsBounded` (`RestartInv`, `BacksOff`); `TurnsKept`; `DeliveryHonest`; `TablesKept` (`TablesExact`, `TimesKept`) | queue: 2 agents, 2 ids, 2 priorities, 2 instants, capacity 4 and 3 per agent, 4 dequeues; tracker: 4 restarts, delays 2 to 4 by a factor of 3/2, stable after 4, clock to 24; 3 candidates and an index of 3 bits; 2 retries; tasks of 3 fractions in 2 seconds, 4 increments |

A property named with others in brackets is their conjunction, with the type
invariant of its module; each part has a mutant of its own.

**Why the bounds are enough.** The races are between two actors: one that has read
and one that writes before the first does; a third actor matters only for exports
(one moves aside, one restores, one starts from what is left), and there three
run. Two fractions are what makes text order and time order differ; tasks have the
three of `.5`, `.51` and `.6`, whose texts are not in the order of time. Two pids and
two starts are a browser, its exit and another process under its pid. Two spellings
of one endpoint are what makes a URL match fail where the endpoint is the same.
Requests, deaths and browser changes are counted so that each scenario named in a
property's comment (read, interference, write, and what follows) fits. What does
not depend on numbers is proved for all of them (section 5). Deadlock is
checked wherever the system never has to stop: the plane, the tabs, the scenario,
the gate, the capture and the lease runs. It is not (`CHECK_DEADLOCK FALSE`) where a
bound is used up (the registry, replay and scheduling runs) or where a session or an
operation that has answered is over (the CDP and evidence runs). That nothing waits
for ever is what `Answered`, `Ends` and `StatusConverges` say.

The gate's writes are two because a verdict is talked over by one recorder that
writes between two reads and another, or the same, that moves the window. Two
faults of the browser reach a cleanup that fails after the capture failed. Three
files are a picture and a grid of two crops; one incident is enough, since an
operation that has failed is over. One change by the user may fall between any two
calls of the bridge.

**Fairness.** `registry_converges`: each process takes the next step of what it has
begun, and an idle process lists the instances sooner or later. A process is
sequential; its probes have no timeout, so that a browser which accepts a
connection also answers is assumed. The code justifies the refreshes in use only:
nothing refreshes by itself, but every operation begins with `refresh_instances`
(core 3697, 770), so a process that serves requests refreshes. Starts of browsers,
requests and deaths are bounded, so the browsers settle.
`control_plane`: the daemon's accept loop goes on (`main.rs:1173`), and a client
finishes its request or goes away: the daemon reads without a timeout, so a client
that does neither would stop it for all. `cdp_transport`: the session takes its
next step, and the browser serves what it has received or closes the socket;
reads have no timeout either. Nothing is assumed of the page, which need not
finish loading, nor of events.

### Limits of the code that the models make visible

These follow from the code as it is. The properties leave them out, or say so.

* Docs say that attaching by name alone is not part of continuity
  (`docs/attach-contract.md:19`). `attach_instance` derives the id of a new row from
  the name (core 1088-1098), so an attach to another endpoint under a known name
  takes over the existing row without the lease check of a reuse.
* The manifest says `staged_atomically`. Exports share the backup name
  `portable.previous` (core 5899): with two exports at a time and one rename that
  fails, an export may put back a directory that another one is removing.
* Consecutive restarts are bounded (`autorestart.rs:14`), but `record_crash`
  measures from the last *start* (line 104): launches that fail without ever
  starting, a stable period after the last start, reset the counter each time.
* A lease is checked once, before the browser operation; the operation goes on if
  the lease ends meanwhile (core 1892, 3282).
* A writer lease may be acquired implicitly while an observer appears (core 3306).
* Holder ids that normalise to the same text share a lease id; the second
  acquisition fails by the primary key (core 4780).
* `stop_instance` sends its signal to the pid that the row holds, also when the row
  is `Closed` already (core 1207-1213): when the browser has exited and the system
  has given its pid out again, another program gets the signal.
* `query_tasks` sorts by the text of `created_at` (state 2025): within one second a
  newer task may be listed after an older one, and be cut off by the limit. Across
  seconds the order is that of time.
* The backoff is what the configuration says: with a factor below one the delays
  shrink, and with zero they are zero from the second attempt on
  (`autorestart.rs:21`, `131`).
* Two attaches at a time under different names store two rows for one URL (core
  1085, 3658); an attach refused at its lease leaves its row behind (core 1133).
* A stale listing stored after a stop brings rows of a dead browser back; as
  listing then fails, nothing removes them (core 3693, 1227).
* Two commands about one run at a time may finish it twice, or leave an unfinished
  step in a finished run (`scenario_recorder.rs:387`, `396`).
* Two daemons that start together may create two active runs (`main.rs:427`), and
  a daemon whose copy is stale appends to a completed run (core 3589).
* A crop made after the run changed belongs to another run than its source (core
  2359). Of two creations of a profile at a time both succeed (core 927). One
  unreadable manifest makes the validation of all exports fail (core 3118).
* Control plane: on routes that read the query, a holder id made of digits becomes a
  number and the daemon's own operator acts instead; lists such as
  `allowed_statuses` cannot be given there. Refusals about thresholds that are no
  array, recordings that would capture too much, a tab of another instance, a missing
  source of an export, navigation timeouts, closed sockets and tabs that cannot be
  opened come out as internal errors (`Unrecognized` lists those with a code of their
  own cause, and `CodeByCause` holds for the rest); the hints of tabs and surfaces do
  not know the text of a missing writer lease. `classify_error` sees the outermost
  context only. Preflight lists capabilities that no operation enforces: only
  `host_access_setup` (apply) and `browser_surface_action` (takeover) are.
* CDP: the style may stay in a document that the page loads between the removal of
  the style and that of the script. Two sessions on one tab share the style's
  marker. The deadline of a navigation is looked at between answers only.
* Artifacts: regions end at 999 thousandths, so that in pictures of a thousand
  pixels and more the last column is in no crop. A picture of the bridge stays
  behind when the snapshot's own artifact fails before it is read, or the root is
  not found. Plain writes that fail leave a part of a file without a row; a grid
  that fails half-way leaves rows that no event names.
* Surfaces: after fallbacks, confirming through `app_scoped_key_post` answers
  `background_safe` although the application was activated before; that channel
  posts its key whatever the action. Without naming the channel, `global_takeover`
  is reached only with a key that cannot be posted. `allow_takeover = false` does
  not forbid activation. Surface ids are positions: when the tree changes, an id is
  another control's. The catalogue takes Apple Events for available when any
  browser granted them. A setup reports what each step found, also when it has
  changed since.

## 5. Proofs

All theorems hold for every value of the constants that the named assumptions
allow: any number of processes, instances, holders, runs, exports, tasks, errors
and crashes. Where a property depends on a bound that only TLC needs, the bound is
a constant too.

| Theorem | States |
|---|---|
| `LeaseProofs!LeaseInvariance` | `Spec => []LeaseInv` |
| `LeaseProofs!WriterExclusion` | `Spec => []OneWriter` |
| `LeaseProofs!PromiseKept` | `Spec => ImplementsPromise`: the lease layer implements `ExclusiveWriter` |
| `RegistryProofs!RowsStayCoherent` | `Spec => []RegistryInv` |
| `RegistryProofs!SignalsReachOwn` | `Spec => SignalsOwnPid` |
| `TabProofs!RefreshExact` | `Spec => []TabsInv` |
| `TabProofs!OneRetryIsEnough` | `Spec => []RecoversSession` |
| `TabProofs!OpenedTabFound` | `Spec => []OpenedTabListed` |
| `TabProofs!StopLeavesNoTabs` | `Spec => []StoppedHasNoTabs` |
| `TabProofs!AnswersStayOwn` | `SessionSpec => []SessionInv` |
| `TabProofs!PageIsRestored` | `SessionSpec => []PageRestored` |
| `TabProofs!ResultsStayTrue` | `SessionSpec => []ResultsTrue` |
| `ReplayProofs!BundleNeverLost` | `Spec => []ReplayInv` |
| `ReplayProofs!ExportAloneKeepsBundle` | `Spec => []AloneKeepsBundle` |
| `ReplayProofs!ManifestBacksEvents` | `Spec => []EventsBacked` |
| `ScenarioProofs!StepsNumbered` | `Spec => []ScenarioInv` |
| `ScenarioProofs!FinishedHasNoActiveSteps` | `Spec => []StepsClosed` |
| `ScenarioProofs!FinishedStaysClosed` | `Spec => ClosedRun` |
| `CaptureProofs!CopiesStaySound` | `Spec => []CaptureInv` |
| `CaptureProofs!ToolTimelines` | `Spec => ToolTimelineClosed` |
| `CaptureProofs!TimelinesStayClosed` | `Spec => TimelineClosed` |
| `CaptureProofs!RestartResumes` | `Spec => ResumesRecording` |
| `SchedulingProofs!QueueStaysSound` | `SchedulingSpec => []QueueSound` |
| `SchedulingProofs!DequeueServesInOrder` | `SchedulingSpec => ServesInOrder` |
| `SchedulingProofs!RestartsStayBounded` | `SchedulingSpec => RestartsBounded` |
| `SchedulingProofs!DeliveryStaysHonest` | `SchedulingSpec => []DeliveryHonest` |
| `SchedulingProofs!TimesNeverErased` | `SchedulingSpec => Table!TimesKept` |
| `SchedulingProofs!TurnsStayKept` | `SchedulingSpec => []TurnsKept` |
| `EvidenceProofs!EvidenceStaysBacked` | `EvidenceSpec => []StoreInv` |
| `EvidenceProofs!ActionsStayListed` | `EvidenceSpec => []ActionsKept` |
| `EvidenceProofs!AvailableIsReachable` | `EvidenceSpec => []AvailableHolds` |
| `EvidenceProofs!ReportsStayHonest` | `EvidenceSpec => []ReportsHonest` |
| `EvidenceProofs!GridsCover` | `EvidenceSpec => []GridCovers` |

The arguments and the strengthenings they need:

* **Leases.** `OneWriter` alone is not inductive: that the conflict check of
  `acquire_lease` sees every other writer row depends on rows being rows and on
  `now` being a time (`TypeOK`), and the refinement on `now` not being in the
  future (`ReadingsPast`): a row that a prune removes has then reached its second
  of expiry, although texts are compared (`PrunedRowsHaveLapsed`). Each statement
  is an abstract acquire, release, transfer, lapse or stutter. Assumptions: at
  least one fraction, `MinTtl` positive, ids in `Ids`; `StableId` and the order of the
  texts within a second are arbitrary.
* **Registry.** A row in the table says little unless every row *in hand* (listed,
  probed, about to be written) is coherent too, since those are written back later:
  `RowsCoherent` speaks of both. A row is built by `start_instance` or
  `attach_instance` or retouched in fields coherence does not mention; the set of
  launches only grows. That a stranger is signalled only after the browser has exited
  needs `PidsReusedLate`: of the processes that had a pid, only the latest may run.
  Assumptions: the spelling derived from an endpoint reaches it, and 0 is no pid.
* **Tabs** (`TabInd`). A listing goes from the browser to the table and from there to
  the operation. As long as a process is not `disturbed`, each of these is what the
  browser shows; which of them the operation has is told by the steps it has left,
  whose order is invariant (`Ordered`: a listing is stored before it is read back,
  and what looks for a tab comes after the reading). A stop that found no listing
  in hand leaves none that could be stored later. Assumption: the mark of an idle
  process is no process (`IdleAssumption`).
* **CDP session** (`CdpInd`, in `TabProofs`). Request ids rise, and the id of an
  answer is below those of the requests that are still to be served (`InOrder`): when
  the awaited answer arrives, nothing is left to serve (`NothingLeft`). The labels of
  an operation are its own (`Labelled`), and a request with the awaited id was
  sent under the present label, so what the page has is known at each label: which of
  override, script and style are set while they are being set up and while pictures are
  taken (`SetUp`, `Still`), which are gone on the way back (`TakenBack`). A reported
  picture was taken (`Counted`), an answer that says "complete" came from a page that is
  (`Reached`), and the stream gives the piece that the session has not got (`Traces`).
  Assumption: `CdpAssumption`, above all that a trace has at least one piece and a
  recording at least one frame.
* **Replay.** "A whole bundle survives" needs to know what each directory is at each
  step of its export: staged directories are whole before the first rename
  (`StagedWhole`), unfinished ones have no manifest (`NotYetWritten`), what is being
  removed has left its staging place (`TargetsLeft`), a name holds one directory
  (`NamesUnique`). A survivor is lost only by being moved aside, and the export that
  does so has a whole one staged. `AloneInv` adds, as long as no two exports met, which
  names are taken at each step of the one under way (`AloneAt`), that what stands at
  `portable` is whole, and where the bundle is between the renames (`Kept`).
  `BackedInv`: an event is stored after its artifact, rows are never deleted, and an
  export lists the events first.
* **Scenario.** Density of the ordinals needs a last step (`LastStep`) for the
  insertion, and that rows written back have kept id, run and ordinal since they
  were read (`RowStands`); `OwnStep` keeps ids apart, `StepFound` ties evidence.
  `ClosedInv` ties what each command has read of the run to the rows as they are, as
  long as the commands about the run did not overlap: one that is about to write has
  then checked what is still so.
* **Capture.** What a process's copy says of the row (`CopiesSound`), and that no
  other process has a tool's run (`ToolsAlone`), because recovery takes runs of
  daemons only. `ContinuityInv`: with one daemon at a time there is at most one
  active run of daemons, and a daemon that has a run has this one or stopped it
  (`KnowsActiveRun`), so there is nothing to choose by the text of `started_at`.
* **Task plane.** What the scan of `dequeue` and the power in the backoff compute is
  defined by recursion over numbers, and proved by the least counterexample (a set of
  naturals that is not empty has a least element, `Least`) since induction itself is
  out of reach. `QueueInd`: the accounts are cardinalities of sets of positions, which
  `swap_remove` maps one to one; an agent that went before another which waits was
  served later than it (`JumpedLater`), so the fairness key puts the other one first
  the next time. `DeliveryInd`: a delivery that has not ended has no success and posts
  left. `RestartInd`: the last delay is the one of the attempts counted; with a factor of
  one or more a higher power, cut to a whole number, is not smaller (`BackoffGrows`).
  Assumption: the mark for "no status" is no number. `AllocInd`: every pick of round robin is at the
  place in the list of candidates that the index had then, counted back from the index
  now (`PlaceOf`); a list without repetitions exists for every set of candidates
  (`ListExists`, again by the least counterexample), and two places in it are the same
  exactly when the numbers of the picks leave the same remainder (`SameTurn`).
  `2 ^ IndexWidth` is assumed to be a positive number, as powers are; the provers know
  no law of powers.
* **Artifacts** (`StoreInd`). The steps an operation has left determine which of its
  files are written and which have a row (`Staged`); each is whole and waits
  for its row or has one (`Owned`); a file is known to one operation only, and to no
  event before the operation stores its own (`Separate`), so that what one operation
  writes or removes is in no row or event of another's.
* **Native surfaces** (`SurfaceInd`). The channels an operation has left are a suffix of
  those it began with, so the fallbacks counted are its place in the catalogue; the
  catalogue says what is so while nothing changed (`CatalogTrue`); what a setup has
  noted is what its steps found. Assumption: the services a request may name are
  sequences of services.
* **Grids of crops** (`AllCovered`). No induction over steps: a behaviour looks at one
  accepted grid. A number rounded down stays below a greater one rounded up
  (`RoundingOrder`), first in thousandths, then in pixels: no region is empty, and each
  begins where its predecessor ends or before (`Neighbours`), also when the clamp at 999
  cuts it. The part that shows a pixel is the first one ending after it. Assumption:
  pictures have at least one pixel.

Only model-checked:

* liveness (`StatusConverges`, `Answered`, `Ends`), which is out of the prover's reach;
* `ScenarioGate` (`GateInv`, `NotTalkedOver`): percentiles are of sorted sequences and
  failures are sums over listings and over sets, whose definitions need induction over
  data;
* of `TablesKept` the part `TablesExact`, over sums and sorted listings: folds of the
  community modules, about which the prover has no theorem without an operator as a
  parameter;
* `ControlPlane` and `Contracts`: tables over finite sets, which TLC evaluates in
  full, so that there is nothing more general to prove about them.

## 6. Not modelled, and why

Wording, formatting and payload contents; the contents of pages, images and PDFs;
attach continuity, a report that `attach_instance` writes last and only health and
doctor read; profiles, one check and one upsert of a row whose id is its name; the
HTTP proxy, which forwards one request and keeps nothing; the doctor, which only
reads; what the system's own calls answer (AppleScript, Accessibility), which is
external to `NativeSurfaces`; page scripts and semantic matching, which are data
and floating-point heuristics without a specification; the dashboard, which only
reads; scripts, examples and benches. SQLite is trusted to make statements and
transactions atomic and durable, the file system to make renames atomic. Times are
whole units in `RestartTracker`, and the product with `backoff_factor` is exact:
the rounding of `f64` is left out, as are factors that are negative or not a number,
and products beyond 64 bits.
