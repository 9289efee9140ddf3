---------------------------- MODULE ControlPlane ----------------------------
(***************************************************************************)
(* The three control surfaces over one runtime store and one browser       *)
(* instance: the HTTP daemon, which serves one connection at a time, the   *)
(* MCP server, which answers its standard input message by message, and    *)
(* the CLI, a process per command.  All of them run execute_tool; they     *)
(* differ in how they come by the arguments, in the holder they act for    *)
(* when none is named, and in what they make of the outcome.               *)
(*                                                                         *)
(* A request executes in one step: interleavings inside the operations are *)
(* the subject of LeaseCoordination, InstanceRegistry and TabSessions.     *)
(***************************************************************************)
EXTENDS Contracts, FiniteSets

CONSTANTS
  Named,             \* holder ids given in requests
  Daemon,            \* the operator id the daemon keeps in the store
  Processes,         \* operator ids made from a process id: of CLI and MCP processes
  Clients,           \* HTTP clients
  Granted            \* the capabilities PENGU_MESH_CAPABILITY_GRANTS names

Holders == Named \cup {Daemon} \cup Processes
Absent == "none"     \* no holder named

ASSUME PlaneAssumption ==
  /\ Daemon \notin Named \cup Processes /\ Named \cap Processes = {}
  /\ Absent \notin Holders
  /\ IsFiniteSet(Holders) /\ IsFiniteSet(Clients)

VARIABLES
  inst,              \* the instance: "none", "managed", "external" or "stopped"
  tab,               \* is its tab in the store?
  leases,            \* holder -> modes it holds on the instance
  mcp,               \* operator id of the MCP server
  conn,              \* client -> "idle", "sending" or "sent"
  backlog            \* open connections, in order

world == <<inst, tab, leases>>
vars == <<world, mcp, conn, backlog>>

Init ==
  /\ inst = "none" /\ tab = FALSE
  /\ leases = [h \in Holders |-> {}]
  /\ mcp \in Processes
  /\ conn = [c \in Clients |-> "idle"]
  /\ backlog = <<>>

-----------------------------------------------------------------------------
(* Arguments.  A request names a tool, gives some of its arguments, and    *)
(* its ids are those of the instance and the tab or of nothing.  `digits`  *)
(* says that the holder's id is a numeral.                                 *)

\* The arguments that name the holder are given when the request has one.
HolderArguments == {"holder_id", "from_holder_id"}
Given(q) == q.given \cup (IF q.holder = Absent THEN {} ELSE HolderArguments)

\* json_query turns a numeral into a JSON number, which optional_string does not read.
\* Mutant: the query's holder is not passed on at all.
QueryWithoutHolder(q) == [q EXCEPT !.holder = Absent]
json_query(q) == IF q.digits THEN [q EXCEPT !.holder = Absent] ELSE q

\* Routes without arguments ignore what is sent; /scenarios/:id takes its id from the path.
HttpArguments(q) ==
  LET how == RouteOf[q.tool].args
  IN  CASE how = "none" -> [q EXCEPT !.given = {}, !.holder = Absent]
        [] how = "query" -> json_query(q)
        [] OTHER -> q
\* clap refuses a command without its flags; the arm sends what it sends.
CliAccepts(q) == q.tool \in DOMAIN CommandSet /\ CommandSet[q.tool] \subseteq Given(q)
CliArguments(q) ==
  IF q.tool \notin DOMAIN Sends THEN [q EXCEPT !.given = {}, !.holder = Absent]
  ELSE [q EXCEPT !.given = @ \cap Sends[q.tool],
                 !.holder = IF Sends[q.tool] \cap HolderArguments # {} THEN @ ELSE Absent]

\* lease_holder_id: the holder named, or the operator of the process.
ActsFor(q, operator) == IF q.holder = Absent THEN operator ELSE q.holder

-----------------------------------------------------------------------------
(* Checks: which can pass, and with what reason each can fail.             *)

Writers == {h \in Holders : "writer" \in leases[h]}
NoLeases == \A h \in Holders : leases[h] = {}

MayWrite(h) == h \in Writers \/ NoLeases
WriteRefusal == IF Writers # {} THEN "writer_held" ELSE "observers_active"

\* require_instance_access: an observer is always let in, on an instance that exists.
AccessFailures(q, h, mode) ==
  IF ~ q.known \/ inst = "none" THEN {"unknown_instance"}
  ELSE IF mode = "observer" \/ MayWrite(h) THEN {} ELSE {WriteRefusal}

\* evaluate: a grant allows a capability; without one the safe tier is allowed, the two
\* capabilities that demand a grant ask for it, and the elevated tier is denied.
default_capabilities ==
  [safe |-> {"navigate", "snapshot", "text", "screenshot", "pdf", "artifact_list", "health", "diagnose"},
   elevated |-> {"evaluate", "click", "fill", "type", "press", "select", "instance_start", "tab_open"},
   dangerous |-> {"host_access_setup", "browser_surface_action"}]
evaluate(capability) ==
  CASE capability \in Granted -> "allowed"
    [] capability \in default_capabilities.dangerous -> "requires_grant"
    [] capability \in default_capabilities.safe -> "allowed"
    [] OTHER -> "denied"

\* Checks decided by the store: empty when they pass.
Stored_(check, q, h) ==
  CASE check = "instance" -> IF q.known /\ inst # "none" THEN {} ELSE {"unknown_instance"}
    [] check = "named_instance" ->
         IF "instance_id" \in q.given /\ ~ (q.known /\ inst # "none") THEN {"unknown_instance"} ELSE {}
    [] check = "tab" -> IF q.known /\ tab THEN {} ELSE {"unknown_tab"}
    [] check = "observer" -> AccessFailures(q, h, "observer")
    [] check = "writer" -> AccessFailures(q, h, "writer")
    [] check = "seed_writer" -> IF inst = "none" THEN {} ELSE AccessFailures(q, h, "writer")
    [] check = "managed" -> IF inst = "external" THEN {"not_managed"} ELSE {}
    [] check = "no_other_writer" ->
         IF q.mode = "observer" \/ Writers \subseteq {h} THEN {} ELSE {"lease_held"}
    [] check = "holds_writer" -> IF h \in Writers THEN {} ELSE {"no_writer"}

\* Checks decided outside the store of instances: they may pass or fail in any of these ways.
OptionFailures == [options |-> {"bad_option"}]
PolicyFailures == [policy |-> {"list_expected", "missing_argument"}]
FieldFailures == [fields |-> {"needs_url", "needs_key", "needs_target", "needs_text", "needs_value"}]
GrantFailures == [capability |-> {"unknown_capability"}, grant |-> {"grant_required"}]
LaunchFailures ==
  [new_profile |-> {"profile_exists"}, installed |-> {"not_installed"}, launch |-> {"launch_timeout"},
   terminate |-> {"still_responds"}, attach_enabled |-> {"attach_disabled"}, cdp_url |-> {"bad_cdp_url"},
   endpoint |-> {"unreachable"}, open |-> {"open_failed", "unreachable"}]
NativeFailures ==
  [bridge |-> {"permission", "app_down"}, surface |-> {"surface_missing"}, focus |-> {"not_focused"}]
TabFailures == [same_instance |-> {"wrong_instance"}]
SessionFailures == [session |-> {"tab_gone", "no_websocket", "unreachable"}]
PageFailures ==
  [page |-> {"selector_missing", "ref_missing", "ref_malformed", "navigation_timeout", "socket_closed",
             "evaluate_failed"},
   capture |-> {"no_screenshot", "no_pdf", "socket_closed"}]
RecordFailures ==
  [frames |-> {"frames"}, artifact |-> {"unknown_artifact"}, page_index |-> {"page_index"},
   file |-> {"file_error"}, sha256 |-> {"sha256_missing"}, scenario |-> {"unknown_scenario"},
   run |-> {"unknown_run"}, sources |-> {"source_missing"}]
Outside ==
  OptionFailures @@ PolicyFailures @@ FieldFailures @@ GrantFailures @@ LaunchFailures @@ NativeFailures
    @@ TabFailures @@ SessionFailures @@ PageFailures @@ RecordFailures

\* A capability that was granted is never asked for again.
Failures(check, q, h) ==
  IF check \in DOMAIN Outside
  THEN IF check = "grant" /\ evaluate(q.tool) = "allowed" THEN {} ELSE Outside[check]
  ELSE Stored_(check, q, h)
CanPass(check, q, h) == check \in DOMAIN Outside \/ Failures(check, q, h) = {}

\* execute_tool: the arguments are read first; then the operation's checks run in order.
Missing(q) == Range(execute_tool[q.tool].reads) \ Given(q)
Passed(i, q, h) == \A j \in 1 .. i - 1 : CanPass(Checks[q.tool][j], q, h)

\* The ends an execution can come to: the check it stopped at, and the reason or "ok".
Ends(q, operator) ==
  LET h == ActsFor(q, operator)
      C == Checks[q.tool]
  IN  IF Missing(q) # {} THEN {<<0, "missing_argument">>}
      ELSE UNION {{<<i, r>> : r \in Failures(C[i], q, h)} : i \in {j \in DOMAIN C : Passed(j, q, h)}}
             \cup (IF Passed(Len(C) + 1, q, h) THEN {<<Len(C) + 1, "ok">>} ELSE {})
Reasons_(q, operator) == {e[2] : e \in Ends(q, operator)}
Code(r) == IF r = "ok" THEN "ok" ELSE classify_error[r]
Codes(q, operator) == {Code(r) : r \in Reasons_(q, operator)}

-----------------------------------------------------------------------------
(* What an execution leaves behind, also when it fails after a check.      *)

\* require_instance_access acquires the lease it needs, unless the holder has one.
AccessGrants(q, h, i) ==
  LET at == {j \in 1 .. i - 1 : Checks[q.tool][j] \in {"observer", "writer", "seed_writer"}}
      modes == {IF Checks[q.tool][j] = "observer" THEN "observer" ELSE "writer" : j \in at}
  IN  IF at = {} \/ inst = "none" \/ "writer" \in leases[h] THEN {} ELSE modes

Done(q, i) == i = Len(Checks[q.tool]) + 1
Reached(q, i, check) == \E j \in 1 .. i - 1 : Checks[q.tool][j] = check

\* lease_release is asked for one mode or for all; the rest name what they acquire.
LeasesAfter(q, h, i) ==
  CASE q.tool = "lease_acquire" /\ Done(q, i) -> {[leases EXCEPT ![h] = @ \cup {q.mode}]}
    [] q.tool = "lease_release" /\ Done(q, i) -> {[leases EXCEPT ![h] = @ \ {q.mode}], [leases EXCEPT ![h] = {}]}
    [] q.tool = "lease_transfer" /\ Done(q, i) ->
         {[[leases EXCEPT ![h] = @ \ {"writer"}] EXCEPT ![to] = @ \cup {"writer"}] : to \in Named}
    [] q.tool \in {"instance_start", "instance_attach"} /\ (Done(q, i) \/ Reached(q, i, "no_other_writer")) ->
         {[leases EXCEPT ![h] = @ \cup {"writer"}]}
    [] q.tool = "instance_stop" /\ Done(q, i) -> {[leases EXCEPT ![h] = @ \ {"writer"}]}
    [] OTHER -> {[leases EXCEPT ![h] = @ \cup AccessGrants(q, h, i)]}

InstAfter(q, i) ==
  CASE q.tool = "instance_start" /\ Reached(q, i, "launch") -> "managed"
    [] q.tool = "instance_attach" /\ Done(q, i) -> "external"
    [] q.tool = "instance_stop" /\ Done(q, i) -> "stopped"
    [] OTHER -> inst
\* A session that finds the tab gone has replaced the stored tabs; so have the listings.
TabsAfter(q, i, gone) ==
  CASE q.tool = "tab_open" /\ Done(q, i) -> {TRUE}
    [] q.tool \in {"tab_close", "instance_stop"} /\ Done(q, i) -> {FALSE}
    [] q.tool \in {"tab_list", "instance_start", "instance_attach"} /\ Done(q, i) -> BOOLEAN
    [] gone -> {FALSE}
    [] OTHER -> {tab}

\* The instance a launch makes has an id of its own unless the port is one used before.
Starts(q) == q.tool = "instance_start" => inst \in {"none", "stopped"}
Attaches(q) == q.tool = "instance_attach" => inst \in {"none", "external"}

Execute(q, operator) ==
  /\ Starts(q) /\ Attaches(q)
  /\ \E end \in {<<e[1], e[2] = "tab_gone">> : e \in Ends(q, operator)} :
       /\ leases' \in LeasesAfter(q, ActsFor(q, operator), end[1])
       /\ inst' = InstAfter(q, end[1])
       /\ tab' \in TabsAfter(q, end[1], end[2])

\* The requests the surfaces are given: with all arguments, or with none; about what there
\* is or about something else.  An optional one, the instance of lease_status, counts.
Complete(t, h, known) ==
  [tool |-> t,
   given |-> (core_tools[t] \ HolderArguments) \cup (IF t = "lease_status" THEN {"instance_id"} ELSE {}), holder |-> h, known |-> known,
   mode |-> "writer", digits |-> FALSE]
Requests ==
  {Complete(t, h, TRUE) : t \in Tools, h \in Named \cup {Absent}}
    \cup {Complete(t, h, FALSE) : t \in Tools, h \in Named}
    \cup {[Complete(t, h, TRUE) EXCEPT !.digits = TRUE] : t \in HolderTools, h \in Named}
    \cup {[Complete(t, h, TRUE) EXCEPT !.mode = "observer"] : t \in DOMAIN LeaseTools, h \in Named}
    \cup {[Complete(t, Absent, TRUE) EXCEPT !.given = {}] : t \in Tools}

-----------------------------------------------------------------------------
(* The daemon accepts a connection, reads its request, routes it, writes   *)
(* the response and only then turns to the next one.                       *)

Connect(c) ==
  /\ conn[c] = "idle"
  /\ conn' = [conn EXCEPT ![c] = "sending"]
  /\ backlog' = Append(backlog, c)
  /\ UNCHANGED <<world, mcp>>

\* The client has sent its request, or closed the connection before the end of it.
Send(c) ==
  /\ conn[c] = "sending"
  /\ conn' = [conn EXCEPT ![c] = "sent"]
  /\ UNCHANGED <<world, mcp, backlog>>

\* Mutant: the last connection is served first.
NewestFirst == backlog[Len(backlog)]
Serving == Head(backlog)

Readable == backlog # <<>> /\ conn[Serving] = "sent"
\* Mutant: the connection that was answered stays in the loop.
RespondTwice == conn' = [conn EXCEPT ![Serving] = "idle"] /\ UNCHANGED <<mcp, backlog>>
Respond ==
  /\ conn' = [conn EXCEPT ![Serving] = "idle"]
  /\ backlog' = SelectSeq(backlog, LAMBDA c : c # Serving)
  /\ UNCHANGED mcp

HandleHttpRequest(q) ==
  /\ Readable
  /\ Execute(HttpArguments(q), Daemon)
  /\ Respond
\* The end of the stream, headers that are too long or a body that is no JSON; a route or
\* a tool that does not exist; the catalogue of tools: answered without an operation.
RouteWithoutTool == Readable /\ Respond /\ UNCHANGED world

-----------------------------------------------------------------------------
(* The MCP server and the CLI.                                             *)

\* A process id that no lease and no running process uses.
Fresh == {p \in Processes : leases[p] = {} /\ p # mcp}
HandleRequest(q) ==
  /\ Execute(q, mcp)
  /\ UNCHANGED <<mcp, conn, backlog>>
\* End of input, or a message that is no request, ends the server; the next one is a new process.
RestartMcp == mcp' \in Fresh /\ UNCHANGED <<world, conn, backlog>>

Cli(q) ==
  /\ CliAccepts(q)
  /\ \E p \in Fresh : Execute(CliArguments(q), p)
  /\ UNCHANGED <<mcp, conn, backlog>>

Expire(h) ==
  /\ leases[h] # {}
  /\ leases' = [leases EXCEPT ![h] = {}]
  /\ UNCHANGED <<inst, tab, mcp, conn, backlog>>

Next ==
  \/ \E c \in Clients : Connect(c) \/ Send(c)
  \/ RouteWithoutTool \/ RestartMcp
  \/ \E q \in Requests : HandleHttpRequest(q) \/ HandleRequest(q) \/ Cli(q)
  \/ \E h \in Holders : Expire(h)

\* The daemon's loop goes on; a client either finishes its request or goes away.
Fairness ==
  /\ WF_<<conn, backlog>>(Readable /\ Respond)
  /\ \A c \in Clients : WF_vars(Send(c))

Spec == Init /\ [][Next]_vars /\ Fairness

-----------------------------------------------------------------------------
TypeOK ==
  /\ inst \in {"none", "managed", "external", "stopped"} /\ tab \in BOOLEAN
  /\ leases \in [Holders -> SUBSET {"observer", "writer"}]
  /\ mcp \in Processes
  /\ conn \in [Clients -> {"idle", "sending", "sent"}]
  /\ \A c \in Clients : conn[c] # "idle" <=> c \in Range(backlog)

\* A request with a holder of its own gets the same answers, and leaves the same leases, on
\* every surface.  Not so on a route that reads the query when the holder's id is a
\* numeral: json_query makes it a number, and the daemon's own operator acts instead.
Results(q, operator) ==
  {<<Code(e[2]), LeasesAfter(q, ActsFor(q, operator), e[1])>> : e \in Ends(q, operator)}
SurfacesAgree ==
  \A q \in Requests :
    q.holder # Absent /\ ~ (q.digits /\ RouteOf[q.tool].args = "query") =>
      LET answers == Results(q, mcp)
      IN  /\ Results(HttpArguments(q), Daemon) = answers
          /\ CliAccepts(q) => \A p \in Fresh : Results(CliArguments(q), p) = answers

\* The lease coverage matrix says what the operations do: where it requires the writer
\* lease nothing succeeds against another's writer lease; where it requires an observer
\* lease success leaves the holder with a lease; outside the model no lease changes.  The
\* method and route it gives are the ones the daemon answers and advertises.
MatrixTruthful ==
  \A t \in Tools, h \in Holders :
    LET row == lease_coverage_matrix[t]
        q == Complete(t, Absent, TRUE)
        ok == {e \in Ends([q EXCEPT !.holder = h], h) : e[2] = "ok"}
    IN  /\ RouteOf[t].method = row.method /\ RouteOf[t].path = row.path
        /\ row.path \in bootstrap_routes
        /\ row.disposition = "writer_required" => ok = {} \/ Writers \subseteq {h}
        /\ row.disposition = "observer_required" =>
             \A e \in ok : \A l \in LeasesAfter(q, h, e[1]) : l[h] # {}
        /\ row.disposition = "outside_model" /\ t \notin DOMAIN LeaseTools =>
             \A e \in ok : LeasesAfter(q, h, e[1]) = {leases}

\* The schemas are what execute_tool demands: a request without one of the arguments its
\* schema requires is refused before anything happens, and clap lets no such command
\* through; a request with all of them is not refused for a missing argument.  No flag that
\* a command demands is dropped on the way to its tool or recorder.
SchemaTruthful ==
  /\ \A c \in DOMAIN CommandSet \ Direct : CommandSet[c] \subseteq (Sends @@ MainRecorders)[c]
  /\ \A t \in Tools, h \in Named :
       LET q == Complete(t, h, TRUE)
       IN  /\ \A a \in core_tools[t] \ HolderArguments :
                LET less == [q EXCEPT !.given = @ \ {a}]
                IN  Ends(less, h) = {<<0, "missing_argument">>} /\ ~ CliAccepts(less)
           /\ \A e \in Ends(q, h) : e[2] = "missing_argument" => t = "scenario_gate"

\* The code of a refusal tells its cause, however many phrases its text shares with others:
\* what does not exist, what another holds, what the machine is not set up for, what may
\* pass by itself, and what the caller got wrong.  The refusals
\* that have such a cause but whose text no rule looks for are exactly those named here:
\* they are answered as internal failures.  Only what may pass by itself, or has no known
\* cause, is called worth repeating.
Unrecognized ==
  {"frames", "wrong_instance", "source_missing", "navigation_timeout", "socket_closed", "open_failed"}
Cause(r) ==
  CASE r \in {"unknown_instance", "unknown_tab", "unknown_artifact", "unknown_run", "unknown_scenario",
              "unknown_capability", "surface_missing", "selector_missing", "ref_missing", "tab_gone",
              "source_missing"} ->
         "not_found"
    [] r \in {"profile_exists", "writer_held", "observers_active", "lease_held"} -> "conflict"
    [] r \in {"attach_disabled", "grant_required", "permission", "sha256_missing"} -> "misconfigured"
    [] r \in {"app_down", "unreachable", "launch_timeout", "no_websocket", "not_focused", "not_installed",
              "navigation_timeout", "socket_closed", "open_failed"} ->
         "not_ready"
    [] r \in {"missing_argument", "bad_option", "list_expected", "needs_url", "needs_key", "needs_target",
              "needs_text", "needs_value", "bad_cdp_url", "ref_malformed", "not_managed", "page_index",
              "no_writer", "frames", "wrong_instance"} -> "invalid_input"
    [] OTHER -> "internal"
CodeByCause ==
  \A q \in Requests : \A r \in Reasons_(q, Daemon) \ {"ok"} :
    /\ Code(r) = IF r \in Unrecognized THEN "internal" ELSE Cause(r)
    /\ LET family == execute_tool[q.tool].family
       IN  family # "raw" /\ retry_likely(family, r) => Cause(r) \in {"not_ready", "internal"}

\* What a refusal recommends can be done at once by the one who was refused: the commands
\* it names are commands of the CLI and may succeed in the state that refused him.
RecoveryReachable ==
  \A q \in Requests : \A r \in Reasons_(q, Daemon) \ {"ok"} :
    LET family == execute_tool[q.tool].family
        wrapped == q.given # {} \/ execute_tool[q.tool].wrapped
    IN  family # "raw" /\ wrapped /\ q.known /\ inst # "none" =>
          \A t \in Recovery(family, r) :
            /\ t \in DOMAIN CommandSet \cup {"browser_doctor"}
            /\ "ok" \in Reasons_(Complete(t, q.holder, TRUE), Daemon)

\* A request that arrived in full is answered: the daemon serves in order, and a connection
\* that breaks off or cannot be routed does not stop it.
Answered == \A c \in Clients : conn[c] = "sent" ~> conn[c] = "idle"

\* The daemon keeps account of its connections, and the three surfaces answer alike.
PlaneInv == TypeOK /\ SurfacesAgree

\* The tables kept beside the handlers, of leases and of arguments, say what these do.
TablesTruthful == MatrixTruthful /\ SchemaTruthful

\* A refusal tells its cause and recommends what can be done about it.
RefusalsTruthful == CodeByCause /\ RecoveryReachable

=============================================================================
