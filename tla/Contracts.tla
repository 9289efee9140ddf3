------------------------------ MODULE Contracts ------------------------------
(***************************************************************************)
(* The tables the three control surfaces are written from: the tool        *)
(* catalogue of the MCP library and what execute_tool reads for each tool, *)
(* the checks every runtime operation makes in order, the routes of the    *)
(* HTTP daemon, the commands of the CLI, the lease coverage matrix, and    *)
(* the texts of refusals with the rules that classify them.                *)
(*                                                                         *)
(* A message is the set of the phrases its text contains; "^unknown "      *)
(* stands for a text that starts with "unknown ".  Only phrases some rule  *)
(* looks for are listed.                                                   *)
(***************************************************************************)
EXTENDS Naturals, Sequences, SequencesExt

-----------------------------------------------------------------------------
(* core_tools: each tool and the arguments its schema requires.            *)

HostTools ==
  [browser_health |-> {}, browser_doctor |-> {}, diagnose |-> {},
   capability_preflight |-> {}, host_access_status |-> {}, host_access_setup |-> {},
   profile_list |-> {}, profile_create |-> {"name"}, instance_list |-> {}]
InstanceTools ==
  [instance_start |-> {}, instance_stop |-> {"instance_id"},
   instance_attach |-> {"cdp_url", "name"}, tab_list |-> {"instance_id"},
   browser_surface_list |-> {"instance_id"},
   browser_surface_list_actions |-> {"instance_id", "surface_id"},
   browser_surface_snapshot |-> {"instance_id"},
   browser_surface_action |-> {"instance_id", "action"}]
TabTools ==
  [tab_open |-> {"instance_id", "url"}, tab_list_actions |-> {"instance_id", "tab_id"},
   tab_close |-> {"tab_id"}, tab_snapshot |-> {"tab_id"}, tab_text |-> {"tab_id"},
   tab_action |-> {"tab_id", "kind"}, tab_screenshot |-> {"tab_id"}, tab_pdf |-> {"tab_id"}]
ArtifactTools ==
  [artifact_list |-> {}, artifact_verify |-> {"artifact_id"},
   artifact_crop |-> {"artifact_id", "x_max", "x_min", "y_max", "y_min"},
   artifact_crop_grid |-> {"artifact_id", "cols", "rows"},
   capture_start_recording |-> {}, capture_stop_recording |-> {}, run_list |-> {}]
ScenarioTools ==
  [scenario_list |-> {}, scenario_summary |-> {}, scenario_gate |-> {},
   scenario_run_detail |-> {"run_id"}, replay_export |-> {},
   trace_capture |-> {"tab_id"}, recording_capture |-> {"tab_id"}, events_tail |-> {}]
LeaseTools ==
  [lease_status |-> {}, lease_acquire |-> {"holder_id", "instance_id"},
   lease_release |-> {"holder_id", "instance_id"},
   lease_transfer |-> {"from_holder_id", "instance_id", "to_holder_id"}]

core_tools ==
  HostTools @@ InstanceTools @@ TabTools @@ ArtifactTools @@ ScenarioTools @@ LeaseTools
Tools == DOMAIN core_tools

-----------------------------------------------------------------------------
(* execute_tool: the arguments each arm demands, in order, whose absence   *)
(* either escapes the arm (answered without a payload) or is wrapped with  *)
(* the family's failure payload; "raw" arms pass an outcome through.       *)

Arm(family, wrapped, reads) == [family |-> family, wrapped |-> wrapped, reads |-> reads]
Op(reads) == Arm("operation", FALSE, reads)
Page(reads) == Arm("tab", FALSE, reads)
PageWrapped(reads) == Arm("tab", TRUE, reads)
Native(reads) == Arm("browser_surface", FALSE, reads)
Stored(reads) == Arm("artifact", FALSE, reads)
Raw == Arm("raw", FALSE, <<>>)

HostArms ==
  [browser_health |-> Raw, browser_doctor |-> Op(<<>>), diagnose |-> Op(<<>>),
   capability_preflight |-> Op(<<>>), host_access_status |-> Op(<<>>),
   host_access_setup |-> Op(<<>>), profile_list |-> Op(<<>>),
   profile_create |-> Op(<<"name">>), instance_list |-> Op(<<>>)]
InstanceArms ==
  [instance_start |-> Op(<<>>), instance_attach |-> Op(<<"name", "cdp_url">>),
   instance_stop |-> Op(<<"instance_id">>), tab_list |-> PageWrapped(<<"instance_id">>),
   tab_list_actions |-> Page(<<"instance_id", "tab_id">>)]
NativeArms ==
  [browser_surface_list |-> Native(<<"instance_id">>),
   browser_surface_list_actions |-> Native(<<"instance_id", "surface_id">>),
   browser_surface_snapshot |-> Native(<<"instance_id">>),
   browser_surface_action |-> Native(<<"instance_id", "action">>)]
TabArms ==
  [tab_open |-> PageWrapped(<<"instance_id", "url">>), tab_close |-> PageWrapped(<<"tab_id">>),
   tab_snapshot |-> PageWrapped(<<"tab_id">>), tab_text |-> PageWrapped(<<"tab_id">>),
   tab_action |-> PageWrapped(<<"tab_id", "kind">>), tab_screenshot |-> PageWrapped(<<"tab_id">>),
   tab_pdf |-> PageWrapped(<<"tab_id">>)]
ArtifactArms ==
  [artifact_crop |-> Stored(<<"artifact_id", "x_min", "y_min", "x_max", "y_max">>),
   artifact_list |-> Stored(<<>>), artifact_verify |-> Stored(<<"artifact_id">>),
   artifact_crop_grid |-> Stored(<<"artifact_id", "rows", "cols">>),
   capture_start_recording |-> Op(<<>>), capture_stop_recording |-> Op(<<>>), run_list |-> Op(<<>>)]
ScenarioArms ==
  [scenario_list |-> Op(<<>>), scenario_summary |-> Op(<<>>), scenario_gate |-> Raw,
   scenario_run_detail |-> Op(<<"run_id">>), replay_export |-> Op(<<>>),
   trace_capture |-> Page(<<"tab_id">>), recording_capture |-> Page(<<"tab_id">>),
   events_tail |-> Op(<<>>)]
LeaseArms ==
  [lease_status |-> Op(<<>>), lease_acquire |-> Op(<<"instance_id", "holder_id">>),
   lease_release |-> Op(<<"instance_id", "holder_id">>),
   lease_transfer |-> Op(<<"instance_id", "from_holder_id", "to_holder_id">>)]

\* Mutant: tab_open takes the address from an optional argument and opens a blank page.
OptionalUrl ==
  [HostArms @@ InstanceArms @@ NativeArms @@ TabArms @@ ArtifactArms @@ ScenarioArms @@ LeaseArms
     EXCEPT !["tab_open"] = PageWrapped(<<"instance_id">>)]
execute_tool ==
  HostArms @@ InstanceArms @@ NativeArms @@ TabArms @@ ArtifactArms @@ ScenarioArms @@ LeaseArms

\* Arguments read with optional_string that name the acting holder.
HolderTools ==
  {"instance_start", "instance_stop", "instance_attach", "tab_list", "browser_surface_list",
   "browser_surface_list_actions", "browser_surface_snapshot", "browser_surface_action",
   "tab_open", "tab_list_actions", "tab_close", "tab_snapshot", "tab_text", "tab_action",
   "tab_screenshot", "tab_pdf", "artifact_crop", "artifact_crop_grid", "trace_capture",
   "recording_capture"}

-----------------------------------------------------------------------------
(* The runtime operations behind the tools: their checks in order.  A      *)
(* check on the store ("instance", "tab", "artifact", "managed", and the   *)
(* lease checks) depends on the state; the others on the world outside.    *)

Unchecked(tools) == [t \in tools |-> <<>>]

HostChecks ==
  [capability_preflight |-> <<"capability">>, host_access_setup |-> <<"options", "grant">>,
   profile_create |-> <<"options", "new_profile">>]
    @@ Unchecked(DOMAIN HostTools)
\* Mutant: stopping an instance forgets the lease check.
StopUnleased ==
  [instance_start |-> <<"options", "installed", "launch", "no_other_writer", "endpoint">>,
   instance_stop |-> <<"instance", "managed", "terminate">>,
   instance_attach |-> <<"attach_enabled", "cdp_url", "endpoint", "seed_writer">>]
InstanceChecks ==
  [instance_start |-> <<"options", "installed", "launch", "no_other_writer", "endpoint">>,
   instance_stop |-> <<"instance", "writer", "managed", "terminate">>,
   instance_attach |-> <<"attach_enabled", "cdp_url", "endpoint", "seed_writer">>]
NativeChecks ==
  [browser_surface_list |-> <<"observer", "instance", "bridge">>,
   browser_surface_list_actions |-> <<"observer", "instance", "bridge", "surface">>,
   browser_surface_snapshot |-> <<"observer", "instance", "bridge", "surface">>,
   browser_surface_action |-> <<"options", "writer", "instance", "grant", "bridge", "surface", "focus">>]
TabChecks ==
  [tab_list |-> <<"observer", "instance", "endpoint">>,
   tab_list_actions |-> <<"observer", "instance", "tab", "same_instance">>,
   tab_open |-> <<"writer", "instance", "open">>,
   tab_close |-> <<"tab", "writer", "instance", "open">>,
   tab_snapshot |-> <<"tab", "observer", "session", "page">>,
   tab_text |-> <<"tab", "observer", "session", "page">>,
   tab_action |-> <<"options", "tab", "fields", "writer", "session", "page">>,
   tab_screenshot |-> <<"tab", "observer", "session", "capture">>,
   tab_pdf |-> <<"tab", "observer", "session", "capture">>,
   trace_capture |-> <<"tab", "observer", "session", "capture">>,
   recording_capture |-> <<"frames", "tab", "observer", "session", "capture">>]
\* Mutant: a crop is made without looking at the lease of its instance.
CropUnleased ==
  [artifact_crop |-> <<"artifact", "page_index", "file">>,
   artifact_crop_grid |-> <<"artifact", "observer", "page_index", "file">>,
   artifact_verify |-> <<"artifact", "sha256", "file">>] @@ Unchecked(DOMAIN ArtifactTools)
ArtifactChecks ==
  [artifact_crop |-> <<"artifact", "observer", "page_index", "file">>,
   artifact_crop_grid |-> <<"artifact", "observer", "page_index", "file">>,
   artifact_verify |-> <<"artifact", "sha256", "file">>] @@ Unchecked(DOMAIN ArtifactTools)
ScenarioChecks ==
  [scenario_gate |-> <<"policy">>, scenario_run_detail |-> <<"scenario">>,
   replay_export |-> <<"options", "run", "sources">>, events_tail |-> <<"run">>]
    @@ Unchecked(DOMAIN ScenarioTools \ {"trace_capture", "recording_capture"})
\* lease_status looks for the instance only when one is named.
LeaseChecks ==
  [lease_status |-> <<"named_instance">>, lease_acquire |-> <<"options", "instance", "no_other_writer">>,
   lease_release |-> <<"options", "instance">>, lease_transfer |-> <<"instance", "holds_writer">>]

Checks ==
  HostChecks @@ InstanceChecks @@ NativeChecks @@ TabChecks @@ ArtifactChecks @@ ScenarioChecks
    @@ LeaseChecks

-----------------------------------------------------------------------------
(* What the texts of refusals contain.                                     *)

StoreMessages ==
  [unknown_instance |-> {"^unknown ", "unknown instance"}, unknown_tab |-> {"^unknown ", "unknown tab"},
   unknown_artifact |-> {"^unknown ", "unknown artifact"}, unknown_run |-> {"^unknown ", "unknown run"},
   unknown_scenario |-> {"^unknown "}, unknown_capability |-> {"^unknown "},
   profile_exists |-> {"managed profile", "already exists"},
   wrong_instance |-> {}, not_managed |-> {"only supports"}, page_index |-> {"page_index is only valid"},
   sha256_missing |-> {"missing stored sha256 metadata"}, source_missing |-> {"missing artifact source"}]
LeaseMessages ==
  [writer_held |-> {" requires ", "requires writer lease", "held by"},
   observers_active |-> {" requires ", "requires an explicit writer lease"},
   lease_held |-> {"held by"}, no_writer |-> {" requires "}]
RequestMessages ==
  [missing_argument |-> {"required"}, bad_option |-> {"unsupported option"},
   list_expected |-> {"must be an array of strings"}, frames |-> {"recording would capture"},
   needs_url |-> {" requires ", "navigate requires url"}, needs_key |-> {" requires ", "press requires key"},
   needs_target |-> {" requires ", "requires ref or selector"}, needs_text |-> {" requires ", "requires text"},
   needs_value |-> {" requires ", "select requires value"}, bad_cdp_url |-> {"parse cdp url"}]
HostMessages ==
  [grant_required |-> {"required", "capability grant required"},
   permission |-> {"requires accessibility permission"}, app_down |-> {"browser app not running"},
   surface_missing |-> {"surface not found"}, not_focused |-> {"surface action failed to focus target"},
   not_installed |-> {"is not installed"}, attach_disabled |-> {"external attach is disabled by default"}]
BrowserMessages ==
  [unreachable |-> {"GET http://"}, launch_timeout |-> {"timed out waiting for http://"},
   no_websocket |-> {"reconnect tab websocket", "connect CDP websocket"},
   tab_gone |-> {"^unknown ", "unknown tab", "after websocket refresh"},
   selector_missing |-> {"selector not found"}, ref_missing |-> {"ref e", " not found"},
   ref_malformed |-> {"invalid ref"}, navigation_timeout |-> {"navigation timed out"},
   socket_closed |-> {"CDP websocket closed"}, no_screenshot |-> {"missing screenshot data"},
   no_pdf |-> {"missing PDF data"}, evaluate_failed |-> {"Runtime.evaluate failed"},
   still_responds |-> {}, open_failed |-> {}, file_error |-> {}]

Message == StoreMessages @@ LeaseMessages @@ RequestMessages @@ HostMessages @@ BrowserMessages
Reasons == DOMAIN Message

Says(r, phrases) == Message[r] \cap phrases # {}

\* Phrase rules of classify_error in order: the first that matches decides.
Rule(phrases, code) == [phrases |-> phrases, code |-> code]
NotFoundPrefix == Rule({"^unknown "}, "not_found")
ConflictRules ==
  <<Rule({"already exists"}, "conflict"),
    Rule({"held by", "requires writer lease", "requires an explicit writer lease"}, "conflict")>>
NotFoundRule == Rule({"selector not found", "surface not found", "ref e"}, "not_found")
MisconfiguredRule ==
  Rule({"external attach is disabled by default", "capability grant required",
        "requires accessibility permission", "missing stored sha256 metadata"}, "misconfigured")
ReadyRules ==
  <<Rule({"browser app not running"}, "not_ready"),
    Rule({"parse cdp url", "invalid ref", "must be an array of strings"}, "invalid_input"),
    Rule({"timed out waiting for http://", "GET http://", "connect CDP websocket",
          "reconnect tab websocket", "surface action failed to focus target"}, "not_ready")>>
InputRules ==
  <<Rule({"required", " requires ", "only supports", "unsupported option", "page_index is only valid"},
         "invalid_input"),
    Rule({"is not installed"}, "not_ready")>>

\* Mutant: the rule for malformed input comes first.
InputFirst ==
  <<NotFoundPrefix>> \o InputRules \o ConflictRules \o <<NotFoundRule, MisconfiguredRule>> \o ReadyRules
ClassifyRules ==
  <<NotFoundPrefix>> \o ConflictRules \o <<NotFoundRule, MisconfiguredRule>> \o ReadyRules \o InputRules

classify_error ==
  [r \in Reasons |->
     LET matching == {i \in DOMAIN ClassifyRules : Says(r, ClassifyRules[i].phrases)}
     IN  IF matching = {} THEN "internal"
         ELSE ClassifyRules[CHOOSE i \in matching : \A j \in matching : i <= j].code]

-----------------------------------------------------------------------------
(* failure.rs: may the request succeed if repeated as it is?               *)

NeverRetry ==
  [operation |->
     {"unknown instance", "unknown run", "managed profile", "already exists", "is not installed",
      "external attach is disabled by default", "parse cdp url", "requires writer lease",
      "requires an explicit writer lease", "held by", "unknown tab", "recording would capture"},
   artifact |-> {"unknown artifact", "missing stored sha256 metadata", "missing artifact source"},
   browser_surface |-> {"surface not found", "requires accessibility permission", "unknown instance"},
   tab |->
     {"unknown instance", "unknown tab", "requires writer lease", "held by", "navigate requires url",
      "press requires key", "requires ref or selector", "requires text", "select requires value",
      "selector not found", "invalid ref", "ref e", "missing screenshot data", "missing PDF data"}]
Retryable ==
  [operation |-> {"timed out waiting for http://", "GET http://", "connect CDP websocket",
                  "browser app not running"},
   artifact |-> {},
   browser_surface |-> {"browser app not running", "surface action failed to focus target",
                        "timed out waiting for http://"},
   tab |-> {"navigation timed out", "connect CDP websocket", "reconnect tab websocket",
            "CDP websocket closed", "timed out waiting for http://"}]

retry_likely(family, r) == ~ Says(r, NeverRetry[family]) /\ Says(r, Retryable[family])

(* failure.rs: the commands a refusal recommends.  A rule gives the phrase *)
(* it looks for and the tool of the command it prints.                     *)
Hint(phrases, tool) == [phrases |-> phrases, tool |-> tool]
OperationHints ==
  {Hint({"unknown instance"}, "instance_list"), Hint({"unknown run"}, "run_list"),
   Hint({"already exists"}, "profile_list"), Hint({"is not installed"}, "browser_doctor"),
   Hint({"requires writer lease", "requires an explicit writer lease", "held by"}, "lease_status"),
   Hint({"unknown tab"}, "tab_list")}
ArtifactHints == {Hint({"unknown artifact"}, "artifact_list"), Hint({"unknown artifact"}, "run_list")}
SurfaceHints ==
  {Hint({"surface not found"}, "browser_surface_list"), Hint({"unknown instance"}, "instance_list"),
   Hint({"requires writer lease", "held by"}, "lease_status"),
   Hint({"surface action failed to focus target"}, "browser_surface_list_actions")}
\* Mutant: a missing tab is answered with a hint at the actions of that tab.
TabHintsActions ==
  {Hint({"unknown instance"}, "instance_list"),
   Hint({"unknown tab", "after websocket refresh"}, "tab_list_actions")}
TabHints ==
  {Hint({"unknown instance"}, "instance_list"),
   Hint({"unknown tab", "after websocket refresh"}, "tab_list"),
   Hint({"requires writer lease", "held by"}, "lease_status"),
   Hint({"selector not found", "invalid ref", "ref e"}, "tab_snapshot"),
   Hint({"selector not found", "invalid ref", "ref e"}, "tab_text"),
   Hint({"navigation timed out"}, "tab_snapshot"), Hint({"navigation timed out"}, "tab_list_actions"),
   Hint({"Runtime.evaluate failed", "missing screenshot data"}, "tab_snapshot"),
   Hint({"missing PDF data"}, "tab_screenshot")}

Hints(family) ==
  CASE family = "operation" -> OperationHints [] family = "artifact" -> ArtifactHints
    [] family = "browser_surface" -> SurfaceHints [] family = "tab" -> TabHints [] OTHER -> {}
Recovery(family, r) ==
  LET named == {h.tool : h \in {k \in Hints(family) : Says(r, k.phrases)}}
  IN  IF named = {} THEN {"diagnose"} ELSE named

-----------------------------------------------------------------------------
(* route_http: method, path, tool and where its arguments come from.       *)

Route(method, path, tool, args) == [method |-> method, path |-> path, tool |-> tool, args |-> args]
HostRoutes ==
  {Route("GET", "/health", "browser_health", "none"), Route("GET", "/doctor", "browser_doctor", "none"),
   Route("GET", "/diagnose", "diagnose", "none"),
   Route("GET", "/capabilities/preflight", "capability_preflight", "query"),
   Route("GET", "/host/access/status", "host_access_status", "none"),
   Route("POST", "/host/access/setup", "host_access_setup", "body"),
   Route("GET", "/profiles", "profile_list", "none"),
   Route("POST", "/profiles/create", "profile_create", "body"),
   Route("GET", "/instances", "instance_list", "none"),
   Route("POST", "/instances/start", "instance_start", "body"),
   Route("POST", "/instances/attach", "instance_attach", "body"),
   Route("POST", "/instances/stop", "instance_stop", "body"),
   Route("GET", "/leases", "lease_status", "query"),
   Route("POST", "/leases/acquire", "lease_acquire", "body"),
   Route("POST", "/leases/release", "lease_release", "body"),
   Route("POST", "/leases/transfer", "lease_transfer", "body")}
BrowserRoutes ==
  {Route("GET", "/tabs", "tab_list", "query"), Route("GET", "/tabs/actions", "tab_list_actions", "query"),
   Route("GET", "/browser/surfaces", "browser_surface_list", "query"),
   Route("GET", "/browser/surfaces/actions", "browser_surface_list_actions", "query"),
   Route("POST", "/browser/surfaces/snapshot", "browser_surface_snapshot", "body"),
   Route("POST", "/browser/surfaces/action", "browser_surface_action", "body"),
   Route("POST", "/tabs/open", "tab_open", "body"), Route("POST", "/tabs/close", "tab_close", "body"),
   Route("POST", "/tabs/action", "tab_action", "body"),
   Route("POST", "/tabs/snapshot", "tab_snapshot", "body"), Route("POST", "/tabs/text", "tab_text", "body"),
   Route("POST", "/tabs/screenshot", "tab_screenshot", "body"), Route("POST", "/tabs/pdf", "tab_pdf", "body")}
RecordRoutes ==
  {Route("GET", "/artifacts", "artifact_list", "query"),
   Route("GET", "/artifacts/verify", "artifact_verify", "query"),
   Route("POST", "/artifacts/crop", "artifact_crop", "body"),
   Route("POST", "/artifacts/crop-grid", "artifact_crop_grid", "body"),
   Route("GET", "/runs", "run_list", "query"), Route("GET", "/scenarios", "scenario_list", "query"),
   Route("GET", "/scenarios/summary", "scenario_summary", "query"),
   Route("GET", "/scenarios/gate", "scenario_gate", "query"), Route("GET", "/events", "events_tail", "query"),
   Route("POST", "/capture/start", "capture_start_recording", "none"),
   Route("POST", "/capture/stop", "capture_stop_recording", "none"),
   Route("POST", "/replay/export", "replay_export", "body"),
   Route("POST", "/trace/capture", "trace_capture", "body"),
   Route("POST", "/recording/capture", "recording_capture", "body"),
   Route("GET", "/scenarios/:id", "scenario_run_detail", "path")}
route_http == HostRoutes \cup BrowserRoutes \cup RecordRoutes
RouteOf == [t \in Tools |-> CHOOSE r \in route_http : r.tool = t]

-----------------------------------------------------------------------------
(* lease_coverage_matrix: what is promised of every operation.             *)

Row(method, path, disposition) == [method |-> method, path |-> path, disposition |-> disposition]
Open(method, path) == Row(method, path, "outside_model")
Shared(method, path) == Row(method, path, "observer_required")
Exclusive(method, path) == Row(method, path, "writer_required")
HostRows ==
  [browser_health |-> Open("GET", "/health"), browser_doctor |-> Open("GET", "/doctor"),
   diagnose |-> Open("GET", "/diagnose"),
   capability_preflight |-> Open("GET", "/capabilities/preflight"),
   host_access_status |-> Open("GET", "/host/access/status"),
   host_access_setup |-> Open("POST", "/host/access/setup"),
   profile_list |-> Open("GET", "/profiles"), profile_create |-> Open("POST", "/profiles/create"),
   instance_list |-> Open("GET", "/instances"),
   instance_start |-> Exclusive("POST", "/instances/start"),
   instance_attach |-> Exclusive("POST", "/instances/attach"),
   instance_stop |-> Exclusive("POST", "/instances/stop"), lease_status |-> Open("GET", "/leases"),
   lease_acquire |-> Open("POST", "/leases/acquire"),
   lease_release |-> Open("POST", "/leases/release"),
   lease_transfer |-> Open("POST", "/leases/transfer")]
BrowserRows ==
  [tab_list |-> Shared("GET", "/tabs"), tab_list_actions |-> Shared("GET", "/tabs/actions"),
   browser_surface_list |-> Shared("GET", "/browser/surfaces"),
   browser_surface_list_actions |-> Shared("GET", "/browser/surfaces/actions"),
   browser_surface_snapshot |-> Shared("POST", "/browser/surfaces/snapshot"),
   browser_surface_action |-> Exclusive("POST", "/browser/surfaces/action"),
   tab_open |-> Exclusive("POST", "/tabs/open"), tab_close |-> Exclusive("POST", "/tabs/close"),
   tab_action |-> Exclusive("POST", "/tabs/action"),
   tab_snapshot |-> Shared("POST", "/tabs/snapshot"), tab_text |-> Shared("POST", "/tabs/text"),
   tab_screenshot |-> Shared("POST", "/tabs/screenshot"), tab_pdf |-> Shared("POST", "/tabs/pdf"),
   artifact_crop |-> Shared("POST", "/artifacts/crop"),
   artifact_crop_grid |-> Shared("POST", "/artifacts/crop-grid")]
RecordRows ==
  [artifact_list |-> Open("GET", "/artifacts"), artifact_handle |-> Open("GET", "/artifacts/:id"),
   artifact_verify |-> Open("GET", "/artifacts/verify"),
   capture_start_recording |-> Open("POST", "/capture/start"),
   capture_stop_recording |-> Open("POST", "/capture/stop"), run_list |-> Open("GET", "/runs"),
   scenario_list |-> Open("GET", "/scenarios"),
   scenario_summary |-> Open("GET", "/scenarios/summary"),
   scenario_gate |-> Open("GET", "/scenarios/gate"),
   scenario_run_detail |-> Open("GET", "/scenarios/:id"), events_tail |-> Open("GET", "/events"),
   replay_export |-> Open("POST", "/replay/export"),
   trace_capture |-> Shared("POST", "/trace/capture"),
   recording_capture |-> Shared("POST", "/recording/capture"),
   tool_catalog |-> Open("GET", "/tools"), generic_tool_dispatch |-> Open("POST", "/tools/:tool")]
lease_coverage_matrix == HostRows @@ BrowserRows @@ RecordRows

\* bootstrap_routes: the routes the daemon advertises.
ControlPaths ==
  {"/health", "/doctor", "/diagnose", "/capabilities/preflight", "/host/access/status",
   "/host/access/setup", "/profiles", "/profiles/create", "/instances", "/instances/start",
   "/instances/attach", "/instances/stop", "/leases", "/leases/acquire", "/leases/release",
   "/leases/transfer", "/tabs", "/tabs/actions", "/browser/surfaces", "/browser/surfaces/actions"}
RecordPaths ==
  {"/browser/surfaces/snapshot", "/browser/surfaces/action", "/tabs/open", "/tabs/close",
   "/tabs/action", "/tabs/snapshot", "/tabs/text", "/tabs/screenshot", "/tabs/pdf", "/artifacts",
   "/artifacts/verify", "/artifacts/crop", "/artifacts/crop-grid", "/artifacts/:id",
   "/capture/start", "/capture/stop", "/runs", "/scenarios", "/scenarios/summary",
   "/scenarios/gate", "/scenarios/:id", "/events", "/replay/export", "/trace/capture",
   "/recording/capture", "/tools", "/tools/:tool"}
bootstrap_routes == ControlPaths \cup RecordPaths

-----------------------------------------------------------------------------
(* CommandSet: the commands of the CLI and the flags they cannot be without.*)

HostCommands ==
  [serve |-> {}, browser_health |-> {}, diagnose |-> {}, capability_preflight |-> {},
   host_access_status |-> {}, host_access_setup |-> {}, profile_list |-> {},
   profile_create |-> {"name"}, instance_list |-> {}, instance_start |-> {},
   instance_attach |-> {"name", "cdp_url"}, instance_stop |-> {"instance_id"},
   tab_list |-> {"instance_id"}, browser_surface_list |-> {"instance_id"},
   browser_surface_list_actions |-> {"instance_id", "surface_id"},
   browser_surface_snapshot |-> {"instance_id"},
   browser_surface_action |-> {"instance_id", "action"}]
TabCommands ==
  [tab_open |-> {"instance_id", "url"}, tab_list_actions |-> {"instance_id", "tab_id"},
   tab_close |-> {"tab_id"}, tab_action |-> {"tab_id", "kind"}, lease_status |-> {},
   lease_acquire |-> {"instance_id", "holder_id"}, lease_release |-> {"instance_id", "holder_id"},
   lease_transfer |-> {"instance_id", "from_holder_id", "to_holder_id"},
   tab_snapshot |-> {"tab_id"}, tab_text |-> {"tab_id"}, tab_screenshot |-> {"tab_id"},
   tab_pdf |-> {"tab_id"}]
RecordCommands ==
  [artifact_list |-> {}, artifact_verify |-> {"artifact_id"},
   artifact_crop |-> {"artifact_id", "x_min", "y_min", "x_max", "y_max"},
   artifact_crop_grid |-> {"artifact_id", "rows", "cols"}, capture_start_recording |-> {},
   capture_stop_recording |-> {}, events_tail |-> {}, run_list |-> {}, scenario_list |-> {},
   scenario_summary |-> {}, scenario_gate |-> {}, scenario_run_detail |-> {"run_id"},
   scenario_record_run |-> {"name", "family", "version", "surface"},
   scenario_record_step |-> {"run_id", "name", "kind"},
   scenario_record_assertion |-> {"run_id", "name", "status"},
   scenario_record_latency |-> {"run_id", "metric", "sample_ms"},
   scenario_finish_step |-> {"step_id", "status"}, scenario_finish_run |-> {"run_id", "status"},
   replay_export |-> {}, trace_capture |-> {"tab_id"}, recording_capture |-> {"tab_id"},
   sample_ids |-> {}]
CommandSet == HostCommands @@ TabCommands @@ RecordCommands

\* main: the arguments each arm puts into the call of its tool.
MainHost ==
  [capability_preflight |-> {"capability"}, host_access_status |-> {},
   host_access_setup |-> {"mode", "services", "open_settings_on_missing"},
   profile_create |-> {"name", "channel"},
   instance_start |-> {"name", "channel", "headless", "holder_id"},
   instance_attach |-> {"name", "cdp_url", "holder_id"},
   instance_stop |-> {"instance_id", "holder_id"}]
MainBrowser ==
  [tab_list |-> {"instance_id", "holder_id"},
   browser_surface_list |-> {"instance_id", "holder_id"},
   browser_surface_list_actions |-> {"instance_id", "surface_id", "holder_id"},
   browser_surface_snapshot |-> {"instance_id", "root_surface_id", "holder_id"},
   browser_surface_action |-> {"instance_id", "action", "surface_id", "value", "key_sequence", "execution_channel", "allow_takeover", "holder_id"},
   tab_open |-> {"instance_id", "url", "holder_id"},
   tab_list_actions |-> {"instance_id", "tab_id", "holder_id"}]
MainTabs ==
  [tab_close |-> {"tab_id", "holder_id"},
   tab_action |-> {"tab_id", "kind", "ref", "selector", "url", "timeout_ms", "expression", "text", "value", "key", "holder_id"},
   lease_status |-> {"instance_id"},
   lease_acquire |-> {"instance_id", "holder_id", "holder_label", "mode", "ttl_seconds"},
   lease_release |-> {"instance_id", "holder_id", "mode"},
   lease_transfer |-> {"instance_id", "from_holder_id", "to_holder_id", "to_holder_label", "ttl_seconds"},
   tab_snapshot |-> {"tab_id", "holder_id"}, tab_text |-> {"tab_id", "holder_id"},
   tab_screenshot |-> {"tab_id", "holder_id", "full_page"}, tab_pdf |-> {"tab_id", "holder_id"}]
MainRecords ==
  [artifact_list |-> {"instance_id", "run_id"}, artifact_verify |-> {"artifact_id"},
   artifact_crop |-> {"artifact_id", "x_min", "y_min", "x_max", "y_max", "page_index", "holder_id"},
   artifact_crop_grid |-> {"artifact_id", "rows", "cols", "overlap", "page_index", "holder_id"},
   capture_start_recording |-> {}, capture_stop_recording |-> {},
   events_tail |-> {"run_id", "limit"}, run_list |-> {"limit"},
   scenario_list |-> {"family", "limit"}, scenario_summary |-> {"family", "limit"},
   scenario_gate |-> {"family", "limit", "min_runs", "allowed_statuses", "max_assertion_failures", "min_samples_per_metric", "max_latest_age_minutes", "threshold_name", "threshold_metric", "max_ms", "p50_ms", "p95_ms", "p99_ms"},
   scenario_run_detail |-> {"run_id"}]
MainCaptures ==
  [replay_export |-> {"run_id", "mode"},
   trace_capture |-> {"tab_id", "duration_ms", "categories", "holder_id"},
   recording_capture |-> {"tab_id", "duration_ms", "interval_ms", "holder_id"}]
Sends == MainHost @@ MainBrowser @@ MainTabs @@ MainRecords @@ MainCaptures

\* main: the commands that call the scenario recorder or the store themselves.
MainRecorders ==
  [scenario_record_run |-> {"name", "family", "version", "surface"},
   scenario_record_step |-> {"run_id", "name", "kind", "command_line"},
   scenario_record_assertion |->
     {"run_id", "step_id", "name", "expected", "actual", "status", "failure_category", "notes"},
   scenario_record_latency |-> {"run_id", "step_id", "metric", "sample_ms", "capture_method"},
   scenario_finish_step |-> {"step_id", "status", "error_code"}, scenario_finish_run |-> {"run_id", "status"}]
Direct == {"browser_health", "diagnose", "profile_list", "instance_list", "serve", "sample_ids"}

=============================================================================
