--------------------------- MODULE NativeSurfaces ---------------------------
(***************************************************************************)
(* The browser's own windows and controls, reached through macOS: what the *)
(* host allows (host_access_status, host_access_setup), what can be done to*)
(* a surface (browser_surface_list_actions) and doing it                   *)
(* (browser_surface_action), each by a run of the bridge.  Meanwhile the   *)
(* user grants and revokes permissions, controls come and go and the focus *)
(* moves.  One operation at a time: operations meet only through what the  *)
(* user does as well.                                                      *)
(***************************************************************************)
EXTENDS Naturals, Sequences, FiniteSets

CONSTANTS
  AskedLists,      \* lists of services that setups are asked for
  InitialGrants,   \* sets of services granted at first
  InitialRoles,    \* of the control at first
  Requests,        \* actions asked for
  MaxChanges       \* bound: changes by the user and failing bridges

VARIABLES
  granted,         \* services the host grants
  allowed,         \* the capability policy allows what it may gate
  running,         \* the browser runs
  managed,         \* its row has a pid
  role,            \* path -> role of the control there, or "none"
  focused,         \* the path that has the focus, or "elsewhere"
  native,          \* the operation that runs
  reply,           \* answer to the last one (history: with what it did)
  catalog,         \* the last listing of actions and whether all is as it was then (history)
  seen,            \* services granted at some time since the operation began (history)
  changes

surfaces == <<granted, allowed, running, managed, role, focused, native, reply, catalog, seen, changes>>
host == <<granted, allowed, running, managed, role, focused>>

Events == {"apple_events_own", "apple_events_other"}
\* Screen capture and developer tools are read and asked for as listen_event is.
Services == {"accessibility", "listen_event"} \cup Events
Channels == {"ax_direct", "apple_events_activation", "app_scoped_key_post", "global_takeover", "cdp"}
SurfaceActionKind == {"press", "focus", "confirm", "set_value", "key_sequence", "scroll", "raise"}
Paths == {"root", "control"}
Roles == {"app", "window", "button", "text", "plain", "hidden", "none"}

-----------------------------------------------------------------------------
(* Host access. *)

Unavailable == [s \in Services |-> "unknown"]
\* Reading asks nobody: consent to Apple Events cannot be read.
read_status ==
  [s \in Services |-> IF s \in Events THEN "unknown" ELSE IF s \in granted THEN "granted" ELSE "missing"]
\* Mutant: the status is read once more and reported as it is.
StatusAlone(status, steps) == status
apply_setup_steps(status, steps) == [s \in Services |-> IF s \in DOMAIN steps THEN steps[s] ELSE status[s]]
recommended_services(status) == {s \in Services : status[s] \notin {"granted", "unsupported"}}

\* refresh_host_access_status: System Events are never probed, so no takeover is ready.
automation_granted(status) == \E s \in Events : status[s] = "granted"
ChannelReady(status, channel) ==
  CASE channel \in {"ax_direct", "app_scoped_key_post"} -> status["accessibility"] = "granted"
    [] channel = "apple_events_activation" -> automation_granted(status)
    [] channel = "global_takeover" -> FALSE
    [] OTHER -> TRUE

-----------------------------------------------------------------------------
(* The catalogue of the runtime, and the table of the bridge. *)

Path(channel, level) == [channel |-> channel, level |-> level]
surface_action_paths(action) ==
  CASE action \in {"press", "focus", "set_value"} ->
         <<Path("ax_direct", "background_safe"), Path("apple_events_activation", "app_takeover")>>
    [] action = "confirm" ->
         <<Path("ax_direct", "background_safe"), Path("apple_events_activation", "app_takeover"),
           Path("app_scoped_key_post", "background_safe"), Path("global_takeover", "global_takeover")>>
    [] action = "key_sequence" ->
         <<Path("app_scoped_key_post", "background_safe"), Path("global_takeover", "global_takeover")>>
    [] action = "raise" -> <<Path("ax_direct", "app_takeover")>>
    [] OTHER -> <<Path("ax_direct", "background_safe")>>
surface_action_runtime_supported(action) == action \notin {"scroll", "raise"}
\* Mutant: what the runtime supports is available.
Supported(action, status) == surface_action_runtime_supported(action)
Available(action, status) ==
  /\ surface_action_runtime_supported(action)
  /\ \E i \in DOMAIN surface_action_paths(action) : ChannelReady(status, surface_action_paths(action)[i].channel)

supports_actions(r) ==
  CASE r = "button" -> {"press", "confirm"}
    [] r = "text" -> {"set_value"}
    [] r \in {"app", "window"} -> {"key_sequence", "focus", "confirm"}
    [] OTHER -> {"focus"}

\* Mutant: keys come before activation.
KeysFirst(requested, action) ==
  IF requested # "none" THEN <<requested>>
  ELSE CASE action \in {"press", "focus", "set_value"} -> <<"ax_direct", "apple_events_activation">>
         [] action = "confirm" -> <<"ax_direct", "app_scoped_key_post", "apple_events_activation", "global_takeover">>
         [] action = "key_sequence" -> <<"app_scoped_key_post", "global_takeover">>
         [] OTHER -> <<"ax_direct">>
\* Mutant: confirming is tried through the page at last.
PageAtLast(requested, action) ==
  KeysFirst(requested, action) \o (IF requested = "none" /\ action = "confirm" THEN <<"cdp">> ELSE <<>>)
preferred_channels(requested, action) ==
  IF requested # "none" THEN <<requested>>
  ELSE CASE action \in {"press", "focus", "set_value"} -> <<"ax_direct", "apple_events_activation">>
         [] action = "confirm" -> <<"ax_direct", "apple_events_activation", "app_scoped_key_post", "global_takeover">>
         [] action = "key_sequence" -> <<"app_scoped_key_post", "global_takeover">>
         [] OTHER -> <<"ax_direct">>
interference_level(channel) ==
  CASE channel = "apple_events_activation" -> "app_takeover"
    [] channel = "global_takeover" -> "global_takeover"
    [] OTHER -> "background_safe"
took_focus(channel) == channel \in {"apple_events_activation", "global_takeover"}

\* Not naming allow_takeover allows it, in the runtime and in the bridge.
\* Mutant: only a request that names it needs the grant.
TakeoverNamed(request) == request.takeover = "yes"
browser_surface_action_requires_capability_grant(request) ==
  request.channel = "global_takeover" \/ request.takeover # "no"
AllowTakeover(request) == request.takeover # "no"

BrowserSurfaceActionRequest ==
  [path : Paths, action : SurfaceActionKind, channel : Channels \cup {"none"}, takeover : {"none", "yes", "no"},
   value : BOOLEAN, key : BOOLEAN]   \* value: one is given; key: none, or one that can be sent

ASSUME NativeAssumption ==
  /\ AskedLists \subseteq Seq(Services)
  /\ \A s \in InitialGrants : s \subseteq Services
  /\ InitialRoles \subseteq Roles \ {"app"}
  /\ Requests \subseteq BrowserSurfaceActionRequest
  /\ MaxChanges \in Nat

-----------------------------------------------------------------------------
AtRest == [kind |-> "idle"]
NoReply == [kind |-> "none"]
NoCatalog == [fresh |-> FALSE]

SurfaceInit ==
  /\ granted \in InitialGrants /\ allowed \in BOOLEAN /\ managed \in BOOLEAN
  /\ running = TRUE
  /\ role \in {[p \in Paths |-> IF p = "root" THEN "app" ELSE r] : r \in InitialRoles}
  /\ focused = "elsewhere"
  /\ native = AtRest /\ reply = NoReply /\ catalog = NoCatalog /\ seen = {} /\ changes = 0

BeginNative == seen' = granted /\ UNCHANGED <<host, reply, catalog, changes>>
Answer(r) == native' = AtRest /\ reply' = r
Refused(why) == Answer([kind |-> "failed", op |-> native, why |-> why])
\* The caller has read the answer.
AnswerRead ==
  /\ native = AtRest /\ reply # NoReply
  /\ reply' = NoReply /\ seen' = {}
  /\ UNCHANGED <<host, native, catalog, changes>>
BridgeFails == changes < MaxChanges /\ changes' = changes + 1

-----------------------------------------------------------------------------
(* host_access_setup. *)

host_access_setup(mode, asked) ==
  /\ BeginNative
  /\ native' = [kind |-> "setup", mode |-> mode, pc |-> "grant", todo |-> asked, asked |-> asked,
            before |-> Unavailable, steps |-> [s \in {} |-> "unknown"], prompted |-> {}]
InSetup(pc) == native.kind = "setup" /\ native.pc = pc
SetupGrant ==
  /\ InSetup("grant")
  /\ IF native.mode = "apply" /\ ~ allowed THEN Refused("capability")
     ELSE native' = [native EXCEPT !.pc = "before"] /\ UNCHANGED reply
  /\ UNCHANGED <<host, catalog, seen, changes>>
\* A bridge that fails leaves everything unknown.
SetupBefore ==
  /\ InSetup("before")
  /\ \/ native' = [native EXCEPT !.pc = "step", !.before = read_status] /\ UNCHANGED changes
     \/ native' = [native EXCEPT !.pc = "step"] /\ BridgeFails
  /\ UNCHANGED <<host, reply, catalog, seen>>
StepDone(s, state, prompts) ==
  native' = [native EXCEPT !.todo = Tail(@), !.prompted = @ \cup prompts,
                   !.steps = [x \in DOMAIN @ \cup {s} |-> IF x = s THEN state ELSE @[x]]]
SetupKnown ==
  /\ InSetup("step") /\ native.todo # <<>>
  /\ LET s == Head(native.todo)
     IN  /\ native.before[s] = "granted" \/ native.mode = "audit"
         /\ StepDone(s, native.before[s], {})
  /\ UNCHANGED <<host, reply, catalog, seen, changes>>
\* The user may grant what is requested there and then, also after the answer was made.
request_service ==
  /\ InSetup("step") /\ native.todo # <<>>
  /\ LET s == Head(native.todo)
     IN  /\ native.before[s] # "granted" /\ native.mode = "apply"
         /\ granted' \in {granted, granted \cup {s}}
         /\ \E state \in {"granted", "missing", "unsupported", "unknown"} :
              /\ state = "granted" => s \in granted'
              /\ s \notin Events => state \in {"granted", "missing"}
              /\ StepDone(s, state, {s})
  /\ seen' = seen \cup granted'
  /\ catalog' = IF granted' = granted THEN catalog ELSE NoCatalog
  /\ UNCHANGED <<allowed, running, managed, role, focused, reply, changes>>
RequestFails ==
  /\ InSetup("step") /\ native.todo # <<>> /\ native.mode = "apply" /\ native.before[Head(native.todo)] # "granted"
  /\ BridgeFails
  /\ Answer([kind |-> "failed", op |-> [native EXCEPT !.prompted = @ \cup {Head(native.todo)}], why |-> "bridge"])
  /\ UNCHANGED <<host, catalog, seen>>
SetupAfter ==
  /\ InSetup("step") /\ native.todo = <<>>
  /\ \E status \in {read_status, Unavailable} :
       /\ IF status = Unavailable THEN BridgeFails ELSE UNCHANGED changes
       /\ LET after == apply_setup_steps(status, native.steps)
          IN  Answer([kind |-> "set_up", op |-> native, after |-> after, recommended |-> recommended_services(after),
                      changed |-> {s \in Services : native.before[s] # after[s]}])
  /\ UNCHANGED <<host, catalog, seen>>

-----------------------------------------------------------------------------
(* browser_surface_list_actions: the surfaces first, the status after. *)

\* collect_surfaces: why it fails, and the paths it finds.  The pid of a browser that is
\* gone makes an application without controls.
Cannot ==
  IF "accessibility" \notin granted THEN "permission"
  ELSE IF ~ running /\ ~ managed THEN "not_running" ELSE "no"
Found == {p \in Paths : p = "root" \/ (running /\ role[p] # "none")}

browser_surface_list_actions(path) ==
  /\ BeginNative
  /\ native' = [kind |-> "list", pc |-> "collect", path |-> path, role |-> "none", moved |-> FALSE]
ListCollect ==
  /\ native.kind = "list" /\ native.pc = "collect"
  /\ \/ Refused("access")
     \/ Cannot # "no" /\ Refused(Cannot)
     \/ Cannot = "no" /\ (native.path \notin Found \/ role[native.path] = "hidden") /\ Refused("surface")
     \/ /\ Cannot = "no" /\ native.path \in Found /\ role[native.path] # "hidden"
        /\ native' = [native EXCEPT !.pc = "status", !.role = IF running THEN role[native.path] ELSE "hidden"]
        /\ UNCHANGED reply
  /\ UNCHANGED <<host, catalog, seen, changes>>
surface_action_contracts(status) ==
  [fresh |-> ~ native.moved, path |-> native.path,
   available |-> {a \in supports_actions(native.role) : Available(a, status)}]
ListStatus ==
  /\ native.kind = "list" /\ native.pc = "status"
  /\ \E status \in {read_status, Unavailable} :
       /\ IF status = Unavailable THEN BridgeFails ELSE UNCHANGED changes
       /\ catalog' = surface_action_contracts(status)
  /\ Answer([kind |-> "listed"])
  /\ UNCHANGED <<host, seen>>

-----------------------------------------------------------------------------
(* browser_surface_action: the channels in their order until one does it. *)

browser_surface_action(r) ==
  /\ BeginNative
  /\ native' = [kind |-> "act", pc |-> "grant", req |-> r, channels |-> <<>>, fallback |-> 0,
                effects |-> {}, moved |-> FALSE]
Acting(pc) == native.kind = "act" /\ native.pc = pc
ActGrant ==
  /\ Acting("grant")
  /\ \/ Refused("access")
     \/ browser_surface_action_requires_capability_grant(native.req) /\ ~ allowed /\ Refused("capability")
     \/ /\ ~ (browser_surface_action_requires_capability_grant(native.req) /\ ~ allowed)
        /\ native' = [native EXCEPT !.pc = "collect"] /\ UNCHANGED reply
  /\ UNCHANGED <<host, catalog, seen, changes>>
ActCollect ==
  /\ Acting("collect")
  /\ IF Cannot # "no" THEN Refused(Cannot)
     ELSE IF native.req.path \notin Found THEN Refused("surface")
     ELSE /\ native' = [native EXCEPT !.pc = "try",
                                      !.channels = preferred_channels(native.req.channel, native.req.action)]
          /\ UNCHANGED reply
  /\ UNCHANGED <<host, catalog, seen, changes>>

Channel == Head(native.channels)
Trying(channel) == Acting("try") /\ native.channels # <<>> /\ Channel = channel
\* On to the next channel, with what this one did.
NextChannel(counted, effects) ==
  /\ native' = [native EXCEPT !.pc = "try", !.channels = Tail(@), !.fallback = @ + counted, !.effects = @ \cup effects]
  /\ UNCHANGED reply
HasFocus == focused = native.req.path /\ ~ native.moved
\* The bridge's answer, and ensure_focus_result.
Done(target_focused, effects) ==
  IF native.req.action = "focus" /\ ~ target_focused THEN Refused("focus")
  ELSE Answer([kind |-> "acted", req |-> native.req, channel |-> Channel, level |-> interference_level(Channel),
               took_focus |-> took_focus(Channel), fallback |-> native.fallback,
               effects |-> native.effects \cup effects, truth |-> HasFocus])
\* A control that is gone refuses.
Obeys == IF native.moved \/ (~ running) THEN {FALSE} ELSE BOOLEAN

NoChannel == Acting("try") /\ native.channels = <<>> /\ Refused("action") /\ UNCHANGED <<host, catalog, seen, changes>>
ForbiddenChannel ==
  /\ Trying("global_takeover") /\ ~ AllowTakeover(native.req)
  /\ NextChannel(0, {})
  /\ UNCHANGED <<host, catalog, seen, changes>>
CdpChannel == Trying("cdp") /\ NextChannel(1, {}) /\ UNCHANGED <<host, catalog, seen, changes>>
Activate ==
  /\ Trying("apple_events_activation")
  /\ native' = [native EXCEPT !.pc = "element", !.effects = @ \cup {"activated"}]
  /\ UNCHANGED <<host, reply, catalog, seen, changes>>
OnElement == Trying("ax_direct") \/ Acting("element")
Element ==
  /\ OnElement /\ native.req.action # "focus"
  /\ \/ native.req.action = "set_value" /\ ~ native.req.value /\ Refused("value")
     \/ /\ native.req.action \in {"press", "confirm"} \/ (native.req.action = "set_value" /\ native.req.value)
        /\ \E ok \in Obeys : IF ok THEN Done(HasFocus, {"element"}) ELSE NextChannel(1, {})
     \/ native.req.action \in {"key_sequence", "scroll", "raise"} /\ NextChannel(1, {})
  /\ UNCHANGED <<host, catalog, seen, changes>>
\* Asked for the focus, a control may say yes and not have it.
FocusElement ==
  /\ OnElement /\ native.req.action = "focus"
  /\ \/ /\ TRUE \in Obeys
        /\ focused' \in {focused, native.req.path}
        /\ native' = [native EXCEPT !.pc = "check"] /\ UNCHANGED reply
     \/ NextChannel(1, {}) /\ UNCHANGED focused
  /\ UNCHANGED <<granted, allowed, running, managed, role, catalog, seen, changes>>
\* Mutant: the control's word is taken for it.
TakenAtItsWord == TRUE
surface_has_focus == HasFocus
CheckFocus ==
  /\ Acting("check")
  /\ IF surface_has_focus THEN Done(TRUE, {"element"}) ELSE NextChannel(1, {})
  /\ UNCHANGED <<host, catalog, seen, changes>>
AppKey ==
  /\ Trying("app_scoped_key_post")
  /\ IF native.req.key THEN Done(HasFocus, {"app_key"}) ELSE NextChannel(1, {})
  /\ UNCHANGED <<host, catalog, seen, changes>>
\* The application is activated before the key is looked at.
GlobalKey ==
  /\ Trying("global_takeover") /\ AllowTakeover(native.req)
  /\ IF native.req.action \notin {"confirm", "key_sequence"} THEN NextChannel(1, {})
     ELSE \/ native.req.key /\ Done(HasFocus, {"activated", "global_key"})
          \/ NextChannel(1, {"activated"})
  /\ UNCHANGED <<host, catalog, seen, changes>>

-----------------------------------------------------------------------------
(* The user. *)

Change == changes < MaxChanges /\ changes' = changes + 1 /\ UNCHANGED <<allowed, managed, reply>>
Toggle(s) ==
  /\ Change
  /\ granted' = IF s \in granted THEN granted \ {s} ELSE granted \cup {s}
  /\ seen' = IF native = AtRest THEN seen ELSE seen \cup granted'
  /\ catalog' = NoCatalog
  /\ UNCHANGED <<running, role, focused, native>>
Moved(o) == IF "moved" \in DOMAIN o THEN [o EXCEPT !.moved = TRUE] ELSE o
OnControl(o) == \/ o.kind = "list" /\ o.path = "control"
                \/ o.kind = "act" /\ o.req.path = "control"
\* Another control, or none, where one was.
Replace(r) ==
  /\ Change
  /\ role' = [role EXCEPT !["control"] = r] /\ r # "app"
  /\ focused' = IF focused = "control" THEN "elsewhere" ELSE focused
  /\ native' = IF OnControl(native) THEN Moved(native) ELSE native
  /\ catalog' = NoCatalog
  /\ UNCHANGED <<granted, running, seen>>
StartOrQuit ==
  /\ Change
  /\ running' = ~ running /\ focused' = "elsewhere"
  /\ native' = Moved(native) /\ catalog' = NoCatalog
  /\ UNCHANGED <<granted, role, seen>>
MoveFocus(f) ==
  /\ Change /\ focused # f /\ running /\ (f = "control" => role["control"] # "none")
  /\ focused' = f
  /\ UNCHANGED <<granted, running, role, native, catalog, seen>>

NativeOperations ==
  /\ native = AtRest /\ reply = NoReply
  /\ \/ \E mode \in {"audit", "apply"}, asked \in AskedLists : host_access_setup(mode, asked)
     \/ \E p \in Paths : browser_surface_list_actions(p)
     \/ \E r \in Requests : browser_surface_action(r)
NativeSteps ==
  \/ SetupGrant \/ SetupBefore \/ SetupKnown \/ request_service \/ RequestFails \/ SetupAfter
  \/ ListCollect \/ ListStatus \/ ActGrant \/ ActCollect
  \/ NoChannel \/ ForbiddenChannel \/ CdpChannel \/ Activate \/ Element \/ FocusElement \/ CheckFocus
  \/ AppKey \/ GlobalKey
User ==
  \/ \E s \in Services : Toggle(s)
  \/ \E r \in Roles : Replace(r)
  \/ \E f \in {"control", "root", "elsewhere"} : MoveFocus(f)
  \/ StartOrQuit
SurfaceNext == NativeOperations \/ NativeSteps \/ AnswerRead \/ User

SurfaceSpec == SurfaceInit /\ [][SurfaceNext]_surfaces

-----------------------------------------------------------------------------
SurfaceTypeOK ==
  /\ granted \subseteq Services /\ seen \subseteq Services
  /\ role \in [Paths -> Roles] /\ focused \in Paths \cup {"elsewhere"}
  /\ native.kind = "act" => native.req \in Requests /\ Len(native.channels) + native.fallback <= 4
  /\ native.kind = "setup" => native.prompted \subseteq Services
  /\ changes <= MaxChanges

\* Keys go to whatever has the keyboard only when the policy allows the capability and the
\* request does not forbid it: what the runtime takes a silent request to mean and what
\* the bridge takes it to mean must agree.
TakeoverGranted ==
  reply.kind = "acted" /\ "global_key" \in reply.effects => allowed /\ reply.req.takeover # "no"

\* An action without a channel of its own is done by the path that the catalogue lists at
\* the place of its fallbacks, with the interference listed there; actions listed as not
\* invocable are never done.  Focus that is said to be taken was taken, and an answer of
\* the first path that says it kept to the background did.  (After fallbacks, an answer
\* through an application's key says so although the application was activated before.)
CatalogKept ==
  reply.kind = "acted" =>
    LET paths == surface_action_paths(reply.req.action)
    IN  /\ reply.req.channel = "none" =>
             /\ surface_action_runtime_supported(reply.req.action)
             /\ reply.fallback < Len(paths)
             /\ paths[reply.fallback + 1] = Path(reply.channel, reply.level)
        /\ reply.took_focus => "activated" \in reply.effects
        /\ reply.fallback = 0 /\ reply.level = "background_safe" => "activated" \notin reply.effects

\* What was listed as available, with nothing changed since, fails only because the
\* lease or the policy refuses it, a value or key is not given, or the control does not
\* obey: neither for a permission nor for a surface that is not found.
AvailableHolds ==
  reply.kind = "failed" /\ reply.op.kind = "act" /\ catalog.fresh =>
    (reply.op.req.path = catalog.path /\ reply.op.req.action \in catalog.available =>
       reply.why \notin {"permission", "surface", "not_running"})

\* A surface that is said to be focused had the focus when the bridge looked, whatever
\* took it in between and whatever the control answered.
FocusHonest == reply.kind = "acted" /\ reply.req.action = "focus" => reply.truth

\* Nothing is requested in an audit or against the policy; a setup that fails half-way
\* asked for no service after the one that failed.  What is reported of a service asked
\* for is what its step found, also where a status cannot tell; what is granted by that
\* was granted at some time since the setup began and is not recommended again.
SetupHonest ==
  /\ reply.kind \in {"failed", "set_up"} /\ reply.op.kind = "setup" =>
       /\ reply.op.prompted # {} => allowed /\ reply.op.mode = "apply"
       /\ reply.op.prompted \subseteq {reply.op.asked[i] : i \in DOMAIN reply.op.asked}
  /\ reply.kind = "set_up" =>
       /\ \A i \in DOMAIN reply.op.asked :
            LET s == reply.op.asked[i]
            IN  /\ reply.after[s] = reply.op.steps[s]
                /\ reply.after[s] = "granted" => s \notin reply.recommended
       /\ \A s \in Services : reply.after[s] = "granted" => s \in seen

\* What is done to a surface is what the catalogue lists and the policy allows.
ActionsKept == SurfaceTypeOK /\ TakeoverGranted /\ CatalogKept

\* What is reported of the host and of the focus was so.
ReportsHonest == FocusHonest /\ SetupHonest

=============================================================================
