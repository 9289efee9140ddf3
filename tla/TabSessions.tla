----------------------------- MODULE TabSessions -----------------------------
(***************************************************************************)
(* The `tabs` table and the operations on tabs: list_tabs, open_tab,       *)
(* close_tab, tab_action and the captures (snapshot, text, screenshot,     *)
(* pdf, trace, recording), and what attach_instance and stop_instance do   *)
(* to the table, run by several processes on one store.                    *)
(*                                                                         *)
(* The table is a copy of what each browser last answered to /json/list.   *)
(* sync_tabs asks the browser, replaces the instance's rows in one         *)
(* transaction, and reads them back: three steps between which the browser *)
(* and the other processes move.  A session is opened at the websocket     *)
(* address a row holds; connect_tab_session refreshes the rows and tries   *)
(* once more when the browser no longer answers there.                     *)
(*                                                                         *)
(* The browser is external: pages open, close and change address when they *)
(* like.  A page to which another client is attached has no address.       *)
(* Whether a lease covers the call is LeaseCoordination's subject: here it *)
(* is granted or refused.                                                  *)
(***************************************************************************)
EXTENDS Naturals, Sequences

CONSTANTS
  Processes,    \* processes sharing the store
  Targets,      \* page targets, each with an id of its own
  HostOf,       \* target -> the instance whose browser shows it
  Addresses,    \* websocket addresses a page may answer at
  NoAddress,    \* the listing names none: "missing-websocket-for-..."
  MaxRequests,  \* bound: requests made, other than listings, and operations abandoned
  MaxChanges,   \* bound: what browsers do by themselves
  Idle          \* a process that serves no request

Instances == {HostOf[t] : t \in Targets}

ASSUME HostAssumption == HostOf \in [Targets -> Instances]
ASSUME AddressAssumption == NoAddress \notin Addresses
ASSUME BoundsAssumption == MaxRequests \in Nat /\ MaxChanges \in Nat
ASSUME IdleAssumption == Idle \notin Processes

VARIABLES
  up,         \* instances whose browser answers
  page,       \* target -> "new", "open" or "gone"
  address,    \* target -> where the page answers
  tabs,       \* instance -> its rows of the tabs table
  op,         \* per process: the operation it runs
  requests,   \* requests made and operations abandoned so far
  changes,    \* changes of the browsers so far
  disturbed,  \* history: processes whose last listing others have outdated
  cleared     \* history: instance -> how its last stop left the table

browser == <<up, page, address>>
vars == <<up, page, address, tabs, op, requests, changes, disturbed, cleared>>

\* A row; its id is made of the instance and the target, so either names it.
BrowserTab == [target : Targets, address : Addresses \cup {NoAddress}]

\* list_targets and tab_from_target: every page, with its address if it has one.
\* Mutant: the targets of whichever browser answers are taken for the instance's.
AnyListing(i) ==
  {[target |-> t, address |-> address[t]] : t \in {u \in Targets : page[u] = "open"}}
Listing(i) ==
  {[target |-> t, address |-> address[t]] :
     t \in {u \in Targets : HostOf[u] = i /\ page[u] = "open"}}

(***************************************************************************)
(* An operation is the sequence of steps still to take and what it has     *)
(* read: `listing`, the browser's answer not yet stored; `rows`, the rows  *)
(* read back by list_tabs; `tab`, the row whose address is to be tried.    *)
(* A refusal before anything is read or done changes nothing and has no    *)
(* step.                                                                   *)
(***************************************************************************)
SyncTabs == <<"targets", "replace", "rows">>
ListSteps == SyncTabs

\* Mutant: open_tab refreshes the rows before the tab is there.
SyncsFirst == SyncTabs \o <<"new", "activate", "opened">>
OpenSteps == <<"new", "activate">> \o SyncTabs \o <<"opened">>

CloseSteps == <<"known", "access", "close">> \o SyncTabs
CaptureSteps == <<"known", "access", "require", "connect", "evaluate">>
ActionSteps == <<"known", "access", "require", "connect">> \o SyncTabs \o <<"evaluate">>
AttachSteps == <<"targets", "access", "replace">>
StopSteps == <<"terminate", "clear">>

Labels == {"targets", "replace", "rows", "new", "activate", "opened", "known", "access",
           "require", "close", "connect", "reconnect", "evaluate", "terminate", "clear"}

Operation(steps, i, t) ==
  [steps |-> steps, instance |-> i, target |-> t, listing |-> {}, rows |-> {}, tab |-> {}]

Init ==
  /\ up = Instances
  /\ page \in [Targets -> {"new", "open"}]
  /\ address \in [Targets -> Addresses]
  /\ tabs = [i \in Instances |-> {}]
  /\ op = [p \in Processes |-> Idle]
  /\ requests = 0
  /\ changes = 0
  /\ disturbed = {}
  /\ cleared = [i \in Instances |-> "never"]

-----------------------------------------------------------------------------
(* The browsers, by themselves.                                            *)

Change == changes < MaxChanges /\ changes' = changes + 1 /\ UNCHANGED <<tabs, op, requests>>

PageOpens(t) ==
  /\ Change
  /\ HostOf[t] \in up /\ page[t] = "new"
  /\ page' = [page EXCEPT ![t] = "open"]
  /\ UNCHANGED <<up, address>>

PageCloses(t) ==
  /\ Change
  /\ page[t] = "open"
  /\ page' = [page EXCEPT ![t] = "gone"]
  /\ UNCHANGED <<up, address>>

\* The address drifts, another client attaches (NoAddress) or leaves again.
PageMoves(t, a) ==
  /\ Change
  /\ page[t] = "open" /\ a # address[t]
  /\ address' = [address EXCEPT ![t] = a]
  /\ UNCHANGED <<up, page>>

\* No page survives the exit of its browser.
Leave(i) ==
  /\ up' = up \ {i}
  /\ page' = [t \in Targets |-> IF HostOf[t] = i /\ page[t] = "open" THEN "gone" ELSE page[t]]
  /\ UNCHANGED address

Exits(i) == Change /\ i \in up /\ Leave(i)

Returns(i) == Change /\ i \notin up /\ up' = up \cup {i} /\ UNCHANGED <<page, address>>

-----------------------------------------------------------------------------
(* Requests.                                                               *)

Begin(p, o) == op[p] = Idle /\ op' = [op EXCEPT ![p] = o]

Ask(p, o) ==
  /\ Begin(p, o)
  /\ requests < MaxRequests
  /\ requests' = requests + 1
  /\ UNCHANGED <<browser, tabs, changes>>

ListTabs(p, i) ==
  /\ Begin(p, Operation(ListSteps, i, {}))
  /\ UNCHANGED <<browser, tabs, requests, changes>>

OpenTab(p, i) == Ask(p, Operation(OpenSteps, i, {}))
CloseTab(p, t) == Ask(p, Operation(CloseSteps, HostOf[t], {t}))
TabAction(p, t) == Ask(p, Operation(ActionSteps, HostOf[t], {t}))
Capture(p, t) == Ask(p, Operation(CaptureSteps, HostOf[t], {t}))
AttachInstance(p, i) == Ask(p, Operation(AttachSteps, i, {}))
StopInstance(p, i) == Ask(p, Operation(StopSteps, i, {}))

-----------------------------------------------------------------------------
(* Steps.                                                                  *)

At(p, label) == op[p] # Idle /\ Head(op[p].steps) = label

Continue(p, o) ==
  op' = [op EXCEPT ![p] = IF Tail(o.steps) = <<>> THEN Idle
                          ELSE [o EXCEPT !.steps = Tail(o.steps)]]
Answer(p) == op' = [op EXCEPT ![p] = Idle]

\* live_tabs_for_instance: without a browser the operation fails.
TargetsStep(p) ==
  /\ At(p, "targets")
  /\ LET i == op[p].instance
     IN  IF i \in up THEN Continue(p, [op[p] EXCEPT !.listing = Listing(i)]) ELSE Answer(p)
  /\ UNCHANGED <<browser, tabs, requests, changes>>

\* replace_tabs: the instance's rows make way for the listing.
\* Mutant: the listing is added to the rows that are there.
AddTabs(i, listing) ==
  [tabs EXCEPT ![i] = {r \in @ : \A x \in listing : x.target # r.target} \cup listing]
\* Mutant: the rows of every instance make way.
ReplaceAllTabs(i, listing) == [j \in Instances |-> IF j = i THEN listing ELSE {}]
replace_tabs(i, listing) == [tabs EXCEPT ![i] = listing]

ReplaceStep(p) ==
  /\ At(p, "replace")
  /\ tabs' = replace_tabs(op[p].instance, op[p].listing)
  /\ Continue(p, [op[p] EXCEPT !.listing = {}])
  /\ UNCHANGED <<browser, requests, changes>>

\* list_tabs of the store.  Nothing after tab_action's refresh depends on the rows:
\* the payload shows the tab's new row, or its old one when there is none.
RowsStep(p) ==
  /\ At(p, "rows")
  /\ LET o == op[p]
     IN  \/ o.steps = <<"rows", "evaluate">> /\ Continue(p, o)
         \/ /\ o.steps # <<"rows", "evaluate">>
            /\ Continue(p, [o EXCEPT !.rows = tabs[o.instance]])
  /\ UNCHANGED <<browser, tabs, requests, changes>>

\* The browser's open_tab, with the target it answers.
NewStep(p, t) ==
  /\ At(p, "new")
  /\ op[p].instance \in up
  /\ HostOf[t] = op[p].instance /\ page[t] = "new"
  /\ page' = [page EXCEPT ![t] = "open"]
  /\ Continue(p, [op[p] EXCEPT !.target = {t}])
  /\ UNCHANGED <<up, address, tabs, requests, changes>>

\* The browser is away, or opens no more pages (the bound on Targets).
NewFails(p) ==
  /\ At(p, "new")
  /\ op[p].instance \notin up \/ \A t \in Targets : HostOf[t] = op[p].instance => page[t] # "new"
  /\ Answer(p)
  /\ UNCHANGED <<browser, tabs, requests, changes>>

ActivateStep(p, t) ==
  /\ At(p, "activate")
  /\ t \in op[p].target
  /\ IF page[t] = "open" THEN Continue(p, op[p]) ELSE Answer(p)
  /\ UNCHANGED <<browser, tabs, requests, changes>>

\* The opened tab is looked up by its target among the rows.
OpenedStep(p) ==
  /\ At(p, "opened")
  /\ Answer(p)
  /\ UNCHANGED <<browser, tabs, requests, changes>>

\* require_tab: the row as it is now, or "unknown tab".  The first reading only
\* tells the instance; connect_tab_session reads again.
require_tab(t) == {r \in tabs[HostOf[t]] : r.target = t}

KnownStep(p, t) ==
  /\ At(p, "known")
  /\ t \in op[p].target
  /\ IF require_tab(t) = {} THEN Answer(p) ELSE Continue(p, op[p])
  /\ UNCHANGED <<browser, tabs, requests, changes>>

RequireStep(p, t) ==
  /\ At(p, "require")
  /\ t \in op[p].target
  /\ IF require_tab(t) = {} THEN Answer(p)
     ELSE Continue(p, [op[p] EXCEPT !.tab = require_tab(t)])
  /\ UNCHANGED <<browser, tabs, requests, changes>>

\* require_instance_access, and the lease_acquire of attach_instance.
AccessStep(p) ==
  /\ At(p, "access")
  /\ Continue(p, op[p]) \/ Answer(p)
  /\ UNCHANGED <<browser, tabs, requests, changes>>

\* The browser agrees to close the tab.  It may still list it for a while, or
\* keep it: then the page closes by itself, or not.
CloseStep(p, t) ==
  /\ At(p, "close")
  /\ t \in op[p].target
  /\ \/ /\ page[t] = "open"
        /\ page' = [page EXCEPT ![t] = "gone"]
        /\ Continue(p, op[p])
     \/ page[t] = "open" /\ UNCHANGED page /\ Continue(p, op[p])
     \/ page[t] # "open" /\ UNCHANGED page /\ Answer(p)
  /\ UNCHANGED <<up, address, tabs, requests, changes>>

\* Whether the browser answers at the address a row holds.
Connects(r) == page[r.target] = "open" /\ r.address = address[r.target] /\ r.address # NoAddress

\* connect_tab_session, first try.
ConnectStep(p, r) ==
  /\ At(p, "connect")
  /\ r \in op[p].tab
  /\ IF Connects(r) THEN Continue(p, [op[p] EXCEPT !.tab = {}])
     ELSE op' = [op EXCEPT ![p].steps = SyncTabs \o <<"reconnect">> \o Tail(@)]
  /\ UNCHANGED <<browser, tabs, requests, changes>>

\* The row the refresh found.
\* Mutant: the row of the first try is kept.
KeptTab(o) == {r \in o.tab : \E x \in o.rows : x.target = r.target}
RefreshedTab(o) == {r \in o.rows : r.target \in o.target}

\* connect_tab_session, second and last try: "unknown tab", a session or an error.
ReconnectStep(p) ==
  /\ At(p, "reconnect")
  /\ LET found == RefreshedTab(op[p])
     IN  IF \E r \in found : Connects(r)
         THEN Continue(p, [op[p] EXCEPT !.tab = {}, !.rows = {}])
         ELSE Answer(p)
  /\ UNCHANGED <<browser, tabs, requests, changes>>

\* The session is used; what it returns is not stored here.
EvaluateStep(p) ==
  /\ At(p, "evaluate")
  /\ Answer(p)
  /\ UNCHANGED <<browser, tabs, requests, changes>>

\* terminate_pid, then the probe: the stop fails while the browser answers.
TerminateStep(p) ==
  /\ At(p, "terminate")
  /\ LET i == op[p].instance
     IN  \/ i \in up /\ Leave(i) /\ Continue(p, op[p])
         \/ Answer(p) /\ UNCHANGED browser
  /\ UNCHANGED <<tabs, requests, changes>>

\* Mutant: the stopped instance keeps its rows.
KeepRows(i) == tabs
NoRows(i) == [tabs EXCEPT ![i] = {}]

ClearStep(p) ==
  /\ At(p, "clear")
  /\ tabs' = NoRows(op[p].instance)
  /\ Answer(p)
  /\ UNCHANGED <<browser, requests, changes>>

\* The process dies, or a statement fails: what is written stays.
Abandon(p) ==
  /\ op[p] # Idle
  /\ Answer(p)
  /\ requests < MaxRequests
  /\ requests' = requests + 1
  /\ UNCHANGED <<browser, tabs, changes>>

-----------------------------------------------------------------------------
Step(p) ==
  \/ TargetsStep(p) \/ ReplaceStep(p) \/ RowsStep(p) \/ NewFails(p) \/ OpenedStep(p)
  \/ AccessStep(p) \/ ReconnectStep(p) \/ EvaluateStep(p) \/ TerminateStep(p) \/ ClearStep(p)
  \/ \E t \in Targets : \/ NewStep(p, t) \/ ActivateStep(p, t) \/ KnownStep(p, t)
                        \/ RequireStep(p, t) \/ CloseStep(p, t)
  \/ \E r \in BrowserTab : ConnectStep(p, r)

Request(p) ==
  \/ \E i \in Instances : \/ ListTabs(p, i) \/ OpenTab(p, i) \/ AttachInstance(p, i)
                          \/ StopInstance(p, i)
  \/ \E t \in Targets : CloseTab(p, t) \/ TabAction(p, t) \/ Capture(p, t)

Browser ==
  \/ \E t \in Targets : \/ PageOpens(t) \/ PageCloses(t)
                        \/ \E a \in Addresses \cup {NoAddress} : PageMoves(t, a)
  \/ \E i \in Instances : Exits(i) \/ Returns(i)

Acts(p) == Step(p) \/ Request(p) \/ Abandon(p)

-----------------------------------------------------------------------------
(* History.  A process is disturbed when, since it last listed the         *)
(* targets, a browser or another process has touched the same instance.    *)
(* A stop is clean when no process held a listing of the instance.         *)

AfterListing == {"replace", "rows", "opened", "reconnect"}
Lists(p) == At(p, "targets")
Holding(i) == {p \in Processes : op[p] # Idle /\ op[p].instance = i /\ op[p].listing # {}}

Touched(actor, i) ==
  \/ Listing(i)' # Listing(i) \/ (i \in up') # (i \in up)
  \/ actor # Idle /\ op[actor] # Idle /\ op[actor].instance = i /\ tabs'[i] # tabs[i]

DisturbedBy(actor) ==
  disturbed' = {p \in Processes :
                  /\ op'[p] # Idle /\ Head(op'[p].steps) \in AfterListing
                  /\ ~ (p = actor /\ Lists(p))
                  /\ \/ p \in disturbed
                     \/ p # actor /\ op[p] # Idle /\ Touched(actor, op[p].instance)}

Cleared ==
  cleared' = [i \in Instances |->
    IF i \in up' THEN "never"
    ELSE IF \E p \in Processes : ClearStep(p) /\ op[p].instance = i
         THEN IF Holding(i) = {} THEN "clean" ELSE "raced"
         ELSE cleared[i]]

Next ==
  /\ \/ Browser /\ DisturbedBy(Idle)
     \/ \E p \in Processes : Acts(p) /\ DisturbedBy(p)
  /\ Cleared

Spec == Init /\ [][Next]_vars

-----------------------------------------------------------------------------
(* Properties.                                                             *)

\* Types: rows belong to the instance they are stored under.
TypeOK ==
  /\ up \subseteq Instances
  /\ page \in [Targets -> {"new", "open", "gone"}]
  /\ address \in [Targets -> Addresses \cup {NoAddress}]
  /\ tabs \in [Instances -> SUBSET BrowserTab]
  /\ \A i \in Instances : \A r \in tabs[i] : HostOf[r.target] = i
  /\ \A p \in Processes : op[p] # Idle =>
       /\ op[p].steps # <<>> /\ \A n \in DOMAIN op[p].steps : op[p].steps[n] \in Labels
       /\ op[p].instance \in Instances /\ op[p].target \subseteq Targets
       /\ op[p].listing \subseteq BrowserTab /\ op[p].rows \subseteq BrowserTab
       /\ op[p].tab \subseteq BrowserTab
  /\ requests \in 0 .. MaxRequests /\ changes \in 0 .. MaxChanges

\* "action and capture paths now retry tab websocket recovery once after a tab
\* refresh when persisted target websockets drift": one retry is enough.  When
\* connect_tab_session tries again, and since its refresh neither the browser
\* nor another process has touched the instance, a page that is open and has an
\* address is connected to, whatever happened before the refresh.
RecoversSession ==
  \A p \in Processes : \A t \in Targets :
    (At(p, "reconnect") /\ t \in op[p].target /\ p \notin disturbed
       /\ page[t] = "open" /\ address[t] # NoAddress)
    => \E r \in RefreshedTab(op[p]) : Connects(r)

\* open_tab does not answer "opened tab not found in runtime state" for a tab
\* that is there, unless someone touched the instance during its refresh.
OpenedTabListed ==
  \A p \in Processes : \A t \in Targets :
    (At(p, "opened") /\ t \in op[p].target /\ p \notin disturbed /\ page[t] = "open")
    => \E r \in op[p].rows : r.target = t

\* stop_instance leaves no tabs behind: while the browser stays away no later
\* listing can bring rows back, unless one was already under way at the stop.
StoppedHasNoTabs == \A i \in Instances : cleared[i] = "clean" => tabs[i] = {}

\* Whatever stale rows the table had, and however operations interleave on other
\* instances, a refresh that nobody disturbs leaves exactly the pages that the
\* browser shows, each at its address.
SyncExact ==
  \A p \in Processes :
    At(p, "rows") /\ p \notin disturbed => tabs[op[p].instance] = Listing(op[p].instance)

\* The rows are rows of tabs, and a refresh that nobody disturbs makes them exact.
TabsInv == TypeOK /\ SyncExact

=============================================================================
