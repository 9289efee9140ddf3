---------------------------- MODULE CdpTransport ----------------------------
(***************************************************************************)
(* One CDP session with the page of a tab, from connecting to the end of   *)
(* the operation it was opened for.  The session sends one request at a    *)
(* time and reads the socket until the answer with its id arrives; events, *)
(* pings and late answers come in between, a text may not be JSON, the     *)
(* browser may refuse a request, answer without what was asked for, or     *)
(* close the socket, and the page loads new documents by itself.           *)
(* Captures and navigations run with animations suppressed: a media        *)
(* override, a script for new documents and a style in the current one,    *)
(* all of which the session takes back.  A label names the request that is *)
(* made next or awaited.                                                   *)
(***************************************************************************)
EXTENDS Naturals, Sequences

CONSTANTS
  Ops,             \* operations sessions are opened for
  Chunks,          \* pieces of a trace
  expected_frames, \* frames of a recording
  MaxFaults,       \* bound: refusals, lacking answers, texts that are no JSON, closings
  MaxNoise,        \* bound: events and pings
  MaxLoads,        \* bound: documents the page loads by itself
  MaxPolls         \* times navigate sleeps before its deadline, at most

ASSUME CdpAssumption ==
  /\ Ops \subseteq {"evaluate", "navigate", "screenshot", "full_page", "pdf", "recording", "trace"}
  /\ Chunks \in Nat \ {0} /\ expected_frames \in Nat \ {0}
  /\ MaxFaults \in Nat /\ MaxNoise \in Nat /\ MaxLoads \in Nat /\ MaxPolls \in Nat

VARIABLES
  s,               \* the session and the operation's result
  pending,         \* sent, not served
  inbox,           \* sent by the browser, not read
  open,            \* the socket
  document,        \* what the requests change in the page
  late,            \* the deadline of navigate has passed
  faults, noise, loads,
  seen             \* what happened at the browser, and the last answer taken (history)

session_vars == <<s, pending, inbox, open, document, late, faults, noise, loads, seen>>

\* Requests whose answer call() may return although the caller then refuses it: an exception
\* of Runtime.evaluate, an identifier, a size, a picture or an errorText instead of a page.
Inspected == {"hook_on", "apply", "goto", "ready", "url", "metrics", "capture", "print", "clear", "eval"}
Setup == {"motion_on", "hook_on", "apply"}
Cleanup == {"clear", "hook_off", "motion_off"}
Traced == {"trace_start", "trace_end", "read", "io_close"}
SessionLabels == Inspected \cup Setup \cup Cleanup \cup Traced \cup {"enable", "done"}
Suppressing == {"navigate", "screenshot", "full_page", "pdf", "recording"}

SessionInit ==
  /\ \E op \in Ops :
       s = [op |-> op, awaited |-> 0, next_id |-> 1, known |-> FALSE, frames |-> 0, polls |-> 0, bytes |-> <<>>,
            failed |-> FALSE, unclean |-> FALSE,
            at |-> CASE op = "evaluate" -> "eval" [] op = "trace" -> "trace_start" [] OTHER -> "motion_on"]
  /\ pending = <<>> /\ inbox = <<>> /\ open = TRUE
  /\ document = [motion |-> FALSE, hook |-> FALSE, style |-> FALSE, ready |-> "complete", stream |-> 1]
  /\ late = FALSE /\ faults = 0 /\ noise = 0 /\ loads = 0
  /\ seen = [asked |-> "none", answered |-> "none", arrived |-> FALSE, moving |-> FALSE,
             slipped |-> FALSE, cleared |-> FALSE, pictures |-> 0]

-----------------------------------------------------------------------------
(* The session's control. *)

To(t, label) == [t EXCEPT !.at = label, !.awaited = 0]

OperationStart(op) ==
  CASE op = "navigate" -> "enable" [] op = "full_page" -> "metrics" [] op = "pdf" -> "print" [] OTHER -> "capture"

\* Mutant: only the current document is suppressed.
OnlyCurrentDocument(t) == {To(t, "apply")}
AfterOverride(t) == {To(t, "hook_on")}

\* clear_animation_suppression_state goes on after each of its errors.
\* Mutant: the script for new documents stays registered.
ForgetsScript(t) == {To(t, "motion_off")}
AfterClear(t) == {To(t, IF t.known THEN "hook_off" ELSE "motion_off")}
\* A recording takes its next frame unless its time is over.
AfterCleanup(t) ==
  IF t.op = "recording" /\ ~ t.failed /\ ~ t.unclean /\ t.frames < expected_frames
  THEN {To([t EXCEPT !.known = FALSE], "motion_on"), To(t, "done")} ELSE {To(t, "done")}
CleanupGoesOn(t) ==
  CASE t.at = "clear" -> AfterClear(t)
    [] t.at = "hook_off" -> {To(t, "motion_off")}
    [] t.at = "motion_off" -> AfterCleanup(t)

\* The call failed, or its answer was refused.  Whatever fails after the first request,
\* the cleanup follows; a page that cannot say its state is asked again until the deadline.
\* Mutant: an operation that fails returns at once.
ReturnsAtOnce(t) == {To([t EXCEPT !.failed = TRUE], "done")}
FailOperation(t) == {To([t EXCEPT !.failed = TRUE], IF t.op \in Suppressing THEN "clear" ELSE "done")}
\* Mutant: a state that cannot be read counts as complete.
TakeAsComplete(t) == {To(t, "url")}
NotReady(t) ==
  IF late \/ t.polls = MaxPolls THEN {To([t EXCEPT !.failed = TRUE], "url")}
  ELSE {To([t EXCEPT !.polls = @ + 1], "ready")}
Failed(t) ==
  CASE t.at = "motion_on" -> {To([t EXCEPT !.failed = TRUE], "done")}
    [] t.at \in Cleanup -> CleanupGoesOn([t EXCEPT !.unclean = TRUE])
    [] t.at = "ready" -> NotReady(t)
    [] t.at = "url" -> {To(t, "clear")}
    [] t.at = "io_close" -> {To(t, "done")}
    [] OTHER -> FailOperation(t)

\* Mutant: the piece that says it is the last one is not kept.
DropsLast(t, piece) == IF piece = Chunks THEN t.bytes ELSE Append(t.bytes, piece)
Collected(t, piece) == Append(t.bytes, piece)
\* Mutant: only an empty piece is taken for the end.
ReadsOn(piece) == piece > Chunks
eof(piece) == piece = Chunks
Succeeded(t, message) ==
  CASE t.at = "motion_on" -> AfterOverride(t)
    [] t.at = "hook_on" -> {To([t EXCEPT !.known = TRUE], "apply")}
    [] t.at = "apply" -> {To(t, OperationStart(t.op))}
    [] t.at = "enable" -> {To(t, "goto")}
    [] t.at = "goto" -> {To(t, "ready")}
    [] t.at = "ready" -> IF message.readyState = "complete" THEN {To([t EXCEPT !.failed = late], "url")} ELSE NotReady(t)
    [] t.at = "metrics" -> {To(t, "capture")}
    [] t.at \in {"capture", "print"} -> {To([t EXCEPT !.frames = @ + 1], "clear")}
    [] t.at = "url" -> {To(t, "clear")}
    [] t.at \in Cleanup -> CleanupGoesOn(t)
    [] t.at = "trace_start" -> {To(t, "trace_end")}
    [] t.at = "read" -> {To([t EXCEPT !.bytes = Collected(t, message.piece)],
                            IF eof(message.piece) THEN "io_close" ELSE "read")}
    [] OTHER -> {To(t, "done")}

-----------------------------------------------------------------------------
(* The session's steps. *)

send_request ==
  /\ s.at # "done" /\ s.awaited = 0
  /\ s' = [s EXCEPT !.awaited = s.next_id, !.next_id = @ + 1]
  /\ pending' = IF open THEN Append(pending, [id |-> s.next_id, method |-> s.at]) ELSE pending
  /\ UNCHANGED <<inbox, open, document, late, faults, noise, loads, seen>>

\* Mutant: the first answer is taken for the one awaited.
AnyAnswer(message) == message.kind = "answer"
IsAnswer(message) == message.kind = "answer" /\ message.id = s.awaited

\* Mutant: while it waits for the trace, an answer is passed over whatever it says.
RefusedButTracing(message) == message.outcome = "error" /\ s.at # "trace_end"
Refused(message) == message.outcome = "error"
\* The answer of Tracing.end is passed over unless it is an error; the event ends the wait.
TakenAnswer(message) ==
  IF Refused(message) \/ (message.outcome = "lacking" /\ s.at # "trace_end") THEN Failed(s)
  ELSE IF s.at = "trace_end" THEN {s} ELSE Succeeded(s, message)
Taken(message) ==
  CASE IsAnswer(message) -> TakenAnswer(message)
    [] message.kind = "tracingComplete" /\ s.at = "trace_end" ->
         IF message.outcome = "lacking" THEN Failed(s) ELSE {To(s, "read")}
    [] message.kind = "no_json" -> Failed(s)
    [] OTHER -> {s}
Read ==
  /\ s.awaited # 0 /\ inbox # <<>>
  /\ s' \in Taken(Head(inbox))
  /\ inbox' = Tail(inbox)
  /\ seen' = IF IsAnswer(Head(inbox)) THEN [seen EXCEPT !.asked = s.at, !.answered = Head(inbox).method] ELSE seen
  /\ UNCHANGED <<pending, open, document, late, faults, noise, loads>>

\* The socket is closed: reading, and every later call, fails.
ReadClosed ==
  /\ s.awaited # 0 /\ inbox = <<>> /\ ~ open
  /\ s' \in Failed(s)
  /\ UNCHANGED <<pending, inbox, open, document, late, faults, noise, loads, seen>>

-----------------------------------------------------------------------------
(* The browser and the page. *)

Message(kind, request, outcome) ==
  [kind |-> kind, id |-> request.id, method |-> request.method, outcome |-> outcome,
   readyState |-> IF request.method = "ready" THEN document.ready ELSE "none",
   piece |-> IF request.method = "read" THEN document.stream ELSE 0]
Unasked == [id |-> 0, method |-> "none"]

Load(p) == [p EXCEPT !.style = p.hook, !.ready = "loading"]
Effect(p, method) ==
  CASE method = "motion_on" -> [p EXCEPT !.motion = TRUE]
    [] method = "motion_off" -> [p EXCEPT !.motion = FALSE]
    [] method = "hook_on" -> [p EXCEPT !.hook = TRUE]
    [] method = "hook_off" -> [p EXCEPT !.hook = FALSE]
    [] method = "apply" -> [p EXCEPT !.style = TRUE]
    [] method = "clear" -> [p EXCEPT !.style = FALSE]
    [] method = "goto" -> Load(p)
    [] method = "read" -> [p EXCEPT !.stream = @ + 1]
    [] OTHER -> p

Observed(method, outcome) ==
  [seen EXCEPT !.arrived = @ \/ (method = "ready" /\ outcome = "ok" /\ document.ready = "complete"),
               !.moving = @ \/ (method \in {"capture", "print"} /\ ~ (document.style /\ document.motion)),
               !.cleared = (@ \/ method = "clear") /\ method # "hook_on",
               !.pictures = IF method \in {"capture", "print"} /\ outcome = "ok" THEN @ + 1 ELSE @]

\* Requests are served in order.  A refused one has no effect; an exception may come
\* before or after the effect.
Serve ==
  /\ pending # <<>> /\ open
  /\ LET request == Head(pending)
         method == request.method
     IN  \E outcome \in {"ok", "error"} \cup (IF method \in Inspected THEN {"lacking"} ELSE {}),
            effect \in BOOLEAN :
         /\ outcome # "ok" => faults < MaxFaults
         /\ outcome = "ok" => effect
         /\ outcome = "error" => ~ effect
         /\ outcome = "lacking" /\ method \notin {"apply", "clear"} => effect
         /\ faults' = IF outcome = "ok" THEN faults ELSE faults + 1
         /\ document' = IF effect THEN Effect(document, method) ELSE document
         /\ seen' = Observed(method, outcome)
         /\ LET answer == Message("answer", request, outcome)
                complete == Message("tracingComplete", Unasked, "ok")
            IN  IF method = "trace_end" /\ outcome = "ok"
                THEN inbox' \in {inbox \o <<answer, complete>>, inbox \o <<complete, answer>>}
                ELSE inbox' = Append(inbox, answer)
  /\ pending' = Tail(pending)
  /\ UNCHANGED <<s, open, late, noise, loads>>

\* Events, pings and binary frames, at any time; as a fault, a text that is no JSON and a
\* tracingComplete without a stream.
Speak ==
  /\ open /\ s.at # "done"
  /\ \/ /\ noise < MaxNoise /\ noise' = noise + 1 /\ UNCHANGED faults
        /\ inbox' = Append(inbox, Message("event", Unasked, "ok"))
     \/ /\ faults < MaxFaults /\ faults' = faults + 1 /\ UNCHANGED noise
        /\ \/ inbox' = Append(inbox, Message("no_json", Unasked, "ok"))
           \/ s.at = "trace_end" /\ inbox' = Append(inbox, Message("tracingComplete", Unasked, "lacking"))
  /\ UNCHANGED <<s, pending, open, document, late, loads, seen>>

\* With the socket the browser drops what belongs to the session; the style stays.  The
\* browser closes it at any time, the end of the operation always.
Close ==
  /\ open /\ open' = FALSE
  /\ IF s.at = "done" THEN UNCHANGED faults ELSE faults < MaxFaults /\ faults' = faults + 1
  /\ pending' = <<>>
  /\ document' = [document EXCEPT !.motion = FALSE, !.hook = FALSE]
  /\ UNCHANGED <<s, inbox, late, noise, loads, seen>>

LoadsDocument ==
  /\ loads < MaxLoads /\ loads' = loads + 1
  /\ document' = Load(document)
  /\ seen' = [seen EXCEPT !.slipped = @ \/ (seen.cleared /\ document.hook)]
  /\ UNCHANGED <<s, pending, inbox, open, late, faults, noise>>
Loaded ==
  /\ document.ready = "loading"
  /\ document' = [document EXCEPT !.ready = "complete"]
  /\ UNCHANGED <<s, pending, inbox, open, late, faults, noise, loads, seen>>
Deadline ==
  /\ s.op = "navigate" /\ s.at # "done" /\ ~ late
  /\ late' = TRUE
  /\ UNCHANGED <<s, pending, inbox, open, document, faults, noise, loads, seen>>

Session == send_request \/ Read \/ ReadClosed
SessionNext == Session \/ Serve \/ Speak \/ Close \/ LoadsDocument \/ Loaded \/ Deadline

\* The session runs and the browser serves what it received.  Nothing makes the page
\* finish loading, and nothing but the polls makes the deadline pass.
SessionSpec == SessionInit /\ [][SessionNext]_session_vars /\ WF_session_vars(Session) /\ WF_session_vars(Serve)

-----------------------------------------------------------------------------
SessionTypeOK ==
  /\ s \in [op : Ops, awaited : Nat, next_id : Nat \ {0}, known : BOOLEAN, frames : Nat, polls : Nat,
            bytes : Seq(1 .. Chunks),
            failed : BOOLEAN, unclean : BOOLEAN, at : SessionLabels]
  /\ pending \in Seq([id : Nat, method : SessionLabels])
  /\ document \in [motion : BOOLEAN, hook : BOOLEAN, style : BOOLEAN, ready : {"loading", "complete"},
               stream : 1 .. Chunks + 1]
  /\ open \in BOOLEAN /\ late \in BOOLEAN
  /\ faults <= MaxFaults /\ noise <= MaxNoise /\ loads <= MaxLoads

Reported == s.at = "done" /\ ~ s.failed /\ ~ s.unclean

\* However many events and late answers lie between, a call never takes the answer to
\* another request for its own.
OwnAnswers == seen.asked = seen.answered

\* A successful operation took back the override, the script and the style before the
\* session ended, and one that failed, wherever it did, left no style in the page once its
\* session is gone, unless it reports that the cleanup failed too.  What the code does not
\* take back: the style in a document that the page loaded by itself after the style was
\* removed and before the script was.
PageRestored ==
  /\ Reported => ~ document.motion /\ ~ document.hook
  /\ Reported \/ (s.at = "done" /\ ~ open /\ ~ s.unclean) => seen.slipped \/ ~ document.style

\* Every picture and every print is taken with animations suppressed, also of a document
\* that replaced the one they were suppressed in; and what an operation reports was taken.
CapturesStill ==
  /\ ~ seen.moving
  /\ Reported /\ s.op \in {"screenshot", "full_page", "pdf"} => s.frames = 1 /\ seen.pictures = 1
  /\ s.op = "recording" => s.frames <= seen.pictures /\ s.frames <= expected_frames

\* A navigation is reported only after the page it was sent to, or one that followed,
\* said that it is complete; a failing page is never mistaken for a complete one.
NavigationTrue == Reported /\ s.op = "navigate" => seen.arrived

\* A trace is reported with all its pieces in order, whichever of the answer and the
\* tracingComplete event came first, and late answers left out.
TraceWhole == Reported /\ s.op = "trace" => s.bytes = [i \in 1 .. Chunks |-> i]

\* No operation waits for ever while the browser serves its requests: a page that never
\* finishes loading is given up at the deadline, and a closed socket ends every call.
Ends == <>(s.at = "done")

\* The session stays well-formed and takes nobody else's answers for its own.
SessionInv == SessionTypeOK /\ OwnAnswers

\* What a finished operation reports is true: pictures without motion, a page that was
\* reached, a trace that is whole.
ResultsTrue == CapturesStill /\ NavigationTrue /\ TraceWhole

=============================================================================
