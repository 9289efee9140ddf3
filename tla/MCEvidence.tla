----------------------------- MODULE MCEvidence -----------------------------
(* Instance of BrowserEvidence for TLC. *)
EXTENDS BrowserEvidence, TLC

MCSymmetry == Permutations(Processes)
MCAskedLists ==
  {<<"accessibility", "listen_event", "apple_events_own", "apple_events_other">>, <<"apple_events_own">>}
MCInitialGrants == {{}, {"accessibility", "apple_events_other"}}

\* Values and keys are told apart where they are read, channels for the control, and of
\* the application only what it supports is asked.
MCRequests ==
  {r \in [path : {"root", "control"}, takeover : {"none", "yes", "no"}, value : BOOLEAN, key : BOOLEAN,
          action : {"press", "focus", "confirm", "set_value", "key_sequence", "scroll", "raise"},
          channel : {"none", "ax_direct", "apple_events_activation", "app_scoped_key_post", "global_takeover", "cdp"}] :
     /\ r.action # "set_value" => r.value
     /\ r.channel \notin {"app_scoped_key_post", "global_takeover"} /\ r.action \notin {"confirm", "key_sequence"} => r.key
     /\ r.channel # "none" => r.path = "control" /\ r.takeover # "yes"
     /\ r.path = "root" => r.action \in {"key_sequence", "focus", "confirm"}}
=============================================================================
