--------------------------- MODULE BrowserEvidence ---------------------------
(***************************************************************************)
(* What the runtime brings back from a browser, side by side: artifacts    *)
(* (ArtifactCapture) and the browser's own surfaces with the access that   *)
(* the host grants to them (NativeSurfaces).  The first uses the bridge of *)
(* the second only for a picture, the second makes no artifacts: they share*)
(* no state, so in every behaviour here one of them, chosen at the start,  *)
(* makes the steps.                                                        *)
(***************************************************************************)
EXTENDS ArtifactCapture, NativeSurfaces

VARIABLE part      \* the part that makes steps

EvidenceInit ==
  /\ part \in {"artifacts", "surfaces"}
  /\ Init /\ SurfaceInit
  /\ part = "artifacts" => granted = {} /\ ~ allowed /\ ~ managed /\ role["control"] = "button"
  /\ part = "surfaces" => grid = OneGrid /\ run = [p \in Processes |-> NoRun]
EvidenceNext ==
  /\ UNCHANGED part
  /\ \/ part = "artifacts" /\ grid = OneGrid /\ Next /\ UNCHANGED surfaces
     \/ part = "surfaces" /\ SurfaceNext /\ UNCHANGED vars
EvidenceSpec == EvidenceInit /\ [][EvidenceNext]_<<part, vars, surfaces>>

=============================================================================
