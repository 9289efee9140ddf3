--------------------------- MODULE WebhookDelivery ---------------------------
(***************************************************************************)
(* deliver_webhook: a payload is posted until an answer of the 2xx class   *)
(* comes back or the attempts are used up.  The receiver may have taken    *)
(* the payload although no answer comes back.                              *)
(***************************************************************************)
EXTENDS Naturals

CONSTANTS
  max_retries,     \* WebhookConfig
  NoStatus         \* no answer with a status so far

VARIABLES
  delivery,        \* attempts made, last status, last error, and the result when there is one
  received         \* answers and losses at the receiver: times it took the payload (history)

webhook == <<delivery, received>>

\* The kinds of host a URL may name; a domain is not resolved.
Hosts == {"public_ip", "domain", "private_ip", "loopback_ip", "localhost", "none", "other_scheme"}
is_blocked_host(host) == host \in {"private_ip", "loopback_ip", "localhost"}
\* Mutant: the host is not looked at.
AcceptsAnyHost(host) == host \notin {"none", "other_scheme"}
validate_webhook_url(host) == host \notin {"none", "other_scheme"} /\ ~ is_blocked_host(host)

Init ==
  /\ delivery \in {[at |-> "validate", host |-> h, attempts |-> 0, status |-> NoStatus, error |-> "none",
                    success |-> FALSE] : h \in Hosts}
  /\ received = 0

Validate ==
  /\ delivery.at = "validate"
  /\ delivery' = IF validate_webhook_url(delivery.host) THEN [delivery EXCEPT !.at = "posting"]
                 ELSE [delivery EXCEPT !.at = "done", !.error = "refused"]
  /\ UNCHANGED received

\* The payload cannot be written as JSON.
SerializeFails ==
  /\ delivery.at = "validate" /\ validate_webhook_url(delivery.host)
  /\ delivery' = [delivery EXCEPT !.at = "done", !.error = "payload"]
  /\ UNCHANGED received

\* Mutant: the loop makes one attempt more.
OneMore == 2 + max_retries
total_attempts == 1 + max_retries
After(d) == IF d.success \/ d.attempts = total_attempts THEN [d EXCEPT !.at = "done"] ELSE d

\* An answer; only 2xx is a success.
Answered(status) ==
  /\ delivery.at = "posting"
  /\ delivery' = After([delivery EXCEPT !.attempts = @ + 1, !.status = status,
                          !.error = IF status = 200 THEN "none" ELSE "status",
                          !.success = (status = 200)])
  /\ received' = received + 1
\* No answer in time, or no connection: the last status stays.
Lost(taken) ==
  /\ delivery.at = "posting"
  /\ delivery' = After([delivery EXCEPT !.attempts = @ + 1, !.error = "transport"])
  /\ received' = IF taken THEN received + 1 ELSE received

Next ==
  Validate \/ SerializeFails \/ (\E status \in {200, 404, 500} : Answered(status)) \/ (\E t \in BOOLEAN : Lost(t))

-----------------------------------------------------------------------------
\* A host the validation refuses is never contacted.  The result counts the posts made, at
\* most one more than the retries allowed; it claims success exactly when the last answer
\* was of the 2xx class, so a payload reported as delivered was received, and then no
\* further copy is sent.
DeliveryHonest ==
  /\ is_blocked_host(delivery.host) => received = 0 /\ delivery.attempts = 0
  /\ delivery.attempts <= 1 + max_retries /\ received <= delivery.attempts
  /\ delivery.success => delivery.at = "done" /\ delivery.status = 200 /\ received > 0
  /\ delivery.at = "done" /\ ~ delivery.success =>
       delivery.error \in {"refused", "payload"} \/ delivery.attempts = 1 + max_retries
  /\ delivery.status = 200 => delivery.success

=============================================================================
