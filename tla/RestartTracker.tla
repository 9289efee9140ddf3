--------------------------- MODULE RestartTracker ---------------------------
(***************************************************************************)
(* The restart tracker of a managed browser and a supervisor that uses it: *)
(* record_start when the browser is up, record_crash and then              *)
(* should_restart when it goes down, and a new launch after the delay.  A  *)
(* launch may fail before the browser is up; that is a crash without a     *)
(* start.  Time is in units of the configured periods.  backoff_factor is  *)
(* any ratio of whole numbers, zero and below one included; the product in *)
(* should_restart is exact here and rounded down to a whole number.        *)
(***************************************************************************)
EXTENDS Naturals

CONSTANTS
  max_restarts, initial_delay, max_delay, stable_period,   \* RestartConfig
  factor_num, factor_den,                                  \* its backoff_factor
  Never,         \* no start recorded
  MaxClock,      \* bound: time
  MaxAttempts    \* bound: failures counted

RestartAssumption ==
  /\ max_restarts \in Nat /\ initial_delay \in Nat /\ max_delay \in Nat
  /\ factor_num \in Nat /\ factor_den \in Nat \ {0} /\ stable_period \in Nat
  /\ MaxClock \in Nat /\ MaxAttempts \in Nat
  /\ Never \notin Nat

VARIABLES
  clock,
  attempts,       \* consecutive failures counted
  last_start_at,
  browser,        \* "up", "down" with a launch to come, or "given_up"
  launch_at,      \* when the supervisor launches next
  delay,          \* the delay of the last decision to restart
  in_a_row,       \* restarts decided since the browser was last up for the stable
                  \* period, or since the start or a reset (history)
  up_since,       \* when the browser came up (history)
  late            \* whether a launch failed a stable period after the last start (history)

tracker == <<attempts, last_start_at>>
vars == <<clock, attempts, last_start_at, browser, launch_at, delay, in_a_row, up_since, late>>

Init ==
  /\ clock = 0
  /\ attempts = 0 /\ last_start_at = Never
  /\ browser = "down" /\ launch_at = 0
  /\ delay = 0 /\ in_a_row = 0 /\ up_since = 0 /\ late = FALSE

Tick ==
  /\ clock < MaxClock
  /\ clock' = clock + 1
  /\ UNCHANGED <<attempts, last_start_at, browser, launch_at, delay, in_a_row, up_since, late>>

-----------------------------------------------------------------------------
\* The counter after a crash: it starts again after a stable period.
\* Mutants: it never does; it does after any start.
CountOnly == attempts + 1
CountSinceStart == IF last_start_at # Never THEN 1 ELSE attempts + 1
AfterCrash ==
  IF last_start_at # Never /\ clock - last_start_at >= stable_period THEN 1 ELSE attempts + 1

AtMost(x, bound) == IF x < bound THEN x ELSE bound

\* backoff_factor.powi(exponent), numerator and denominator.
powi[exponent \in 0 .. MaxAttempts] ==
  IF exponent = 0 THEN [num |-> 1, den |-> 1]
  ELSE [num |-> factor_num * powi[exponent - 1].num, den |-> factor_den * powi[exponent - 1].den]

Allowed(n) == n <= max_restarts

\* `as u64` cuts the fraction off.
Backoff(n) ==
  LET power == powi[IF n = 0 THEN 0 ELSE n - 1]
  IN  (initial_delay * power.num) \div power.den

\* Mutant: no cap on the delay.
Uncapped(n) == Backoff(n)
DelayOf(n) == AtMost(Backoff(n), max_delay)

\* record_crash, then should_restart; stable says that the browser had really been up
\* for the stable period.
CrashAndDecide(stable) ==
  /\ attempts < MaxAttempts
  /\ attempts' = AfterCrash
  /\ IF Allowed(attempts')
     THEN /\ browser' = "down"
          /\ delay' = DelayOf(attempts')
          /\ launch_at' = clock + delay'
          /\ in_a_row' = (IF stable THEN 0 ELSE in_a_row) + 1
     ELSE browser' = "given_up" /\ UNCHANGED <<delay, launch_at, in_a_row>>
  /\ UNCHANGED <<clock, last_start_at, up_since>>

Crash ==
  /\ browser = "up"
  /\ CrashAndDecide(clock - up_since >= stable_period)
  /\ UNCHANGED late

LaunchFails ==
  /\ browser = "down" /\ clock >= launch_at
  /\ CrashAndDecide(FALSE)
  /\ late' = (late \/ (last_start_at # Never /\ clock - last_start_at >= stable_period))

RecordStart ==
  /\ browser = "down" /\ clock >= launch_at
  /\ browser' = "up"
  /\ last_start_at' = clock /\ up_since' = clock
  /\ UNCHANGED <<clock, attempts, launch_at, delay, in_a_row, late>>

\* A manual restart.
Reset ==
  /\ attempts' = 0 /\ last_start_at' = Never
  /\ browser' = "down" /\ launch_at' = clock
  /\ delay' = 0 /\ in_a_row' = 0 /\ late' = FALSE
  /\ UNCHANGED <<clock, up_since>>

Next == Tick \/ Crash \/ LaunchFails \/ RecordStart \/ Reset

Spec == Init /\ [][Next]_vars

-----------------------------------------------------------------------------
(* Properties.                                                             *)

TypeOK ==
  /\ clock \in 0 .. MaxClock
  /\ attempts \in 0 .. MaxAttempts
  /\ last_start_at \in 0 .. MaxClock \cup {Never}
  /\ browser \in {"up", "down", "given_up"}
  /\ launch_at \in Nat /\ delay \in Nat /\ in_a_row \in Nat /\ up_since \in 0 .. MaxClock
  /\ late \in BOOLEAN

\* The restarts in a row are those counted, the browser is up since the start recorded,
\* and no more restarts are decided in a row than max_restarts, whether they fail because
\* the browser crashes or because it does not come up; unless a launch failed a stable
\* period after the last start.
RestartInv ==
  /\ TypeOK
  /\ browser = "up" => last_start_at = up_since
  /\ ~ late => /\ browser # "given_up" => in_a_row = attempts
               /\ in_a_row <= max_restarts

\* No delay is above the limit, and with a factor of one or more the delays of
\* consecutive failures never shrink before the browser was stable.
BacksOff ==
  [][/\ delay' <= max_delay
     /\ factor_num >= factor_den /\ ~ late' /\ in_a_row' > in_a_row => delay' >= delay]_vars

=============================================================================
