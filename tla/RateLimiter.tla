----------------------------- MODULE RateLimiter -----------------------------
(***************************************************************************)
(* The in-memory rate limiter of src/app/core/ratelimiter.py.  A key stands *)
(* for "target_type:target_value:module_name".  The dict of the last        *)
(* allowed start of each key is a function whose domain grows; it lives in  *)
(* the process and is empty again after a restart.                          *)
(***************************************************************************)
EXTENDS Integers

CONSTANTS
  LimiterKeys,   \* "type:value:module" strings
  MinInterval    \* min_interval_seconds, in clock ticks

ASSUME MinIntervalAssumption == MinInterval \in Nat

VARIABLES
  now,           \* time.monotonic()
  last_seen      \* key -> time of its last allowed start

NothingSeen == [key \in {} |-> 0]

LimiterInit == now = 0 /\ last_seen = NothingSeen

\* check(): the key is new, or its last start is at least the interval ago.
Allowed(key) ==
  key \in DOMAIN last_seen => now - last_seen[key] >= MinInterval

\* Faulty: the timestamp waits for a success that the caller never reports.
RecordLater(key) == UNCHANGED last_seen

\* record()
Record(key) ==
  last_seen' = [k \in DOMAIN last_seen \cup {key} |->
                  IF k = key THEN now ELSE last_seen[k]]

LimiterTypeOK ==
  /\ now \in Nat
  /\ DOMAIN last_seen \subseteq LimiterKeys
  /\ \A key \in DOMAIN last_seen : last_seen[key] \in 0..now

=============================================================================
