--------------------------- MODULE SwiggyClient ---------------------------
(* One endpoint of the Swiggy client and its circuit breaker, whose two keys *)
(* live in Redis and are shared by every process: a counter of failures with *)
(* a window, and an open flag with a time to live.  Time is in the keys: a   *)
(* key counts down and goes at zero.                                         *)
EXTENDS Integers, FiniteSets

CONSTANTS
  Callers,            \* coroutines that make calls
  FAILURE_THRESHOLD, WINDOW, OPEN,
  Never               \* the time to live of a key without one

ASSUME ClientAssumption ==
  /\ FAILURE_THRESHOLD \in Nat /\ FAILURE_THRESHOLD > 1
  /\ WINDOW \in Nat \ {0} /\ OPEN \in Nat \ {0}
  /\ Never \notin Nat

VARIABLES
  count,     \* the counter, 0 without a key
  failTtl,   \* time left of the counter, Never without expiry, 0 without a key
  openTtl,   \* time left of the open flag, 0 without one
  call,      \* call[p]: where the call of p is; "ok" once it has returned a
             \* payload, "none" once it has returned None
  within     \* history: within[n] failures were recorded in the last n ticks

client == <<count, failTtl, openTtl, call, within>>

At(p, s) == call[p] = s
Becomes(p, s) == call' = [call EXCEPT ![p] = s]

(* call_tool asks the breaker first; when Redis is down it calls anyway.     *)
is_open(p) ==
  \/ /\ openTtl > 0
     /\ Becomes(p, "none")
  \/ Becomes(p, "post")

call_tool(p) ==
  /\ At(p, "idle")
  /\ is_open(p)
  /\ UNCHANGED <<count, failTtl, openTtl, within>>

(* One request: a payload, a failure, or a 5xx, which is sent once more.     *)
_post(p) ==
  /\ \E answer \in {"success", "failure", "again"} :
       /\ At(p, "post") \/ (At(p, "again") /\ answer # "again")
       /\ Becomes(p, answer)
  /\ UNCHANGED <<count, failTtl, openTtl, within>>

\* Lost when Redis is down.
record_success(p) ==
  /\ At(p, "success")
  /\ \/ count' = 0 /\ failTtl' = 0
     \/ UNCHANGED <<count, failTtl>>
  /\ Becomes(p, "ok")
  /\ UNCHANGED <<openTtl, within>>

(* INCR, then EXPIRE if the counter is new, then SETEX of the flag if it has *)
(* reached the threshold: three requests to Redis, the first of which        *)
(* creates a counter without expiry.                                         *)
\* As record_failure, the expiry renewed by every failure.
record_failure_sliding(p) ==
  /\ At(p, "failure")
  /\ count' = count + 1
  /\ failTtl' = IF count = 0 THEN Never ELSE failTtl
  /\ within' = [n \in 1 .. WINDOW |-> within[n] + 1]
  /\ Becomes(p, "expire")
  /\ UNCHANGED openTtl
record_failure(p) ==
  /\ At(p, "failure")
  /\ count' = count + 1
  /\ failTtl' = IF count = 0 THEN Never ELSE failTtl
  /\ within' = [n \in 1 .. WINDOW |-> within[n] + 1]
  /\ Becomes(p, IF count = 0 THEN "expire"
                ELSE IF count + 1 >= FAILURE_THRESHOLD THEN "open" ELSE "none")
  /\ UNCHANGED openTtl

set_expiry(p) ==
  /\ At(p, "expire")
  /\ failTtl' = IF count = 0 THEN 0 ELSE WINDOW
  /\ Becomes(p, "none")
  /\ UNCHANGED <<count, openTtl, within>>

set_open(p) ==
  /\ At(p, "open")
  /\ openTtl' = OPEN
  /\ Becomes(p, "none")
  /\ UNCHANGED <<count, failTtl, within>>

\* Redis fails on one of the three; the rest of record_failure is skipped.
record_lost(p) ==
  /\ call[p] \in {"failure", "expire", "open"}
  /\ Becomes(p, "none")
  /\ UNCHANGED <<count, failTtl, openTtl, within>>

Client(p) ==
  \/ _post(p)
  \/ record_success(p)
  \/ record_failure(p)
  \/ set_expiry(p)
  \/ set_open(p)
  \/ record_lost(p)

(* A tick of the clock.  A round trip to Redis takes less than one.          *)
\* As Elapse, the open flag set without a time to live.
Elapse_open_kept ==
  /\ \A p \in Callers : call[p] \notin {"success", "failure", "expire", "open"}
  /\ failTtl \in Nat \ {0}
  /\ failTtl' = failTtl - 1
  /\ count' = IF failTtl = 1 THEN 0 ELSE count
  /\ within' = [n \in 1 .. WINDOW |-> IF n = 1 THEN 0 ELSE within[n - 1]]
  /\ UNCHANGED <<openTtl, call>>
Elapse ==
  /\ \A p \in Callers : call[p] \notin {"success", "failure", "expire", "open"}
  /\ openTtl > 0 \/ failTtl \in Nat \ {0}
  /\ openTtl' = IF openTtl = 0 THEN 0 ELSE openTtl - 1
  /\ failTtl' = IF failTtl \in {0, Never} THEN failTtl ELSE failTtl - 1
  /\ count' = IF failTtl = 1 THEN 0 ELSE count
  /\ within' = [n \in 1 .. WINDOW |-> IF n = 1 THEN 0 ELSE within[n - 1]]
  /\ UNCHANGED call

ClientInit ==
  /\ count = 0 /\ failTtl = 0 /\ openTtl = 0
  /\ call = [p \in Callers |-> "idle"]
  /\ within = [n \in 1 .. WINDOW |-> 0]
=============================================================================
