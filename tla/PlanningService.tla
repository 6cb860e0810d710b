-------------------------- MODULE PlanningService --------------------------
(* The planning routes and the caches in front of the graph: POST            *)
(* /planning/run, /planning/stream and /planning/friday-rush, the exact      *)
(* cache in Redis, the semantic cache in Qdrant, the planning memory, the    *)
(* run records and the evaluation of the workflow triggers.  One run of the  *)
(* graph is PlanningGraph, one evaluation WorkflowTriggers; here each is a   *)
(* step with a free outcome.  What is kept of a plan is what it was made     *)
(* for, what the critic said and when.                                       *)
EXTENDS Integers, FiniteSets

CONSTANTS
  Requests,   \* HTTP requests, each made once
  Bodies,     \* what a request may ask, a set of Body records
  Weekday,    \* default_weekday of every preset, by scenario
  DayLength,  \* ticks of the clock in a day
  TTL,        \* PLAN_CACHE_TTL = PLAN_TTL_HOURS, in ticks
  Patience,   \* the most ticks a request is in progress
  MaxClock,   \* bound of the model on the clock
  MaxFaults,  \* bound of the model on the failures of the stores
  None

Flags == {"simulated", "forced", "debug", "custom"}
Routes == {"run", "stream", "friday_rush"}

ASSUME ServiceAssumption ==
  /\ {DayLength, TTL, Patience, MaxClock, MaxFaults} \subseteq Nat
  /\ DayLength > 0 /\ TTL > 0
  /\ None \notin Requests \cup Nat
  /\ \A b \in Bodies :
       /\ b.route \in Routes
       /\ b.flags \subseteq Flags
       /\ b.scenario \in DOMAIN Weekday
       /\ b.date \in Nat \cup {None}
  /\ \A s \in DOMAIN Weekday : Weekday[s] \in 0 .. 6

VARIABLES
  clock,
  pc,        \* pc[r]: "idle", "planning", "graph", "planned", "answered", "failed"
  turn,      \* turn[r]: what the handler of r holds, NoTurn before it starts
  redis,     \* entries of the exact cache, at most one per key
  semantic,  \* points of the semantic cache: never replaced nor deleted
  memory,    \* plans in the planning memory
  rows,      \* requests with a row in planning_runs
  faults     \* failures so far

vars == <<clock, pc, turn, redis, semantic, memory, rows, faults>>

NoTurn == [body |-> None, key |-> None, since |-> 0, day |-> 0,
           plan |-> None, source |-> None, run |-> None]

Failing(down) ==
  /\ faults + Cardinality(down) <= MaxFaults
  /\ faults' = faults + Cardinality(down)

InProgress(r) == pc[r] \in {"planning", "graph", "planned"}

-----------------------------------------------------------------------------
(* Dates.  Days are numbered; day d is weekday d % 7.                        *)
Today == clock \div DayLength

\* The next day of the scenario's weekday, never today itself.
resolve_default_target_date(s) ==
  LET ahead == (Weekday[s] - Today) % 7
  IN  Today + (IF ahead = 0 THEN 7 ELSE ahead)

target_date(b) == IF b.date = None THEN resolve_default_target_date(b.scenario) ELSE b.date

(* The exact cache.  Without a date its key is that of today.                *)
build_cache_key(b) == <<b.org, b.scenario, IF b.date = None THEN Today ELSE b.date>>

\* As cacheable, with the debug flag forgotten.
cacheable_debug(b) == b.route # "friday_rush" /\ b.flags \subseteq {"debug"}
cacheable(b) == b.route # "friday_rush" /\ b.flags = {}

\* The live entry of a key, or none.
get_cached_plan(k) == {e \in redis : e.key = k /\ clock < e.until}

cache_plan(entry) == redis' = {e \in redis : e.key # entry.key} \cup {entry}

(* The semantic cache.  The point nearest to a query is one of the caller's  *)
(* organization, its scenario and date count only as words of the embedding. *)
\* As get, with no filter on the organization, and with no expiry.
get_any_org(org) == {p.plan : p \in {q \in semantic : clock - q.at <= TTL}}
get_expired(org) == {p.plan : p \in {q \in semantic : q.plan.org = org}}
get(org) == {p.plan : p \in {q \in semantic : q.plan.org = org /\ clock - q.at <= TTL}}

bypasses_semantic(b) == b.route # "run" \/ b.flags # {}

stores_semantic(b, plan) ==
  b.route = "run" /\ plan.approved /\ b.flags \cap {"simulated", "forced"} = {}

stores_memory(b, plan) ==
  b.route # "friday_rush" /\ plan.approved /\ "simulated" \notin b.flags

-----------------------------------------------------------------------------
(* The row of a response; when the insert fails the response keeps the run   *)
(* id it came with.                                                          *)
\* As create_from_response, the id taken before the insert is known to succeed.
create_early(r, held, down) ==
  /\ turn' = [turn EXCEPT ![r] = [held EXCEPT !.run = r]]
  /\ rows' = IF "database" \in down THEN rows ELSE rows \cup {r}
create_from_response(r, held, down) ==
  IF "database" \in down
    THEN turn' = [turn EXCEPT ![r] = held] /\ UNCHANGED rows
    ELSE turn' = [turn EXCEPT ![r] = [held EXCEPT !.run = r]] /\ rows' = rows \cup {r}

(* A request looks in the exact cache, unless it is not cacheable.  A hit is *)
(* recorded and answered at once.                                            *)
Receive(r, b) ==
  /\ pc[r] = "idle"
  /\ \E down \in SUBSET {"redis", "database"} :
       LET start == [NoTurn EXCEPT !.body = b, !.key = build_cache_key(b), !.since = clock]
           hits == IF cacheable(b) THEN get_cached_plan(start.key) ELSE {}
       IN /\ Failing(down)
          /\ \/ /\ hits = {} \/ "redis" \in down
                /\ "database" \notin down
                /\ pc' = [pc EXCEPT ![r] = "planning"]
                /\ turn' = [turn EXCEPT ![r] = start]
                /\ UNCHANGED rows
             \/ /\ "redis" \notin down
                /\ pc' = [pc EXCEPT ![r] = "answered"]
                /\ \E e \in hits : create_from_response(r,
                     [start EXCEPT !.plan = e.plan, !.source = e.source, !.run = e.run], down)
  /\ UNCHANGED <<clock, redis, semantic, memory>>

run_planning(r) == \E b \in Bodies : b.route = "run" /\ Receive(r, b)

stream_planning(r) == \E b \in Bodies : b.route = "stream" /\ Receive(r, b)

friday_rush(r) == \E b \in Bodies : b.route = "friday_rush" /\ Receive(r, b)

(* run_planning_scenario looks in the semantic cache first; what it finds is *)
(* returned as if the graph had made it.                                     *)
SemanticHit(r) ==
  /\ pc[r] = "planning"
  /\ ~bypasses_semantic(turn[r].body)
  /\ \E p \in get(turn[r].body.org) :
       turn' = [turn EXCEPT ![r].plan = p, ![r].source = "semantic"]
  /\ pc' = [pc EXCEPT ![r] = "planned"]
  /\ UNCHANGED <<clock, redis, semantic, memory, rows, faults>>

(* The graph starts, as after a miss or a failure of the lookup; its first   *)
(* node settles the date.                                                    *)
GraphStarts(r) ==
  /\ pc[r] = "planning"
  /\ turn' = [turn EXCEPT ![r].day = target_date(turn[r].body)]
  /\ pc' = [pc EXCEPT ![r] = "graph"]
  /\ UNCHANGED <<clock, redis, semantic, memory, rows, faults>>

(* The graph ends; what it stores is swallowed when Qdrant fails.            *)
GraphEnds(r, stores(_, _)) ==
  /\ \E approved \in BOOLEAN :
       LET b == turn[r].body
           plan == [org |-> IF b.route = "friday_rush" THEN None ELSE b.org,
                    scenario |-> b.scenario, day |-> turn[r].day, dated |-> b.date # None,
                    restaurant |-> b.restaurant, flags |-> b.flags,
                    approved |-> approved, born |-> clock]
       IN /\ turn' = [turn EXCEPT ![r].plan = plan, ![r].source = "graph", ![r].day = 0]
          /\ \E down \in SUBSET {"qdrant"} :
               /\ Failing(down)
               /\ semantic' = semantic \cup
                    {p \in {[plan |-> plan, at |-> clock]} : down = {} /\ stores(b, plan)}
               /\ memory' = memory \cup {p \in {plan} : down = {} /\ stores_memory(b, plan)}
  /\ pc' = [pc EXCEPT ![r] = "planned"]
  /\ UNCHANGED <<clock, redis, rows>>

run_planning_scenario(r) ==
  pc[r] = "graph" /\ turn[r].body.route # "stream" /\ GraphEnds(r, stores_semantic)

\* The stream stores in the planning memory only.
stores_nothing(b, plan) == FALSE
stream_planning_scenario(r) ==
  pc[r] = "graph" /\ turn[r].body.route = "stream" /\ GraphEnds(r, stores_nothing)

\* An exception of the graph: status 500, or an error event of the stream.
GraphFails(r) ==
  /\ pc[r] = "graph"
  /\ pc' = [pc EXCEPT ![r] = "failed"]
  /\ turn' = [turn EXCEPT ![r].day = 0]
  /\ UNCHANGED <<clock, redis, semantic, memory, rows, faults>>

(* The plan is recorded, its triggers are evaluated (WorkflowTriggers), it   *)
(* is cached if it may be, and answered.                                     *)
Deliver(r) ==
  /\ pc[r] = "planned"
  /\ \E down \in SUBSET {"redis", "database"} :
       LET t == turn[r]
           entry == [key |-> t.key, plan |-> t.plan, source |-> t.source, until |-> clock + TTL,
                     run |-> IF "database" \in down THEN t.run ELSE r]
       IN /\ Failing(down)
          /\ create_from_response(r, t, down)
          /\ IF cacheable(t.body) /\ t.plan.approved /\ "redis" \notin down
               THEN cache_plan(entry)
               ELSE UNCHANGED redis
  /\ pc' = [pc EXCEPT ![r] = "answered"]
  /\ UNCHANGED <<clock, semantic, memory>>

Tick ==
  /\ clock < MaxClock
  /\ \A r \in Requests : InProgress(r) => clock - turn[r].since < Patience
  /\ clock' = clock + 1
  /\ UNCHANGED <<pc, turn, redis, semantic, memory, rows, faults>>

-----------------------------------------------------------------------------
Init ==
  /\ clock = 0 /\ faults = 0
  /\ pc = [r \in Requests |-> "idle"]
  /\ turn = [r \in Requests |-> NoTurn]
  /\ redis = {} /\ semantic = {} /\ memory = {} /\ rows = {}

Handle(r) ==
  \/ run_planning(r)
  \/ stream_planning(r)
  \/ friday_rush(r)
  \/ SemanticHit(r)
  \/ GraphStarts(r)
  \/ run_planning_scenario(r)
  \/ stream_planning_scenario(r)
  \/ GraphFails(r)
  \/ Deliver(r)

Next == Tick \/ \E r \in Requests : Handle(r)

Spec == Init /\ [][Next]_vars
=============================================================================
