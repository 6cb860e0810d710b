--------------------------- MODULE PlanningGraph ----------------------------
(***************************************************************************)
(* One run of the planning graph: fifteen nodes that share a state of      *)
(* channels, run by LangGraph in supersteps.  The nodes of a superstep run *)
(* concurrently on the same state; each returns the WHOLE state it was     *)
(* given with its own keys replaced, and when all are done their returns   *)
(* are merged channel by channel with the reducer keep_last, which skips   *)
(* None.  Merging is modelled one node at a time, in any order.            *)
(***************************************************************************)
EXTENDS Naturals, Sequences

CONSTANTS
    None,           \* Python's None
    Scores,         \* the LLM's critic scores, in hundredths
    MaxReplans,     \* the 2 of _route_after_critic
    RecursionLimit  \* external: supersteps LangGraph runs before it raises

ASSUME BoundsAssumption ==
    /\ Scores \subseteq 0 .. 100
    /\ MaxReplans \in Nat /\ RecursionLimit \in Nat

OPS_MANAGER == "ops_manager"
LIVE_SIGNALS == "live_signals"
DEMAND_FORECAST == "demand_forecast"
QDRANT_ENRICHMENT == "qdrant_enrichment"
RESERVATION == "reservation"
COMPLAINT_INTELLIGENCE == "complaint_intelligence"
INVENTORY == "inventory"
MARKET_INTEL == "market_intel"
DINEOUT_MANAGER == "dineout_manager"
MENU_INTELLIGENCE == "menu_intelligence"
AGGREGATOR == "aggregator"
CRITIC == "critic"
REPLAN_ORCHESTRATOR == "replan_orchestrator"
SITUATION_SUMMARY == "situation_summary"
FINAL_ASSEMBLER == "final_assembler"

FanOut == {RESERVATION, COMPLAINT_INTELLIGENCE, INVENTORY, MARKET_INTEL, DINEOUT_MANAGER}

\* The channels that matter; an agent's output and its assumptions, which it
\* always writes together, share one, except for the menu's.
Outputs == {"reservation", "complaint", "inventory", "market", "dineout"}
Channels == Outputs \cup
    {"error", "signals", "forecast", "shared", "menu", "menu_assumptions", "bundle",
     "critic", "replan_count", "replan_context", "summary", "response"}

Verdicts == {"approved", "rejected", "revision"}

\* What the channels hold once they are set.  An answer of an LLM is "odd", and
\* so is a menu, when its JSON is not of the shape that the aggregator reads: a
\* list where an object was asked for, or objects where texts were.
Texts == {"unknown scenario", "output", "low", "odd", "briefing", "failed"}
Menu == [version : Nat, failed : BOOLEAN, odd : BOOLEAN, low : BOOLEAN, heard : Seq(Nat)]
Bundle == [menu : Nat, patched : BOOLEAN, assumed : Nat \cup {None}]
Critic == [verdict : Verdicts, score : Nat, of : Nat, patched : BOOLEAN,
           errors : BOOLEAN, logged : BOOLEAN, forced : BOOLEAN]
Statuses == {"unknown", "ready", "blocked", "needs_review"}
Response == [verdict : Verdicts \cup {"unknown"}, score : Nat, status : Statuses,
             menu : Nat, low : BOOLEAN, summary : BOOLEAN]

\* None is none of the values a node returns.
ASSUME NoneAssumption ==
    /\ None \notin Nat /\ None \notin Seq(Nat) /\ None \notin Texts /\ None \notin Verdicts
    /\ None \notin Menu /\ None \notin Bundle /\ None \notin Critic /\ None \notin Response

\* The request, and whether the deployment has Swiggy.
Request == [supported : BOOLEAN,            \* a known scenario or a custom profile
            simulation : BOOLEAN,
            override : Verdicts \cup {None},    \* force_critic_decision
            swiggy : BOOLEAN]               \* swiggy_client.is_available()

VARIABLES
    request,
    chan,       \* the channels
    active,     \* the nodes of this superstep
    writes,     \* what the nodes that are done returned, until it is merged
    merged,     \* the nodes whose return has been merged
    outcome,    \* "running", "responded" or "raised"
    broken,     \* the run's database session needs a rollback it never gets
    log,        \* the DecisionLog rows of this run
    steps,      \* supersteps begun
    latest      \* history: the last value each key was returned with by a node
                \* that set it

vars == <<request, chan, active, writes, merged, outcome, broken, log, steps, latest>>

NoKeys == [k \in {} |-> None]
Initially == [k \in Channels |-> IF k = "replan_count" THEN 0
                                 ELSE IF k = "replan_context" THEN <<>> ELSE None]

Init ==
    /\ request \in Request
    /\ chan = Initially /\ latest = Initially
    /\ active = {OPS_MANAGER} /\ merged = {}
    /\ writes = NoKeys
    /\ outcome = "running" /\ broken = FALSE /\ log = {} /\ steps = 1

-----------------------------------------------------------------------------
(* Supersteps *)

\* Mutant of keep_last: a None replaces the value.
KeepNewest(current, new) == new

keep_last(current, new) == IF new = None THEN current ELSE new

Runs(n) == outcome = "running" /\ n \in active \ (DOMAIN writes \cup merged)

\* {**state, ...own}
With(state, own) == [k \in Channels |-> IF k \in DOMAIN own THEN own[k] ELSE state[k]]

\* Node n returns the state it was given, with its own keys.  Once there is an
\* error the nodes hand the state through.
Return(n, update) ==
    LET own == IF chan.error = None \/ n = FINAL_ASSEMBLER THEN update ELSE NoKeys IN
    /\ writes' = [m \in DOMAIN writes \cup {n} |->
                    IF m = n THEN With(chan, own) ELSE writes[m]]
    /\ latest' = With(latest, own)
    /\ UNCHANGED <<request, chan, active, merged, outcome, steps>>

TargetsAfterReplan == {MENU_INTELLIGENCE}

Verdict == IF chan.critic = None THEN "revision" ELSE chan.critic.verdict

\* Mutant of RouteAfterCritic: only a rejection is replanned.
RouteRevisionsOut ==
    IF Verdict # "rejected" \/ chan.replan_count >= MaxReplans
    THEN {SITUATION_SUMMARY} ELSE {REPLAN_ORCHESTRATOR}

RouteAfterCritic ==
    IF Verdict = "approved" \/ chan.replan_count >= MaxReplans
    THEN {SITUATION_SUMMARY} ELSE {REPLAN_ORCHESTRATOR}

\* The edges, and the two conditional ones.
Targets(n) ==
    CASE n = OPS_MANAGER -> {IF chan.error # None THEN FINAL_ASSEMBLER ELSE LIVE_SIGNALS}
      [] n = LIVE_SIGNALS -> {DEMAND_FORECAST}
      [] n = DEMAND_FORECAST -> {QDRANT_ENRICHMENT}
      [] n = QDRANT_ENRICHMENT -> FanOut
      [] n \in FanOut -> {MENU_INTELLIGENCE}
      [] n = MENU_INTELLIGENCE -> {AGGREGATOR}
      [] n = AGGREGATOR -> {CRITIC}
      [] n = CRITIC -> RouteAfterCritic
      [] n = REPLAN_ORCHESTRATOR -> TargetsAfterReplan
      [] n = SITUATION_SUMMARY -> {FINAL_ASSEMBLER}
      [] n = FINAL_ASSEMBLER -> {}

\* All nodes of the superstep are done: the return of one of them is merged.
Merge(n) ==
    /\ outcome = "running"
    /\ active = DOMAIN writes \cup merged /\ n \in DOMAIN writes
    /\ chan' = [k \in Channels |-> keep_last(chan[k], writes[n][k])]
    /\ writes' = [m \in DOMAIN writes \ {n} |-> writes[m]]
    /\ merged' = merged \cup {n}
    /\ UNCHANGED <<request, active, outcome, broken, log, latest, steps>>

\* All returns are merged: the next superstep, or the end of the run, or
\* LangGraph's error when there have been too many.
Advance ==
    /\ outcome = "running" /\ merged = active
    /\ LET next == UNION {Targets(n) : n \in active} IN
       /\ outcome' = IF next = {} THEN "responded"
                     ELSE IF steps = RecursionLimit THEN "raised" ELSE "running"
       /\ IF outcome' = "running"
          THEN active' = next /\ merged' = {} /\ steps' = steps + 1
          ELSE UNCHANGED <<active, merged, steps>>
    /\ UNCHANGED <<request, chan, writes, broken, log, latest>>

-----------------------------------------------------------------------------
(* The nodes *)

UnknownScenario(known) == IF known THEN NoKeys ELSE [error |-> "unknown scenario"]

\* A scenario that is neither supported nor comes with a profile is an error.
ops_manager ==
    /\ Runs(OPS_MANAGER)
    /\ Return(OPS_MANAGER, UnknownScenario(request.supported))
    /\ UNCHANGED <<broken, log>>

\* Weather, trends and regulatory alerts; None when a service fails, nothing at
\* all in a simulation.
live_signals ==
    /\ Runs(LIVE_SIGNALS)
    /\ \E v \in {None, "output"} :
        Return(LIVE_SIGNALS, IF request.simulation THEN NoKeys ELSE [signals |-> v])
    /\ UNCHANGED <<broken, log>>

\* An agent that writes its output, be it a recommendation or an error.
Agent(n, channel, values) ==
    /\ Runs(n)
    /\ \E v \in values : Return(n, [k \in {channel} |-> v])
    /\ UNCHANGED <<broken, log>>


\* The forecast reads the run's own database session, which a query that fails
\* leaves in need of a rollback; in a simulation there is neither query nor LLM.
demand_forecast ==
    /\ Runs(DEMAND_FORECAST)
    /\ \E v \in IF request.simulation THEN {"output"} ELSE {"output", "odd"} :
        /\ Return(DEMAND_FORECAST, [forecast |-> v])
        /\ broken' \in IF request.simulation \/ v = "odd" THEN {FALSE} ELSE BOOLEAN
    /\ UNCHANGED log

qdrant_enrichment == Agent(QDRANT_ENRICHMENT, "shared", {"output"})
reservation == Agent(RESERVATION, "reservation", {"output"})
complaint_intelligence == Agent(COMPLAINT_INTELLIGENCE, "complaint", {"output", "odd"})
dineout_manager == Agent(DINEOUT_MANAGER, "dineout", {"output"})

\* Whether some ingredient is flagged low; a simulated one always is.
inventory ==
    Agent(INVENTORY, "inventory",
          IF request.simulation THEN {"low"} ELSE {"output", "low", "odd"})

\* With Swiggy, our own menu is loaded outside of any try block, and the run
\* ends when that fails; everything else fails softly.
market_intel ==
    \/ Agent(MARKET_INTEL, "market", {"output"})
    \/ /\ Runs(MARKET_INTEL) /\ chan.error = None /\ request.swiggy
       /\ outcome' = "raised"
       /\ UNCHANGED <<request, chan, active, writes, merged, broken, log, latest, steps>>

\* The menu: a version, whether it failed, whether it highlights a dish of a low
\* ingredient, and the feedback it was given.  A failure clears the assumptions,
\* or tries to; the simulated menu reads neither the database nor the feedback.
Menus ==
    LET version == IF chan.menu = None THEN 1 ELSE chan.menu.version + 1 IN
    IF request.simulation
    THEN {[version |-> version, failed |-> FALSE, odd |-> FALSE, low |-> FALSE, heard |-> <<>>]}
    ELSE {m \in [version : {version}, failed : BOOLEAN, odd : BOOLEAN, low : BOOLEAN,
                 heard : {chan.replan_context}] :
              /\ m.low => chan.inventory = "low" /\ ~m.odd
              /\ m.failed => ~m.low /\ ~m.odd
              /\ broken => m.failed}

menu_intelligence ==
    /\ Runs(MENU_INTELLIGENCE)
    /\ \E m \in Menus :
        /\ Return(MENU_INTELLIGENCE,
               [menu |-> m, menu_assumptions |-> IF m.failed THEN None ELSE m.version])
        /\ broken' \in IF m.failed THEN {broken, TRUE} ELSE {broken}
    /\ UNCHANGED log

\* The aggregator takes the agents' answers as they come, outside of any try.
Malformed == "odd" \in {chan.forecast, chan.complaint, chan.inventory} \/ chan.menu.odd

\* Mutant of aggregator: a bundle that is there is not built again.
aggregator_once ==
    /\ Runs(AGGREGATOR)
    /\ ~Malformed
    /\ Return(AGGREGATOR,
           [bundle |-> IF chan.bundle # None THEN chan.bundle
                       ELSE [menu |-> chan.menu.version, patched |-> chan.menu.low,
                             assumed |-> chan.menu_assumptions]])
    /\ UNCHANGED <<broken, log>>

\* The bundle for the critic.  _enforce_inventory_constraints moves a dish of a
\* low ingredient out of the highlights of the bundle, and only there.  On a
\* malformed answer the aggregator raises, and the run with it.
aggregator ==
    /\ Runs(AGGREGATOR)
    /\ \/ /\ ~Malformed
          /\ Return(AGGREGATOR,
                 [bundle |-> [menu |-> chan.menu.version, patched |-> chan.menu.low,
                              assumed |-> chan.menu_assumptions]])
          /\ UNCHANGED <<broken, log>>
       \/ /\ Malformed
          /\ outcome' = "raised"
          /\ UNCHANGED <<request, chan, active, writes, merged, broken, log, latest, steps>>

-----------------------------------------------------------------------------
(* The critic *)

Least(a, b) == IF a < b THEN a ELSE b

\* Mutant of Evaluate: an approval survives the errors of the sanity checks.
EvaluateLeniently(verdict, score, policy, errors, weak) ==
    IF policy THEN [verdict |-> "rejected", score |-> Least(score, 30)]
    ELSE IF verdict = "approved" /\ weak
    THEN [verdict |-> "revision", score |-> Least(score, 68)]
    ELSE [verdict |-> verdict, score |-> score]

\* What the sanity checks and the cost analysis leave of the LLM's verdict.
Evaluate(verdict, score, policy, errors, weak) ==
    IF policy THEN [verdict |-> "rejected", score |-> Least(score, 30)]
    ELSE IF errors /\ verdict = "approved"
    THEN [verdict |-> "revision", score |-> Least(score, 65)]
    ELSE IF verdict = "approved" /\ weak
    THEN [verdict |-> "revision", score |-> Least(score, 68)]
    ELSE [verdict |-> verdict, score |-> score]

Critique(v, errors, logged, forced) ==
    [critic |-> [verdict |-> v.verdict, score |-> v.score,
                 of |-> chan.bundle.menu, patched |-> chan.bundle.patched,
                 errors |-> errors, logged |-> logged, forced |-> forced]]

Unavailable == [verdict |-> "revision", score |-> 0]
LogRow(v) == [of |-> chan.bundle.menu, verdict |-> v.verdict]

\* A forced decision: no LLM, no log.
critic_override ==
    /\ Runs(CRITIC) /\ request.override # None
    /\ Return(CRITIC, Critique([verdict |-> request.override,
                                score |-> IF request.override = "approved" THEN 100 ELSE 0],
                               FALSE, FALSE, TRUE))
    /\ UNCHANGED <<broken, log>>

\* Mutant of critic_logs: the row is committed after the verdict was returned,
\* so that a failing commit goes unnoticed.
critic_logs_later ==
    /\ Runs(CRITIC) /\ request.override = None
    /\ \E verdict \in Verdicts, score \in Scores, policy, errors, weak, lost \in BOOLEAN :
        LET v == Evaluate(verdict, score, policy, errors, weak) IN
        /\ policy => errors
        /\ log' = IF lost \/ broken THEN log ELSE log \cup {LogRow(v)}
        /\ Return(CRITIC, Critique(v, errors, TRUE, FALSE))
    /\ UNCHANGED broken

\* The LLM's verdict is corrected, logged and returned.
critic_logs ==
    /\ Runs(CRITIC) /\ request.override = None /\ ~broken
    /\ \E verdict \in Verdicts, score \in Scores, policy, errors, weak \in BOOLEAN :
        LET v == Evaluate(verdict, score, policy, errors, weak) IN
        /\ policy => errors
        /\ log' = log \cup {LogRow(v)}
        /\ Return(CRITIC, Critique(v, errors, TRUE, FALSE))
    /\ UNCHANGED broken

\* Mutant of critic_fails: the exception is not caught.
critic_raises ==
    /\ Runs(CRITIC) /\ request.override = None
    /\ outcome' = "raised"
    /\ UNCHANGED <<request, chan, active, writes, merged, broken, log, steps, latest>>

\* The LLM fails, or the log cannot be written, or its row cannot be read back
\* after it was: the critic asks for a revision.  An error of the database leaves
\* the session in need of a rollback.
critic_fails ==
    /\ Runs(CRITIC) /\ request.override = None
    /\ \/ UNCHANGED <<broken, log>>
       \/ broken' = TRUE /\ UNCHANGED log
       \/ /\ ~broken /\ broken' = TRUE
          /\ \E verdict \in Verdicts : log' = log \cup {LogRow([verdict |-> verdict])}
    /\ Return(CRITIC, Critique(Unavailable, FALSE, FALSE, FALSE))

critic == critic_override \/ critic_logs \/ critic_fails

-----------------------------------------------------------------------------
(* After the critic *)

replan_orchestrator ==
    /\ Runs(REPLAN_ORCHESTRATOR)
    /\ Return(REPLAN_ORCHESTRATOR,
           [replan_count |-> chan.replan_count + 1,
            replan_context |-> Append(chan.replan_context, chan.critic.of)])
    /\ UNCHANGED <<broken, log>>

\* A briefing on the outputs in the state, or none when the LLM fails.
situation_summary ==
    /\ Runs(SITUATION_SUMMARY)
    /\ \E v \in {"briefing", "failed"} : Return(SITUATION_SUMMARY, [summary |-> v])
    /\ UNCHANGED <<broken, log>>

\* Mutant of DeriveStatus: the verdict alone decides.
DeriveFromScore(verdict, score) ==
    CASE verdict = "unknown" -> "unknown"
      [] verdict # "unknown" /\ score >= 70 -> "ready"
      [] verdict = "rejected" /\ score < 70 -> "blocked"
      [] OTHER -> "needs_review"

\* critic_threshold is no key of OrchestratorState, so that the org's setting is
\* dropped on the way in and the default of 0.7 is always used.
DeriveStatus(verdict, score) ==
    CASE verdict = "unknown" -> "unknown"
      [] verdict = "approved" /\ score >= 70 -> "ready"
      [] verdict = "rejected" -> "blocked"
      [] OTHER -> "needs_review"

\* The response is put together from the agents' outputs, not from the bundle.
final_assembler ==
    /\ Runs(FINAL_ASSEMBLER)
    /\ LET verdict == IF chan.critic = None THEN "unknown" ELSE chan.critic.verdict
           score == IF chan.critic = None THEN 0 ELSE chan.critic.score
       IN Return(FINAL_ASSEMBLER,
            [response |-> [verdict |-> verdict, score |-> score,
                           status |-> DeriveStatus(verdict, score),
                           menu |-> IF chan.menu = None THEN 0 ELSE chan.menu.version,
                           low |-> chan.menu # None /\ chan.menu.low,
                           summary |-> chan.summary = "briefing"]])
    /\ UNCHANGED <<broken, log>>

-----------------------------------------------------------------------------
Node ==
    \/ ops_manager \/ live_signals \/ demand_forecast \/ qdrant_enrichment
    \/ reservation \/ complaint_intelligence \/ inventory \/ market_intel
    \/ dineout_manager \/ menu_intelligence \/ aggregator \/ critic
    \/ replan_orchestrator \/ situation_summary \/ final_assembler

Next == Node \/ (\E n \in active : Merge(n)) \/ Advance

Spec == Init /\ [][Next]_vars

\* The nodes that call out: to an LLM, a service, the vector store or the database.
CallsOut ==
    FanOut \cup {LIVE_SIGNALS, DEMAND_FORECAST, QDRANT_ENRICHMENT, MENU_INTELLIGENCE,
                 CRITIC, SITUATION_SUMMARY}

\* LangGraph goes on with the run, and the nodes that only compute return; of the
\* others nothing is assumed, as the LLM clients wait without a timeout.
OwnStep ==
    \/ ops_manager \/ aggregator \/ replan_orchestrator \/ final_assembler
    \/ (\E n \in active : Merge(n)) \/ Advance

FairSpec == Spec /\ WF_vars(OwnStep)
=============================================================================
