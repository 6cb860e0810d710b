---------------------- MODULE PlanningGraphProperties -----------------------
(***************************************************************************)
(* What must hold of a planning run, and the refinement of PlanReview.     *)
(***************************************************************************)
EXTENDS PlanningGraph

\* Between two supersteps.
Boundary == DOMAIN writes = {} /\ merged = {}

\* The nodes of the fan-out each return the state they were given, older copies
\* of their siblings' outputs included; still, when a superstep begins every
\* channel holds what the node that sets it returned last.
NoLostWrite ==
    Boundary /\ outcome = "running" =>
        \A k \in Channels \ {"menu_assumptions"} : chan[k] = latest[k]

\* The response a run ends with carries the critic's verdict on the very menu
\* it contains, however many attempts there were; and the critic was shown that
\* menu as it is, unless the response still highlights a dish that the aggregator
\* had moved out of the bundle's highlights: final_assembler.py takes the menu
\* from the agent's output, and not from the bundle that was judged.
VerdictIsOnTheMenu ==
    outcome = "responded" /\ chan.error = None =>
        /\ chan.critic.of = chan.response.menu /\ chan.bundle.menu = chan.response.menu
        /\ chan.response.verdict = chan.critic.verdict
        /\ chan.critic.patched <=> chan.response.low

\* A response that is ready was approved, on a plan without sanity errors and
\* with a matching DecisionLog row, unless the decision was forced.
ReadyIsJustified ==
    outcome = "responded" /\ chan.response.status = "ready" =>
        /\ chan.critic.verdict = "approved"
        /\ ~chan.critic.forced =>
            /\ ~chan.critic.errors
            /\ [of |-> chan.response.menu, verdict |-> "approved"] \in log

\* A node that calls out has not returned yet.
Waits == outcome = "running" /\ \E n \in CallsOut : Runs(n)

\* Every run comes to a response, whatever fails on the way and however often
\* the plan is redone, unless a call of an agent never returns: neither LangGraph's
\* limit on supersteps nor an exception ends it, save for two that nothing
\* catches, of the market node's own query and of the aggregator on an LLM's
\* answer of another shape than it was asked for.
RunAnswers ==
    \/ <>[]Waits
    \/ outcome = "running" ~>
        \/ outcome = "responded"
        \/ /\ outcome = "raised"
           /\ \/ MARKET_INTEL \in active /\ request.swiggy
              \/ AGGREGATOR \in active /\ Malformed

-----------------------------------------------------------------------------
(* The refinement: the reviewer sees menus, verdicts and the end of the run. *)

Draft == IF chan.menu = None THEN 0 ELSE chan.menu.version

VerdictOnDraft ==
    IF chan.critic = None \/ chan.menu = None THEN None
    ELSE IF chan.critic.of # Draft THEN None ELSE chan.critic.verdict

Stage ==
    IF outcome = "running" THEN "working"
    ELSE IF outcome = "raised" \/ chan.error # None THEN "abandoned"
    ELSE "published"

Review == INSTANCE PlanReview WITH
    MaxDrafts <- MaxReplans + 1, draft <- Draft, verdict <- VerdictOnDraft, stage <- Stage

\* Every run is one the plan review allows: each menu is reviewed once before
\* the next one or the response, and what is published is the latest.
ImplementsReview == Review!Spec
-----------------------------------------------------------------------------
(* The inductive invariant *)

Supersteps == {FanOut} \cup {{n} : n \in
    {OPS_MANAGER, LIVE_SIGNALS, DEMAND_FORECAST, QDRANT_ENRICHMENT, MENU_INTELLIGENCE, AGGREGATOR,
     CRITIC, REPLAN_ORCHESTRATOR, SITUATION_SUMMARY, FINAL_ASSEMBLER}}

\* The channels a node sets.
Keys(n) ==
    CASE n = OPS_MANAGER -> {"error"}
      [] n = LIVE_SIGNALS -> {"signals"}
      [] n = DEMAND_FORECAST -> {"forecast"}
      [] n = QDRANT_ENRICHMENT -> {"shared"}
      [] n = RESERVATION -> {"reservation"}
      [] n = COMPLAINT_INTELLIGENCE -> {"complaint"}
      [] n = INVENTORY -> {"inventory"}
      [] n = MARKET_INTEL -> {"market"}
      [] n = DINEOUT_MANAGER -> {"dineout"}
      [] n = MENU_INTELLIGENCE -> {"menu", "menu_assumptions"}
      [] n = AGGREGATOR -> {"bundle"}
      [] n = CRITIC -> {"critic"}
      [] n = REPLAN_ORCHESTRATOR -> {"replan_count", "replan_context"}
      [] n = SITUATION_SUMMARY -> {"summary"}
      [] n = FINAL_ASSEMBLER -> {"response"}

\* The types of a state of the channels.
Typed(c) ==
    /\ c = [k \in Channels |-> c[k]]
    /\ c.error \in Texts \cup {None}
    /\ c.menu \in Menu \cup {None} /\ c.menu_assumptions \in Nat \cup {None}
    /\ c.bundle \in Bundle \cup {None}
    /\ c.critic \in Critic \cup {None}
    /\ c.replan_count \in Nat /\ c.replan_context \in Seq(Nat)
    /\ c.response \in Response \cup {None}

Done == DOMAIN writes \cup merged

TypeOK ==
    /\ request \in Request
    /\ Typed(chan) /\ Typed(latest)
    /\ active \in Supersteps
    /\ Done \subseteq active /\ DOMAIN writes \cap merged = {}
    /\ outcome \in {"running", "responded", "raised"}
    /\ broken \in BOOLEAN /\ steps \in Nat

\* A return that waits to be merged brings the new values of its own keys, and
\* for the others what is there already or, for a sibling's output, nothing.
WritesInv ==
    \A n \in DOMAIN writes : \A k \in Channels :
        IF k \in Keys(n) THEN writes[n][k] = latest[k]
        ELSE writes[n][k] = None \/ (writes[n][k] = chan[k] /\ (active = FanOut => k \notin Outputs))

\* What the channels lack is in a return that waits; only a set value is ever
\* replaced; merging begins when every node is done; and the fan-out begins with
\* no output.
MergeInv ==
    /\ \A k \in Channels \ {"menu_assumptions"} :
        /\ chan[k] = latest[k] \/ \E n \in DOMAIN writes : k \in Keys(n)
        /\ latest[k] = None => chan[k] = None
    /\ merged # {} => active = Done
    /\ active = FanOut => \A n \in FanOut \ merged : \A k \in Keys(n) : chan[k] = None

\* The menu, bundle, verdict and counter of an attempt that begins, of one with
\* no verdict yet, and of one that has its verdict.
Begun(c) ==
    \/ c.menu = None /\ c.critic = None /\ c.replan_count = 0
    \/ /\ c.menu # None /\ c.critic # None
       /\ c.critic.of = c.menu.version /\ c.critic.verdict # "approved"
       /\ c.replan_count = c.menu.version /\ c.replan_count <= MaxReplans

Drafted(c) ==
    /\ c.menu # None /\ c.menu.version = c.replan_count + 1 /\ c.replan_count <= MaxReplans
    /\ c.critic = None \/ (c.critic # None /\ c.critic.of = c.replan_count)

Bundled(c) ==
    /\ c.bundle # None /\ c.menu # None
    /\ c.bundle.menu = c.menu.version /\ c.bundle.patched = c.menu.low

Reviewed(c) ==
    /\ Bundled(c) /\ c.critic # None
    /\ c.critic.of = c.menu.version /\ c.critic.patched = c.menu.low
    /\ c.menu.version = c.replan_count + 1 /\ c.replan_count <= MaxReplans

Settled(c) == Reviewed(c) /\ (c.critic.verdict = "approved" \/ c.replan_count = MaxReplans)

Refused(c) == c.error # None /\ c.menu = None /\ c.critic = None

\* What a response says of the plan.
Reported(c) ==
    /\ c.response # None
    /\ c.error = None =>
        /\ c.response.menu = c.menu.version /\ c.response.low = c.menu.low
        /\ c.response.verdict = c.critic.verdict
    /\ c.response.status = "ready" =>
        c.error = None /\ c.response.verdict = "approved"

\* How far the plan is in state c, when these nodes of superstep
\* at are done.
Position(at, c, done) ==
    /\ c.error # None => (at = {OPS_MANAGER} /\ done # {}) \/ at = {FINAL_ASSEMBLER}
    /\ at = {OPS_MANAGER} \/ (at = {LIVE_SIGNALS} /\ done = {}) => c.signals = None
    /\ at \in {{OPS_MANAGER}, {LIVE_SIGNALS}, {DEMAND_FORECAST}, {QDRANT_ENRICHMENT}} =>
        \A k \in Outputs : c[k] = None
    /\ at \in {{OPS_MANAGER}, {LIVE_SIGNALS}, {DEMAND_FORECAST}, {QDRANT_ENRICHMENT}, FanOut} =>
        c.menu = None /\ c.critic = None /\ c.replan_count = 0
    /\ at = {MENU_INTELLIGENCE} /\ done = {} => Begun(c)
    /\ at = {MENU_INTELLIGENCE} /\ done # {} => Drafted(c)
    /\ at = {AGGREGATOR} => Drafted(c) /\ (done # {} => Bundled(c))
    /\ at = {CRITIC} => IF done = {} THEN Drafted(c) /\ Bundled(c) ELSE Reviewed(c)
    /\ at = {REPLAN_ORCHESTRATOR} =>
        /\ done = {} => Reviewed(c) /\ c.replan_count < MaxReplans /\ c.critic.verdict # "approved"
        /\ done # {} => Begun(c) /\ c.menu # None
    /\ at = {SITUATION_SUMMARY} => Settled(c)
    /\ at = {FINAL_ASSEMBLER} =>
        /\ IF c.error = None THEN Settled(c) ELSE Refused(c)
        /\ done # {} => Reported(c)

\* An approval that was not forced is without errors and in the log.
LogInv(c) ==
    c.critic # None /\ c.critic.verdict = "approved" /\ ~c.critic.forced =>
        ~c.critic.errors /\ [of |-> c.critic.of, verdict |-> "approved"] \in log

EndInv == outcome = "responded" => active = {FINAL_ASSEMBLER} /\ merged = active

IInv ==
    /\ TypeOK /\ WritesInv /\ MergeInv /\ EndInv
    /\ Position(active, chan, merged) /\ Position(active, latest, Done)
    /\ LogInv(chan) /\ LogInv(latest)
=============================================================================
