------------------------ MODULE PlanningGraphProofs -------------------------
(***************************************************************************)
(* Proofs about one run of the planning graph, for any request, any        *)
(* orders of the merge, any outputs and failures of the nodes and any      *)
(* limits on replans and supersteps: no node's output is lost, the verdict *)
(* of a response is on its menu, and the run implements PlanReview.        *)
(***************************************************************************)
EXTENDS PlanningGraphProperties, TLAPS

USE DEF OPS_MANAGER, LIVE_SIGNALS, DEMAND_FORECAST, QDRANT_ENRICHMENT, RESERVATION,
        COMPLAINT_INTELLIGENCE, INVENTORY, MARKET_INTEL, DINEOUT_MANAGER, MENU_INTELLIGENCE,
        AGGREGATOR, CRITIC, REPLAN_ORCHESTRATOR, SITUATION_SUMMARY, FINAL_ASSEMBLER

-----------------------------------------------------------------------------
(* The channels *)

\* The parallel nodes set one output each, and together all of them.
LEMMA FanOutKeys ==
    /\ \A n \in FanOut : Keys(n) \subseteq Outputs /\ "menu_assumptions" \notin Keys(n)
    /\ \A n, m \in FanOut : n # m => Keys(n) \cap Keys(m) = {}
    /\ \A k \in Outputs : \E n \in FanOut : k \in Keys(n)
<1>1. \A k \in Outputs : \E n \in FanOut : k \in Keys(n)
  <2>1. /\ "reservation" \in Keys(RESERVATION) /\ "complaint" \in Keys(COMPLAINT_INTELLIGENCE)
        /\ "inventory" \in Keys(INVENTORY) /\ "market" \in Keys(MARKET_INTEL)
        /\ "dineout" \in Keys(DINEOUT_MANAGER)
    BY DEF Keys
  <2> QED
    BY <2>1 DEF Outputs, FanOut
<1> QED
  BY <1>1 DEF FanOut, Keys, Outputs

\* A node is alone in its superstep, or one of the parallel ones.
LEMMA SuperstepOf ==
    ASSUME active \in Supersteps, NEW n \in active
    PROVE  IF n \in FanOut THEN active = FanOut ELSE active = {n}
BY DEF Supersteps, FanOut

\* Position looks at no assumptions of the menu.
LEMMA PositionAgrees ==
    ASSUME NEW at, NEW c, NEW d, NEW done,
           \A k \in Channels \ {"menu_assumptions"} : c[k] = d[k],
           Position(at, c, done)
    PROVE  Position(at, d, done)
<1>1. /\ c.error = d.error /\ c.menu = d.menu /\ c.critic = d.critic /\ c.bundle = d.bundle
      /\ c.signals = d.signals /\ c.replan_count = d.replan_count /\ c.response = d.response
      /\ \A k \in Outputs : c[k] = d[k]
  BY DEF Channels, Outputs
<1> QED
  BY <1>1 DEF Position, Begun, Drafted, Bundled, Reviewed, Settled, Refused, Reported

-----------------------------------------------------------------------------
(* A node that returns *)

\* Before a node returns, nothing of its superstep has been merged, and the
\* channels it sets hold the latest values.
LEMMA BeforeReturn ==
    ASSUME IInv, NEW n, Runs(n)
    PROVE  /\ outcome = "running" /\ n \in active /\ n \notin Done /\ merged = {}
           /\ \A k \in Keys(n) \cap Channels : k # "menu_assumptions" => chan[k] = latest[k]
           /\ n \in FanOut =>
                /\ active = FanOut
                /\ \A k \in Outputs : chan[k] = None
           /\ n \notin FanOut =>
                /\ active = {n} /\ Done = {} /\ DOMAIN writes = {}
                /\ \A k \in Channels : k # "menu_assumptions" => chan[k] = latest[k]
           /\ n # FINAL_ASSEMBLER => chan.error = None
<1>1. outcome = "running" /\ n \in active /\ n \notin Done
  BY DEF Runs, Done
<1>2. merged = {}
  BY <1>1 DEF IInv, MergeInv
<1>3. active \in Supersteps /\ Done \subseteq active
  BY DEF IInv, TypeOK
<1>4. CASE n \in FanOut
  <2>1. active = FanOut
    BY <1>1, <1>3, <1>4, SuperstepOf
  <2>2. \A k \in Outputs : chan[k] = None
    BY <1>2, <2>1, FanOutKeys DEF IInv, MergeInv
  <2>3. \A k \in Keys(n) \cap Channels : k # "menu_assumptions" => chan[k] = latest[k]
    <3>1. \A m \in DOMAIN writes : m \in FanOut /\ m # n
      BY <1>1, <1>3, <2>1 DEF Done
    <3> QED
      BY <3>1, <1>4, FanOutKeys DEF IInv, MergeInv
  <2>4. chan.error = None
    <3>1. active # {OPS_MANAGER} /\ active # {FINAL_ASSEMBLER}
      BY <2>1 DEF FanOut
    <3> QED
      BY <3>1 DEF IInv, Position
  <2> QED
    BY <1>1, <1>2, <1>4, <2>1, <2>2, <2>3, <2>4
<1>5. CASE n \notin FanOut
  <2>1. active = {n}
    BY <1>1, <1>3, <1>5, SuperstepOf
  <2>2. Done = {} /\ DOMAIN writes = {}
    BY <1>1, <1>3, <2>1 DEF Done
  <2>3. \A k \in Channels : k # "menu_assumptions" => chan[k] = latest[k]
    BY <2>2 DEF IInv, MergeInv
  <2>4. n # FINAL_ASSEMBLER => chan.error = None
    <3>1. n # FINAL_ASSEMBLER => active # {FINAL_ASSEMBLER}
      BY <2>1
    <3>2. Position(active, chan, {})
      BY <1>2 DEF IInv
    <3> QED
      BY <3>1, <3>2 DEF Position
  <2> QED
    BY <1>1, <1>2, <1>5, <2>1, <2>2, <2>3, <2>4
<1> QED
  BY <1>4, <1>5

\* What is left to show of a node that returns is how its own values fit.
LEMMA ReturnInv ==
    ASSUME IInv, NEW n, Runs(n), NEW update, Return(n, update),
           chan.error = None \/ n = FINAL_ASSEMBLER,
           DOMAIN update \subseteq Keys(n),
           "menu_assumptions" \in Keys(n) => "menu_assumptions" \in DOMAIN update,
           \A k \in DOMAIN update : k # "menu_assumptions" => update[k] # None \/ chan[k] = None,
           Typed(With(latest, update)),
           Position(active, With(latest, update), Done \cup {n}),
           log \subseteq log', LogInv(latest)', broken' \in BOOLEAN
    PROVE  IInv'
<1>1. /\ writes' = [m \in DOMAIN writes \cup {n} |->
                        IF m = n THEN With(chan, update) ELSE writes[m]]
      /\ latest' = With(latest, update)
      /\ UNCHANGED <<request, chan, active, merged, outcome, steps>>
  BY DEF Return
<1>2. /\ outcome = "running" /\ n \in active /\ n \notin Done /\ merged = {}
      /\ \A k \in Keys(n) \cap Channels : k # "menu_assumptions" => chan[k] = latest[k]
      /\ n \in FanOut => active = FanOut /\ \A k \in Outputs : chan[k] = None
      /\ n \notin FanOut => active = {n} /\ DOMAIN writes = {}
  BY BeforeReturn
<1>3. DOMAIN writes' = DOMAIN writes \cup {n} /\ Done' = Done \cup {n}
  BY <1>1 DEF Done
<1>4. \A k \in Channels :
        /\ latest'[k] = IF k \in DOMAIN update THEN update[k] ELSE latest[k]
        /\ writes'[n][k] = IF k \in DOMAIN update THEN update[k] ELSE chan[k]
  BY <1>1 DEF With
<1>5. \A m \in DOMAIN writes : writes'[m] = writes[m] /\ m # n
  BY <1>1, <1>2 DEF Done
<1>6. TypeOK'
  BY <1>1, <1>2, <1>3 DEF IInv, TypeOK, Done
<1>7. WritesInv'
  <2>1. ASSUME NEW k \in Channels
        PROVE  IF k \in Keys(n) THEN writes'[n][k] = latest'[k]
               ELSE writes'[n][k] = None
                    \/ (writes'[n][k] = chan[k] /\ (active = FanOut => k \notin Outputs))
    <3>1. CASE k \in Keys(n)
      BY <1>2, <1>4, <3>1
    <3>2. CASE k \notin Keys(n)
      <4>1. writes'[n][k] = chan[k]
        BY <1>4, <3>2
      <4>2. active = FanOut /\ k \in Outputs => chan[k] = None
        BY <1>2
      <4> QED
        BY <3>2, <4>1, <4>2
    <3> QED
      BY <3>1, <3>2
  <2>2. ASSUME NEW m \in DOMAIN writes, NEW k \in Channels
        PROVE  IF k \in Keys(m) THEN writes'[m][k] = latest'[k]
               ELSE writes'[m][k] = None
                    \/ (writes'[m][k] = chan[k] /\ (active = FanOut => k \notin Outputs))
    <3>1. k \in Keys(m) => k \notin DOMAIN update
      <4>1. n \in FanOut /\ m \in FanOut /\ m # n
        BY <1>2, <1>5 DEF IInv, TypeOK, Done
      <4> QED
        BY <4>1, FanOutKeys
    <3> QED
      BY <1>4, <1>5, <3>1 DEF IInv, WritesInv
  <2> QED
    BY <1>1, <1>3, <2>1, <2>2 DEF WritesInv
<1>8. MergeInv'
  <2>1. ASSUME NEW k \in Channels \ {"menu_assumptions"}
        PROVE  /\ chan[k] = latest'[k] \/ \E m \in DOMAIN writes \cup {n} : k \in Keys(m)
               /\ latest'[k] = None => chan[k] = None
    BY <1>4 DEF IInv, MergeInv
  <2> QED
    BY <1>1, <1>2, <1>3, <2>1 DEF IInv, MergeInv
<1>9. EndInv'
  BY <1>1, <1>2 DEF EndInv
<1>10. Position(active, chan, merged)' /\ Position(active, latest, Done)'
  BY <1>1, <1>3 DEF IInv
<1>11. LogInv(chan)'
  BY <1>1 DEF IInv, LogInv
<1> QED
  BY <1>6, <1>7, <1>8, <1>9, <1>10, <1>11 DEF IInv

-----------------------------------------------------------------------------
(* Merging, and the next superstep *)

\* Each return is merged once, and of its values only the node's own matter.
LEMMA MergePreserves ==
    ASSUME IInv, NEW n \in active, Merge(n)
    PROVE  IInv'
<1>1. /\ outcome = "running" /\ active = Done /\ n \in DOMAIN writes /\ n \notin merged
      /\ chan' = [k \in Channels |-> keep_last(chan[k], writes[n][k])]
      /\ writes' = [m \in DOMAIN writes \ {n} |-> writes[m]]
      /\ merged' = merged \cup {n}
      /\ UNCHANGED <<request, active, outcome, broken, log, latest, steps>>
  BY DEF Merge, Done, IInv, TypeOK
<1>2. DOMAIN writes' = DOMAIN writes \ {n} /\ Done' = Done
  BY <1>1 DEF Done
<1>3. IF n \in FanOut THEN active = FanOut ELSE active = {n}
  BY SuperstepOf DEF IInv, TypeOK
<1>4. \A k \in Channels :
        chan'[k] = IF k \in Keys(n) /\ latest[k] # None THEN latest[k] ELSE chan[k]
  BY <1>1 DEF keep_last, IInv, WritesInv
<1>5. \A k \in Channels \cap Keys(n) : k # "menu_assumptions" => chan'[k] = latest[k]
  BY <1>4 DEF IInv, MergeInv
<1>6. TypeOK'
  <2>1. Typed(chan')
    <3>1. chan' = [k \in Channels |-> chan'[k]]
      BY <1>1
    <3>2. \A k \in Channels : chan'[k] = chan[k] \/ chan'[k] = latest[k]
      BY <1>4
    <3>3. /\ chan'.error \in {chan.error, latest.error} /\ chan'.menu \in {chan.menu, latest.menu}
          /\ chan'.menu_assumptions \in {chan.menu_assumptions, latest.menu_assumptions}
          /\ chan'.bundle \in {chan.bundle, latest.bundle}
          /\ chan'.critic \in {chan.critic, latest.critic}
          /\ chan'.replan_count \in {chan.replan_count, latest.replan_count}
          /\ chan'.replan_context \in {chan.replan_context, latest.replan_context}
          /\ chan'.response \in {chan.response, latest.response}
      BY <3>2 DEF Channels
    <3>4. Typed(chan) /\ Typed(latest)
      BY DEF IInv, TypeOK
    <3> QED
      BY <3>1, <3>3, <3>4 DEF Typed
  <2> QED
    BY <1>1, <1>2, <2>1 DEF IInv, TypeOK, Done
<1>7. WritesInv'
  <2>1. ASSUME NEW m \in DOMAIN writes \ {n}, NEW k \in Channels \ Keys(m)
        PROVE  writes[m][k] = None \/ (writes[m][k] = chan'[k] /\ (active = FanOut => k \notin Outputs))
    <3>1. n \in FanOut /\ active = FanOut
      BY <1>1, <1>3 DEF Done
    <3>2. k \notin Outputs => k \notin Keys(n)
      BY <3>1, FanOutKeys
    <3>3. writes[m][k] = None \/ (writes[m][k] = chan[k] /\ k \notin Outputs)
      BY <2>1, <3>1 DEF IInv, WritesInv
    <3> QED
      BY <1>4, <3>2, <3>3
  <2>2. ASSUME NEW m \in DOMAIN writes \ {n}, NEW k \in Channels, k \in Keys(m)
        PROVE  writes[m][k] = latest[k]
    BY <2>2 DEF IInv, WritesInv
  <2> QED
    BY <1>1, <1>2, <2>1, <2>2 DEF WritesInv
<1>8. MergeInv'
  <2>1. ASSUME NEW k \in Channels \ {"menu_assumptions"}
        PROVE  /\ chan'[k] = latest[k] \/ \E m \in DOMAIN writes \ {n} : k \in Keys(m)
               /\ latest[k] = None => chan'[k] = None
    <3>1. CASE k \in Keys(n)
      BY <1>5, <3>1
    <3>2. CASE k \notin Keys(n)
      BY <1>4, <3>2 DEF IInv, MergeInv
    <3> QED
      BY <3>1, <3>2
  <2>2. ASSUME active = FanOut, NEW m \in FanOut \ merged', NEW k \in Keys(m)
        PROVE  chan'[k] = None
    <3>1. n \in FanOut /\ m \in FanOut /\ m # n
      BY <1>1, <2>2
    <3>2. k \notin Keys(n) /\ k \in Outputs
      BY <3>1, FanOutKeys
    <3>3. chan[k] = None /\ k \in Channels
      BY <1>1, <2>2, <3>2 DEF IInv, MergeInv, Channels
    <3> QED
      BY <1>4, <3>2, <3>3
  <2> QED
    BY <1>1, <1>2, <2>1, <2>2 DEF MergeInv
<1>9. EndInv'
  BY <1>1 DEF EndInv
<1>10. Position(active, latest, Done)' /\ LogInv(latest)'
  BY <1>1, <1>2 DEF IInv, LogInv
<1>11. Position(active, chan, merged)' /\ LogInv(chan)'
  <2>1. CASE n \in FanOut
    <3>1. active = FanOut /\ Keys(n) \subseteq Outputs
      BY <1>3, <2>1, FanOutKeys
    <3>2. /\ chan'.error = chan.error /\ chan'.menu = chan.menu /\ chan'.critic = chan.critic
          /\ chan'.replan_count = chan.replan_count
      BY <1>4, <3>1 DEF Channels, Outputs
    <3>3. /\ active # {OPS_MANAGER} /\ active # {LIVE_SIGNALS} /\ active # {DEMAND_FORECAST}
          /\ active # {QDRANT_ENRICHMENT} /\ active # {MENU_INTELLIGENCE} /\ active # {AGGREGATOR}
          /\ active # {CRITIC} /\ active # {REPLAN_ORCHESTRATOR} /\ active # {SITUATION_SUMMARY}
          /\ active # {FINAL_ASSEMBLER}
      BY <3>1 DEF FanOut
    <3>4. Position(active, chan', merged')
      BY <3>1, <3>2, <3>3 DEF IInv, Position
    <3>5. LogInv(chan)'
      BY <1>1, <3>2 DEF IInv, LogInv
    <3> QED
      BY <1>1, <3>4, <3>5
  <2>2. CASE n \notin FanOut
    <3>1. active = {n} /\ merged' = Done
      BY <1>1, <1>2, <1>3, <2>2 DEF Done
    <3>2. \A k \in Channels \ {"menu_assumptions"} : latest[k] = chan'[k]
      <4>1. ASSUME NEW k \in Channels \ {"menu_assumptions"}, k \notin Keys(n)
            PROVE  latest[k] = chan'[k]
        <5>1. \A m \in DOMAIN writes : m = n
          BY <3>1 DEF IInv, TypeOK, Done
        <5> QED
          BY <1>4, <4>1, <5>1 DEF IInv, MergeInv
      <4> QED
        BY <1>5, <4>1
    <3>3. Position(active, chan', merged')
      <4>1. Position(active, latest, Done)
        BY DEF IInv
      <4> HIDE DEF Done
      <4> QED
        BY <3>1, <3>2, <4>1, PositionAgrees
    <3>4. chan'.critic = latest.critic
      BY <3>2 DEF Channels
    <3> QED
      BY <1>1, <3>3, <3>4 DEF IInv, LogInv
  <2> QED
    BY <2>1, <2>2
<1> QED
  BY <1>6, <1>7, <1>8, <1>9, <1>10, <1>11 DEF IInv

\* Where the edges lead.
LEMMA TargetsOf ==
    /\ Targets(OPS_MANAGER) = {IF chan.error # None THEN FINAL_ASSEMBLER ELSE LIVE_SIGNALS}
    /\ Targets(LIVE_SIGNALS) = {DEMAND_FORECAST}
    /\ Targets(DEMAND_FORECAST) = {QDRANT_ENRICHMENT}
    /\ Targets(QDRANT_ENRICHMENT) = FanOut
    /\ \A n \in FanOut : Targets(n) = {MENU_INTELLIGENCE}
    /\ Targets(MENU_INTELLIGENCE) = {AGGREGATOR}
    /\ Targets(AGGREGATOR) = {CRITIC}
    /\ Targets(CRITIC) = RouteAfterCritic
    /\ Targets(REPLAN_ORCHESTRATOR) = {MENU_INTELLIGENCE}
    /\ Targets(SITUATION_SUMMARY) = {FINAL_ASSEMBLER}
    /\ Targets(FINAL_ASSEMBLER) = {}
BY DEF Targets, TargetsAfterReplan, FanOut

\* The next superstep begins where the plan is.
LEMMA NextPosition ==
    ASSUME IInv, merged = active, UNION {Targets(n) : n \in active} # {}
    PROVE  /\ UNION {Targets(n) : n \in active} \in Supersteps
           /\ Position(UNION {Targets(n) : n \in active}, chan, {})
           /\ UNION {Targets(n) : n \in active} = FanOut => \A k \in Outputs : chan[k] = None
<1> DEFINE next == UNION {Targets(n) : n \in active}
<1>1. active \in Supersteps /\ active # {} /\ merged # {} /\ merged = active
  BY DEF IInv, TypeOK, Supersteps, FanOut
<1>2. Position(active, chan, active)
  BY <1>1 DEF IInv
<1>3. \A n : active = {n} => next = Targets(n)
  OBVIOUS
<1> HIDE DEF next
<1> SUFFICES next \in Supersteps /\ Position(next, chan, {}) /\ (next = FanOut => \A k \in Outputs : chan[k] = None)
  BY DEF next
<1>4. CASE active = {OPS_MANAGER}
  <2>1. next = {IF chan.error # None THEN FINAL_ASSEMBLER ELSE LIVE_SIGNALS}
    BY <1>3, <1>4, TargetsOf
  <2> QED
    BY <1>2, <1>4, <2>1 DEF Supersteps, FanOut, Position, Refused
<1>5. CASE active \in {{LIVE_SIGNALS}, {DEMAND_FORECAST}, {QDRANT_ENRICHMENT}}
  <2>1. \/ active = {LIVE_SIGNALS} /\ next = {DEMAND_FORECAST}
        \/ active = {DEMAND_FORECAST} /\ next = {QDRANT_ENRICHMENT}
        \/ active = {QDRANT_ENRICHMENT} /\ next = FanOut
    BY <1>3, <1>5, TargetsOf
  <2> QED
    BY <1>2, <2>1 DEF Supersteps, FanOut, Position
<1>6. CASE active = FanOut
  <2>1. next = {MENU_INTELLIGENCE}
    <3>1. \A n \in active : Targets(n) = {MENU_INTELLIGENCE}
      BY <1>6, TargetsOf
    <3> QED
      BY <1>1, <3>1 DEF next
  <2> QED
    BY <1>2, <1>6, <2>1 DEF Supersteps, FanOut, Position, Begun
<1>7. CASE active \in {{MENU_INTELLIGENCE}, {AGGREGATOR}, {REPLAN_ORCHESTRATOR}, {SITUATION_SUMMARY}}
  <2>1. \/ active = {MENU_INTELLIGENCE} /\ next = {AGGREGATOR}
        \/ active = {AGGREGATOR} /\ next = {CRITIC}
        \/ active = {REPLAN_ORCHESTRATOR} /\ next = {MENU_INTELLIGENCE}
        \/ active = {SITUATION_SUMMARY} /\ next = {FINAL_ASSEMBLER}
    BY <1>3, <1>7, TargetsOf
  <2> QED
    BY <1>1, <1>2, <2>1 DEF Supersteps, FanOut, Position
<1>8. CASE active = {CRITIC}
  <2>1. Reviewed(chan) /\ chan.error = None
    BY <1>1, <1>2, <1>8 DEF Position
  <2>2. next = RouteAfterCritic
    BY <1>3, <1>8, TargetsOf
  <2>3. chan.replan_count \in Nat /\ MaxReplans \in Nat
    BY BoundsAssumption DEF IInv, TypeOK, Typed
  <2>4. \/ next = {SITUATION_SUMMARY} /\ Settled(chan)
        \/ /\ next = {REPLAN_ORCHESTRATOR}
           /\ chan.replan_count < MaxReplans /\ chan.critic.verdict # "approved"
    BY <2>1, <2>2, <2>3 DEF RouteAfterCritic, Verdict, Settled, Reviewed
  <2> QED
    BY <2>1, <2>4 DEF Supersteps, FanOut, Position
<1>9. CASE active = {FINAL_ASSEMBLER}
  BY <1>3, <1>9, TargetsOf DEF next
<1> QED
  BY <1>1, <1>4, <1>5, <1>6, <1>7, <1>8, <1>9 DEF Supersteps

\* The next superstep, the end of the run, or LangGraph's error.
LEMMA AdvancePreserves ==
    ASSUME IInv, Advance
    PROVE  IInv'
<1> DEFINE next == UNION {Targets(n) : n \in active}
<1>1. /\ outcome = "running" /\ merged = active
      /\ outcome' = IF next = {} THEN "responded"
                    ELSE IF steps = RecursionLimit THEN "raised" ELSE "running"
      /\ IF outcome' = "running" THEN active' = next /\ merged' = {} /\ steps' = steps + 1
         ELSE UNCHANGED <<active, merged, steps>>
      /\ UNCHANGED <<request, chan, writes, broken, log, latest>>
  BY DEF Advance
<1>2. DOMAIN writes = {}
  BY <1>1 DEF IInv, TypeOK, Done
<1>3. CASE outcome' = "running"
  <2>1. next # {} /\ active' = next /\ merged' = {} /\ Done' = {} /\ steps' = steps + 1
    BY <1>1, <1>2, <1>3 DEF Done
  <2>2. /\ next \in Supersteps /\ Position(next, chan, {})
        /\ next = FanOut => \A k \in Outputs : chan[k] = None
    BY <1>1, <2>1, NextPosition
  <2> HIDE DEF next
  <2>3. TypeOK'
    BY <1>1, <1>2, <1>3, <2>1, <2>2 DEF IInv, TypeOK, Done
  <2>4. WritesInv'
    BY <1>1, <1>2 DEF WritesInv
  <2>5. MergeInv'
    <3>1. next = FanOut => \A n \in FanOut : \A k \in Keys(n) : chan[k] = None
      BY <2>2, FanOutKeys
    <3> QED
      BY <1>1, <1>2, <2>1, <3>1 DEF IInv, MergeInv
  <2>6. \A k \in Channels \ {"menu_assumptions"} : chan[k] = latest[k]
    BY <1>2 DEF IInv, MergeInv
  <2>7. Position(next, latest, {})
    BY <2>2, <2>6, PositionAgrees
  <2>8. EndInv' /\ LogInv(chan)' /\ LogInv(latest)'
    BY <1>1, <1>3 DEF IInv, EndInv, LogInv
  <2> QED
    BY <1>1, <2>1, <2>2, <2>3, <2>4, <2>5, <2>7, <2>8 DEF IInv
<1>4. CASE outcome' # "running"
  <2>1. UNCHANGED <<active, merged, steps, request, chan, writes, broken, log, latest, Done>>
    BY <1>1, <1>4 DEF Done
  <2>2. EndInv'
    <3>1. outcome' = "responded" => active = {FINAL_ASSEMBLER}
      <4>1. SUFFICES ASSUME next = {} PROVE active = {FINAL_ASSEMBLER}
        BY <1>1, <1>4
      <4>2. \A n \in active : Targets(n) = {}
        BY <4>1
      <4>3. RouteAfterCritic # {}
        BY DEF RouteAfterCritic
      <4>4. active \in Supersteps
        BY DEF IInv, TypeOK
      <4> HIDE DEF next
      <4> QED
        BY <4>2, <4>3, <4>4, TargetsOf DEF Supersteps, FanOut
    <3> QED
      BY <1>1, <2>1, <3>1 DEF EndInv
  <2>3. outcome' \in {"running", "responded", "raised"}
    BY <1>1
  <2> QED
    BY <2>1, <2>2, <2>3 DEF IInv, TypeOK, Typed, WritesInv, MergeInv, LogInv, Done
<1> QED
  BY <1>3, <1>4

-----------------------------------------------------------------------------
(* The nodes, one by one *)

\* A node that sets a channel of which only its being set matters.
LEMMA PlainReturn ==
    ASSUME IInv, NEW n, Runs(n), NEW update, Return(n, update),
           n \in FanOut \cup {LIVE_SIGNALS, DEMAND_FORECAST, QDRANT_ENRICHMENT, SITUATION_SUMMARY},
           DOMAIN update \subseteq Keys(n),
           \A k \in DOMAIN update : update[k] # None \/ n = LIVE_SIGNALS,
           UNCHANGED log, broken' \in BOOLEAN
    PROVE  IInv'
<1> DEFINE c == With(latest, update)
<1>1. /\ n \in FanOut => active = FanOut
      /\ n \notin FanOut => active = {n} /\ Done = {} /\ DOMAIN writes = {}
      /\ merged = {} /\ chan.error = None
  BY BeforeReturn DEF FanOut
<1>2. /\ Keys(n) \subseteq Outputs \cup {"signals", "forecast", "shared", "summary"}
      /\ n \in {LIVE_SIGNALS, DEMAND_FORECAST, QDRANT_ENRICHMENT} => Keys(n) \cap Outputs = {}
      /\ n = LIVE_SIGNALS => Keys(n) = {"signals"}
  <2>1. CASE n \in FanOut
    BY <2>1, FanOutKeys DEF FanOut
  <2>2. /\ Keys(LIVE_SIGNALS) = {"signals"} /\ Keys(DEMAND_FORECAST) = {"forecast"}
        /\ Keys(QDRANT_ENRICHMENT) = {"shared"} /\ Keys(SITUATION_SUMMARY) = {"summary"}
    BY DEF Keys
  <2> QED
    BY <2>1, <2>2 DEF Outputs, FanOut
<1>3. /\ c.error = latest.error /\ c.menu = latest.menu /\ c.bundle = latest.bundle
      /\ c.menu_assumptions = latest.menu_assumptions /\ c.critic = latest.critic
      /\ c.replan_count = latest.replan_count /\ c.replan_context = latest.replan_context
      /\ c.response = latest.response
      /\ \A k \in Channels \ Keys(n) : c[k] = latest[k]
      /\ c = [k \in Channels |-> c[k]]
  BY <1>2 DEF With, Channels, Outputs
<1> HIDE DEF c
<1>4. Typed(c)
  BY <1>3 DEF IInv, TypeOK, Typed
<1>5. Position(active, c, Done \cup {n})
  <2>1. Position(active, latest, Done)
    BY DEF IInv
  <2>2. CASE n \in FanOut
    <3>1. /\ active # {OPS_MANAGER} /\ active # {LIVE_SIGNALS} /\ active # {DEMAND_FORECAST}
          /\ active # {QDRANT_ENRICHMENT} /\ active # {MENU_INTELLIGENCE} /\ active # {AGGREGATOR}
          /\ active # {CRITIC} /\ active # {REPLAN_ORCHESTRATOR} /\ active # {SITUATION_SUMMARY}
          /\ active # {FINAL_ASSEMBLER}
      BY <1>1, <2>2 DEF FanOut
    <3> QED
      BY <1>1, <1>3, <2>1, <2>2, <3>1 DEF Position
  <2>3. CASE n \in {LIVE_SIGNALS, DEMAND_FORECAST, QDRANT_ENRICHMENT}
    <3>1. active = {n} /\ Done = {} /\ n \notin FanOut
      BY <1>1, <2>3 DEF FanOut
    <3>2. \A k \in Outputs : c[k] = latest[k]
      BY <1>2, <1>3, <2>3 DEF Channels
    <3> QED
      BY <1>3, <2>1, <2>3, <3>1, <3>2 DEF Position, FanOut
  <2>4. CASE n = SITUATION_SUMMARY
    <3>1. active = {SITUATION_SUMMARY}
      BY <1>1, <2>4 DEF FanOut
    <3> QED
      BY <1>3, <2>1, <3>1 DEF Position, FanOut, Settled, Reviewed, Bundled
  <2> QED
    BY <2>2, <2>3, <2>4
<1>6. n = LIVE_SIGNALS => chan.signals = None
  <2>1. n = LIVE_SIGNALS => active = {LIVE_SIGNALS} /\ merged = {}
    BY <1>1 DEF FanOut
  <2> QED
    BY <2>1 DEF IInv, Position
<1>7. LogInv(latest)'
  <2>1. latest' = c
    BY <1>1 DEF Return, c
  <2> QED
    BY <1>3, <2>1 DEF IInv, LogInv
<1>8. \A k \in DOMAIN update : update[k] # None \/ chan[k] = None
  BY <1>2, <1>6
<1>9. "menu_assumptions" \notin Keys(n)
  BY <1>2 DEF Outputs
<1> QED
  BY <1>1, <1>4, <1>5, <1>7, <1>8, <1>9, ReturnInv DEF c

\* The nodes before, in and after the fan-out that set such a channel.
LEMMA PlainNodesPreserve ==
    ASSUME IInv, \/ live_signals \/ demand_forecast \/ qdrant_enrichment \/ reservation
                 \/ complaint_intelligence \/ inventory \/ dineout_manager \/ situation_summary
    PROVE  IInv'
<1>1. ASSUME NEW n, NEW channel, NEW values, Agent(n, channel, values),
             n \in FanOut \cup {QDRANT_ENRICHMENT}, channel \in Keys(n), None \notin values
      PROVE  IInv'
  <2>1. PICK v \in values : Return(n, [k \in {channel} |-> v])
    BY <1>1 DEF Agent
  <2>2. Runs(n) /\ UNCHANGED <<broken, log>>
    BY <1>1 DEF Agent
  <2> QED
    BY <1>1, <2>1, <2>2, PlainReturn DEF IInv, TypeOK
<1>2. None \notin Texts
  BY NoneAssumption
<1>3. ASSUME live_signals PROVE IInv'
  <2>1. PICK v \in {None, "output"} :
            Return(LIVE_SIGNALS, IF request.simulation THEN NoKeys ELSE [signals |-> v])
    BY <1>3 DEF live_signals
  <2> DEFINE update == IF request.simulation THEN NoKeys ELSE [signals |-> v]
  <2>2. DOMAIN update \subseteq Keys(LIVE_SIGNALS)
    BY DEF NoKeys, Keys
  <2>3. Runs(LIVE_SIGNALS) /\ UNCHANGED <<broken, log>> /\ Return(LIVE_SIGNALS, update)
    BY <1>3, <2>1 DEF live_signals
  <2> HIDE DEF update
  <2> QED
    BY <2>2, <2>3, PlainReturn DEF IInv, TypeOK
<1>4. ASSUME demand_forecast PROVE IInv'
  <2>1. PICK v \in {"output", "odd"} :
            /\ Runs(DEMAND_FORECAST) /\ Return(DEMAND_FORECAST, [forecast |-> v])
            /\ UNCHANGED log /\ broken' \in BOOLEAN
    <3>1. PICK v \in IF request.simulation THEN {"output"} ELSE {"output", "odd"} :
            /\ Return(DEMAND_FORECAST, [forecast |-> v])
            /\ broken' \in IF request.simulation \/ v = "odd" THEN {FALSE} ELSE BOOLEAN
      BY <1>4 DEF demand_forecast
    <3>2. v \in {"output", "odd"}
      OBVIOUS
    <3>3. broken' \in BOOLEAN
      BY <3>1
    <3>4. Runs(DEMAND_FORECAST) /\ UNCHANGED log
      BY <1>4 DEF demand_forecast
    <3> QED
      BY <3>1, <3>2, <3>3, <3>4
  <2> DEFINE update == [forecast |-> v]
  <2>2. DOMAIN update \subseteq Keys(DEMAND_FORECAST)
    BY DEF Keys
  <2>3. DOMAIN update = {"forecast"} /\ update["forecast"] = v /\ None # v
    BY <1>2 DEF Texts
  <2> HIDE DEF update
  <2> QED
    BY <2>1, <2>2, <2>3, PlainReturn DEF update
<1>5. ASSUME situation_summary PROVE IInv'
  <2>1. PICK v \in {"briefing", "failed"} : Return(SITUATION_SUMMARY, [summary |-> v])
    BY <1>5 DEF situation_summary
  <2> DEFINE update == [summary |-> v]
  <2>2. DOMAIN update \subseteq Keys(SITUATION_SUMMARY)
    BY DEF Keys
  <2>3. Runs(SITUATION_SUMMARY) /\ UNCHANGED <<broken, log>> /\ Return(SITUATION_SUMMARY, update)
    BY <1>5, <2>1 DEF situation_summary
  <2>4. DOMAIN update = {"summary"} /\ update["summary"] = v /\ None # v
    BY <1>2 DEF Texts
  <2> HIDE DEF update
  <2> QED
    BY <2>2, <2>3, <2>4, PlainReturn DEF IInv, TypeOK
<1>6. /\ "shared" \in Keys(QDRANT_ENRICHMENT) /\ "reservation" \in Keys(RESERVATION)
      /\ "complaint" \in Keys(COMPLAINT_INTELLIGENCE) /\ "inventory" \in Keys(INVENTORY)
      /\ "dineout" \in Keys(DINEOUT_MANAGER)
  BY DEF Keys
<1>7. /\ {RESERVATION, COMPLAINT_INTELLIGENCE, INVENTORY, DINEOUT_MANAGER} \subseteq FanOut
      /\ None \notin {"output"} /\ None \notin {"low"}
      /\ None \notin {"output", "odd"} /\ None \notin {"output", "low", "odd"}
  BY <1>2 DEF FanOut, Texts
<1> QED
  BY <1>1, <1>3, <1>4, <1>5, <1>6, <1>7
     DEF qdrant_enrichment, reservation, complaint_intelligence, inventory, dineout_manager

\* A run that an exception ends leaves everything as it is.
LEMMA RaisedInv ==
    ASSUME IInv, outcome' = "raised",
           UNCHANGED <<request, chan, active, writes, merged, broken, log, latest, steps>>
    PROVE  IInv'
BY DEF IInv, TypeOK, WritesInv, MergeInv, EndInv, LogInv, Done

\* The market node returns, or the run ends.
LEMMA MarketPreserves ==
    ASSUME IInv, market_intel
    PROVE  IInv'
<1>1. ASSUME Agent(MARKET_INTEL, "market", {"output"}) PROVE IInv'
  <2>1. /\ Runs(MARKET_INTEL) /\ Return(MARKET_INTEL, [k \in {"market"} |-> "output"])
        /\ UNCHANGED <<broken, log>>
    BY <1>1 DEF Agent
  <2>2. "market" \in Keys(MARKET_INTEL) /\ MARKET_INTEL \in FanOut /\ None # "output"
    BY NoneAssumption DEF Keys, FanOut, Texts
  <2> QED
    BY <2>1, <2>2, PlainReturn DEF IInv, TypeOK
<1>2. ASSUME outcome' = "raised",
             UNCHANGED <<request, chan, active, writes, merged, broken, log, latest, steps>>
      PROVE  IInv'
  BY <1>2, RaisedInv
<1> QED
  BY <1>1, <1>2 DEF market_intel

\* An error is set at the very start, or not at all.
LEMMA OpsManagerPreserves ==
    ASSUME IInv, ops_manager
    PROVE  IInv'
<1> DEFINE update == UnknownScenario(request.supported)
           c == With(latest, update)
<1>1. Runs(OPS_MANAGER) /\ Return(OPS_MANAGER, update) /\ UNCHANGED <<broken, log>>
  BY DEF ops_manager
<1>2. /\ active = {OPS_MANAGER} /\ Done = {} /\ merged = {} /\ chan.error = None
      /\ \A k \in Channels : k # "menu_assumptions" => chan[k] = latest[k]
  BY <1>1, BeforeReturn DEF FanOut
<1>3. DOMAIN update \subseteq {"error"} /\ \A k \in DOMAIN update : update[k] \in Texts
  <2>1. CASE request.supported
    BY <2>1 DEF UnknownScenario, NoKeys
  <2>2. CASE ~request.supported
    <3>1. update = [error |-> "unknown scenario"]
      BY <2>2 DEF UnknownScenario
    <3> HIDE DEF update
    <3>2. DOMAIN update = {"error"} /\ update["error"] = "unknown scenario"
      BY <3>1
    <3> QED
      BY <3>2 DEF Texts
  <2> QED
    BY <2>1, <2>2
<1>4. Keys(OPS_MANAGER) = {"error"}
  BY DEF Keys
<1> HIDE DEF update
<1>5. /\ c = [k \in Channels |-> c[k]]
      /\ c.error \in Texts \cup {latest.error}
      /\ \A k \in Channels : k # "error" => c[k] = latest[k]
  BY <1>3 DEF With, Channels
<1>6. latest' = c
  BY <1>1, <1>2 DEF Return
<1> HIDE DEF c
<1>7. /\ c.menu = latest.menu /\ c.bundle = latest.bundle
      /\ c.menu_assumptions = latest.menu_assumptions /\ c.critic = latest.critic
      /\ c.replan_count = latest.replan_count /\ c.replan_context = latest.replan_context
      /\ c.response = latest.response /\ c.signals = latest.signals
      /\ \A k \in Outputs : c[k] = latest[k]
  BY <1>5 DEF Channels, Outputs
<1>8. Typed(c)
  BY <1>5, <1>7 DEF IInv, TypeOK, Typed
<1>9. Position(active, c, Done \cup {OPS_MANAGER})
  BY <1>2, <1>7 DEF IInv, Position, FanOut
<1>10. LogInv(latest)'
  BY <1>1, <1>6, <1>7 DEF IInv, LogInv
<1>11. \A k \in DOMAIN update : update[k] # None
  BY <1>3, NoneAssumption
<1> QED
  BY <1>1, <1>2, <1>3, <1>4, <1>8, <1>9, <1>10, <1>11, ReturnInv DEF c, IInv, TypeOK

\* A new menu is one version on, and its draft waits for a verdict.
LEMMA MenuPreserves ==
    ASSUME IInv, menu_intelligence
    PROVE  IInv'
<1>1. PICK m \in Menus :
        /\ Return(MENU_INTELLIGENCE,
               [menu |-> m, menu_assumptions |-> IF m.failed THEN None ELSE m.version])
        /\ broken' \in IF m.failed THEN {broken, TRUE} ELSE {broken}
  BY DEF menu_intelligence
<1> DEFINE assumed == IF m.failed THEN None ELSE m.version
           update == [menu |-> m, menu_assumptions |-> assumed]
           c == With(latest, update)
<1>2. Runs(MENU_INTELLIGENCE) /\ UNCHANGED log /\ Return(MENU_INTELLIGENCE, update)
      /\ broken' \in BOOLEAN
  BY <1>1 DEF menu_intelligence, IInv, TypeOK
<1>3. /\ active = {MENU_INTELLIGENCE} /\ Done = {} /\ merged = {} /\ chan.error = None
      /\ \A k \in Channels : k # "menu_assumptions" => chan[k] = latest[k]
  BY <1>2, BeforeReturn DEF FanOut
<1>4. Typed(chan) /\ Typed(latest) /\ Begun(chan)
  BY <1>3 DEF IInv, TypeOK, Position
<1>5. m \in Menu /\ m.version = chan.replan_count + 1
  <2>1. /\ chan.menu = None => chan.replan_count = 0
        /\ chan.menu # None => chan.menu \in Menu /\ chan.menu.version = chan.replan_count
    BY <1>4 DEF Typed, Begun
  <2> DEFINE version == IF chan.menu = None THEN 1 ELSE chan.menu.version + 1
  <2>2. version = chan.replan_count + 1 /\ version \in Nat
    BY <1>4, <2>1 DEF Typed
  <2>3. /\ m.version = version
        /\ m.failed \in BOOLEAN /\ m.odd \in BOOLEAN /\ m.low \in BOOLEAN
        /\ m.heard \in {<<>>, chan.replan_context}
        /\ m = [version |-> m.version, failed |-> m.failed, odd |-> m.odd, low |-> m.low,
                heard |-> m.heard]
    <3> HIDE DEF version
    <3>1. \/ m = [version |-> version, failed |-> FALSE, odd |-> FALSE, low |-> FALSE,
                  heard |-> <<>>]
          \/ m \in [version : {version}, failed : BOOLEAN, odd : BOOLEAN, low : BOOLEAN,
                    heard : {chan.replan_context}]
      BY DEF Menus, version
    <3>2. CASE m = [version |-> version, failed |-> FALSE, odd |-> FALSE, low |-> FALSE,
                    heard |-> <<>>]
      BY <3>2
    <3>3. CASE m \in [version : {version}, failed : BOOLEAN, odd : BOOLEAN, low : BOOLEAN,
                      heard : {chan.replan_context}]
      BY <3>3
    <3> QED
      BY <3>1, <3>2, <3>3
  <2> HIDE DEF version
  <2>4. m.heard \in Seq(Nat)
    <3>1. <<>> \in Seq(Nat)
      OBVIOUS
    <3> QED
      BY <1>4, <2>3, <3>1 DEF Typed
  <2> QED
    BY <2>2, <2>3, <2>4 DEF Menu
<1>6. assumed \in Nat \cup {None}
  BY <1>5 DEF Menu
<1> HIDE DEF assumed
<1>7. /\ c = [k \in Channels |-> c[k]] /\ c.menu = m /\ c.menu_assumptions = assumed
      /\ c.error = latest.error /\ c.bundle = latest.bundle /\ c.critic = latest.critic
      /\ c.replan_count = latest.replan_count /\ c.replan_context = latest.replan_context
      /\ c.response = latest.response
  BY DEF With, Channels
<1>8. /\ chan.menu = latest.menu /\ chan.critic = latest.critic /\ chan.error = latest.error
      /\ chan.replan_count = latest.replan_count
  BY <1>3 DEF Channels
<1>9. latest' = c
  BY <1>2, <1>3 DEF Return
<1>10. /\ DOMAIN update = Keys(MENU_INTELLIGENCE)
       /\ \A k \in DOMAIN update : k # "menu_assumptions" => update[k] # None
  BY <1>5, NoneAssumption DEF Keys
<1> HIDE DEF c, update
<1>11. Typed(c)
  BY <1>4, <1>5, <1>6, <1>7 DEF Typed
<1>12. Drafted(c)
  BY <1>4, <1>5, <1>7, <1>8, NoneAssumption, BoundsAssumption DEF Drafted, Begun, Typed
<1>13. Position(active, c, Done \cup {MENU_INTELLIGENCE})
  BY <1>3, <1>7, <1>8, <1>12 DEF Position, FanOut
<1>14. LogInv(latest)'
  BY <1>2, <1>7, <1>9 DEF IInv, LogInv
<1> QED
  BY <1>2, <1>3, <1>10, <1>11, <1>13, <1>14, ReturnInv DEF c

\* The bundle is of the draft.
LEMMA AggregatorPreserves ==
    ASSUME IInv, aggregator
    PROVE  IInv'
<1>0. CASE outcome' = "raised" /\
           UNCHANGED <<request, chan, active, writes, merged, broken, log, latest, steps>>
  BY <1>0, RaisedInv
<1> DEFINE bundle == [menu |-> chan.menu.version, patched |-> chan.menu.low,
                      assumed |-> chan.menu_assumptions]
           update == [bundle |-> bundle]
           c == With(latest, update)
<1> SUFFICES ASSUME Return(AGGREGATOR, update), UNCHANGED <<broken, log>>
             PROVE  IInv'
  BY <1>0 DEF aggregator
<1>1. Runs(AGGREGATOR) /\ Return(AGGREGATOR, update) /\ UNCHANGED <<broken, log>>
  BY DEF aggregator
<1>2. /\ active = {AGGREGATOR} /\ Done = {} /\ merged = {} /\ chan.error = None
      /\ \A k \in Channels : k # "menu_assumptions" => chan[k] = latest[k]
  BY <1>1, BeforeReturn DEF FanOut
<1>3. Typed(chan) /\ Typed(latest) /\ Drafted(chan)
  BY <1>2 DEF IInv, TypeOK, Position
<1>4. /\ bundle \in Bundle
      /\ bundle.menu = chan.menu.version /\ bundle.patched = chan.menu.low
  <2>1. chan.menu.version \in Nat /\ chan.menu.low \in BOOLEAN
    BY <1>3 DEF Typed, Drafted, Menu
  <2>2. chan.menu_assumptions \in Nat \cup {None}
    BY <1>3 DEF Typed
  <2> QED
    BY <2>1, <2>2 DEF Bundle
<1> HIDE DEF bundle
<1>5. /\ c = [k \in Channels |-> c[k]] /\ c.bundle = bundle
      /\ c.menu_assumptions = latest.menu_assumptions
      /\ c.error = latest.error /\ c.menu = latest.menu /\ c.critic = latest.critic
      /\ c.replan_count = latest.replan_count /\ c.replan_context = latest.replan_context
      /\ c.response = latest.response
  BY DEF With, Channels
<1>6. /\ chan.menu = latest.menu /\ chan.critic = latest.critic /\ chan.error = latest.error
      /\ chan.replan_count = latest.replan_count
  BY <1>2 DEF Channels
<1>7. latest' = c
  BY <1>1, <1>2 DEF Return
<1>8. DOMAIN update = Keys(AGGREGATOR) /\ \A k \in DOMAIN update : update[k] # None
  BY <1>4, NoneAssumption DEF Keys
<1>9. "menu_assumptions" \notin Keys(AGGREGATOR)
  BY DEF Keys
<1> HIDE DEF c, update
<1>10. Typed(c)
  BY <1>3, <1>4, <1>5 DEF Typed
<1>11. Drafted(c) /\ Bundled(c)
  BY <1>3, <1>4, <1>5, <1>6, NoneAssumption DEF Drafted, Bundled
<1>12. Position(active, c, Done \cup {AGGREGATOR})
  BY <1>2, <1>5, <1>6, <1>11 DEF Position, FanOut
<1>13. LogInv(latest)'
  BY <1>1, <1>5, <1>7 DEF IInv, LogInv
<1> QED
  BY <1>1, <1>2, <1>8, <1>9, <1>10, <1>12, <1>13, ReturnInv DEF c, IInv, TypeOK

\* A verdict is on the bundle's menu; that it is logged, if it is an approval
\* that was not forced, is left to show.
LEMMA CritiqueInv ==
    ASSUME IInv, Runs(CRITIC), NEW verdict \in Verdicts, NEW score \in Nat,
           NEW errors \in BOOLEAN, NEW logged \in BOOLEAN, NEW forced \in BOOLEAN,
           Return(CRITIC, Critique([verdict |-> verdict, score |-> score], errors, logged, forced)),
           verdict = "approved" /\ ~forced =>
                ~errors /\ [of |-> chan.bundle.menu, verdict |-> "approved"] \in log',
           log \subseteq log', broken' \in BOOLEAN
    PROVE  IInv'
<1> DEFINE v == [verdict |-> verdict, score |-> score,
                 of |-> chan.bundle.menu, patched |-> chan.bundle.patched,
                 errors |-> errors, logged |-> logged, forced |-> forced]
           update == [critic |-> v]
           c == With(latest, update)
<1>1. Return(CRITIC, update)
  BY DEF Critique
<1>2. /\ active = {CRITIC} /\ Done = {} /\ merged = {} /\ chan.error = None
      /\ \A k \in Channels : k # "menu_assumptions" => chan[k] = latest[k]
  BY BeforeReturn DEF FanOut
<1>3. Typed(chan) /\ Typed(latest) /\ Drafted(chan) /\ Bundled(chan)
  BY <1>2 DEF IInv, TypeOK, Position
<1>4. /\ v \in Critic /\ v.of = chan.bundle.menu /\ v.verdict = verdict /\ v.forced = forced
      /\ v.errors = errors /\ v.patched = chan.bundle.patched
  <2>1. chan.bundle.menu \in Nat /\ chan.bundle.patched \in BOOLEAN
    BY <1>3 DEF Typed, Bundled, Bundle
  <2> QED
    BY <2>1 DEF Critic
<1> HIDE DEF v
<1>5. /\ c = [k \in Channels |-> c[k]] /\ c.critic = v
      /\ c.menu_assumptions = latest.menu_assumptions
      /\ c.error = latest.error /\ c.menu = latest.menu /\ c.bundle = latest.bundle
      /\ c.replan_count = latest.replan_count /\ c.replan_context = latest.replan_context
      /\ c.response = latest.response
  BY DEF With, Channels
<1>6. /\ chan.menu = latest.menu /\ chan.bundle = latest.bundle /\ chan.error = latest.error
      /\ chan.replan_count = latest.replan_count
  BY <1>2 DEF Channels
<1>7. latest' = c
  BY <1>1, <1>2 DEF Return
<1>8. DOMAIN update = Keys(CRITIC) /\ \A k \in DOMAIN update : update[k] # None
  BY <1>4, NoneAssumption DEF Keys
<1>9. "menu_assumptions" \notin Keys(CRITIC)
  BY DEF Keys
<1> HIDE DEF c, update
<1>10. Typed(c)
  BY <1>3, <1>4, <1>5 DEF Typed
<1>11. Reviewed(c)
  BY <1>3, <1>4, <1>5, <1>6, NoneAssumption DEF Drafted, Bundled, Reviewed
<1>12. Position(active, c, Done \cup {CRITIC})
  BY <1>2, <1>5, <1>6, <1>11 DEF Position, FanOut
<1>13. LogInv(latest)'
  BY <1>4, <1>5, <1>7 DEF LogInv
<1> QED
  BY <1>1, <1>2, <1>8, <1>9, <1>10, <1>12, <1>13, ReturnInv DEF c

\* Forced, logged or failed.
LEMMA CriticPreserves ==
    ASSUME IInv, critic
    PROVE  IInv'
<1>1. ASSUME critic_override PROVE IInv'
  <2> DEFINE score == IF request.override = "approved" THEN 100 ELSE 0
  <2>1. request.override \in Verdicts /\ score \in Nat
    BY <1>1 DEF critic_override, IInv, TypeOK, Request
  <2>2. /\ Runs(CRITIC) /\ UNCHANGED <<broken, log>>
        /\ Return(CRITIC, Critique([verdict |-> request.override, score |-> score],
                                   FALSE, FALSE, TRUE))
    BY <1>1 DEF critic_override
  <2> HIDE DEF score
  <2> QED
    BY <2>1, <2>2, CritiqueInv DEF IInv, TypeOK
<1>2. ASSUME critic_logs PROVE IInv'
  <2>1. PICK verdict \in Verdicts, score \in Scores, policy \in BOOLEAN, errors \in BOOLEAN,
             weak \in BOOLEAN :
            /\ policy => errors
            /\ log' = log \cup {LogRow(Evaluate(verdict, score, policy, errors, weak))}
            /\ Return(CRITIC, Critique(Evaluate(verdict, score, policy, errors, weak),
                                       errors, TRUE, FALSE))
    BY <1>2 DEF critic_logs
  <2>2. score \in Nat /\ (policy => errors)
    BY <2>1, BoundsAssumption
  <2>3. PICK w \in Verdicts, s \in Nat :
            /\ Evaluate(verdict, score, policy, errors, weak) = [verdict |-> w, score |-> s]
            /\ w = "approved" => ~errors
    <3>1. \A a, b \in Nat : Least(a, b) \in Nat
      BY DEF Least
    <3>2. CASE policy
      BY <2>2, <3>1, <3>2 DEF Evaluate, Verdicts
    <3>3. CASE ~policy /\ errors /\ verdict = "approved"
      BY <2>2, <3>1, <3>3 DEF Evaluate, Verdicts
    <3>4. CASE ~policy /\ ~errors /\ verdict = "approved" /\ weak
      BY <2>2, <3>1, <3>4 DEF Evaluate, Verdicts
    <3>5. CASE ~policy /\ ~(errors /\ verdict = "approved") /\ ~(verdict = "approved" /\ weak)
      BY <2>2, <3>5 DEF Evaluate
    <3> QED
      BY <3>2, <3>3, <3>4, <3>5
  <2>4. /\ Runs(CRITIC) /\ UNCHANGED broken
        /\ Return(CRITIC, Critique([verdict |-> w, score |-> s], errors, TRUE, FALSE))
    BY <1>2, <2>1, <2>3 DEF critic_logs
  <2>5. log' = log \cup {[of |-> chan.bundle.menu, verdict |-> w]}
    BY <2>1, <2>3 DEF LogRow
  <2> QED
    BY <2>3, <2>4, <2>5, CritiqueInv DEF IInv, TypeOK
<1>3. ASSUME critic_fails PROVE IInv'
  <2>1. /\ Runs(CRITIC) /\ log \subseteq log' /\ broken' \in BOOLEAN
        /\ Return(CRITIC, Critique([verdict |-> "revision", score |-> 0], FALSE, FALSE, FALSE))
    BY <1>3 DEF critic_fails, Unavailable, IInv, TypeOK
  <2> QED
    BY <2>1, CritiqueInv DEF Verdicts
<1> QED
  BY <1>1, <1>2, <1>3 DEF critic

\* Another attempt: its number is the refused menu's version.
LEMMA ReplanPreserves ==
    ASSUME IInv, replan_orchestrator
    PROVE  IInv'
<1> DEFINE count == chan.replan_count + 1
           context == Append(chan.replan_context, chan.critic.of)
           update == [replan_count |-> count, replan_context |-> context]
           c == With(latest, update)
<1>1. Runs(REPLAN_ORCHESTRATOR) /\ Return(REPLAN_ORCHESTRATOR, update) /\ UNCHANGED <<broken, log>>
  BY DEF replan_orchestrator
<1>2. /\ active = {REPLAN_ORCHESTRATOR} /\ Done = {} /\ merged = {} /\ chan.error = None
      /\ \A k \in Channels : k # "menu_assumptions" => chan[k] = latest[k]
  BY <1>1, BeforeReturn DEF FanOut
<1>3. /\ Typed(chan) /\ Typed(latest) /\ Reviewed(chan) /\ chan.replan_count < MaxReplans
      /\ chan.critic.verdict # "approved"
  BY <1>2 DEF IInv, TypeOK, Position
<1>4. /\ count \in Nat /\ count = chan.menu.version /\ count <= MaxReplans
      /\ context \in Seq(Nat)
  <2>1. chan.replan_count \in Nat /\ MaxReplans \in Nat /\ chan.menu.version = chan.replan_count + 1
    BY <1>3, BoundsAssumption DEF Typed, Reviewed
  <2>2. chan.replan_context \in Seq(Nat) /\ chan.critic.of \in Nat
    BY <1>3 DEF Typed, Reviewed, Critic
  <2> QED
    BY <1>3, <2>1, <2>2
<1> HIDE DEF count, context
<1>5. /\ c = [k \in Channels |-> c[k]] /\ c.replan_count = count /\ c.replan_context = context
      /\ c.menu_assumptions = latest.menu_assumptions
      /\ c.error = latest.error /\ c.menu = latest.menu /\ c.bundle = latest.bundle
      /\ c.critic = latest.critic /\ c.response = latest.response
  BY DEF With, Channels
<1>6. chan.menu = latest.menu /\ chan.critic = latest.critic /\ chan.error = latest.error
  BY <1>2 DEF Channels
<1>7. latest' = c
  BY <1>1, <1>2 DEF Return
<1>8. DOMAIN update = Keys(REPLAN_ORCHESTRATOR) /\ \A k \in DOMAIN update : update[k] # None
  <2>1. /\ DOMAIN update = {"replan_count", "replan_context"}
        /\ update["replan_count"] = count /\ update["replan_context"] = context
    OBVIOUS
  <2>2. None # count /\ None # context
    BY <1>4, NoneAssumption
  <2> HIDE DEF update
  <2> QED
    BY <2>1, <2>2 DEF Keys
<1>9. "menu_assumptions" \notin Keys(REPLAN_ORCHESTRATOR)
  BY DEF Keys
<1> HIDE DEF c, update
<1>10. Typed(c)
  BY <1>3, <1>4, <1>5 DEF Typed
<1>11. Begun(c) /\ c.menu # None
  BY <1>3, <1>4, <1>5, <1>6 DEF Begun, Reviewed, Bundled
<1>12. Position(active, c, Done \cup {REPLAN_ORCHESTRATOR})
  BY <1>2, <1>5, <1>6, <1>11 DEF Position, FanOut
<1>13. LogInv(latest)'
  BY <1>1, <1>5, <1>7 DEF IInv, LogInv
<1> QED
  BY <1>1, <1>2, <1>8, <1>9, <1>10, <1>12, <1>13, ReturnInv DEF c, IInv, TypeOK

\* The response reports the verdict and the menu; without a verdict it is not
\* ready.
LEMMA FinalPreserves ==
    ASSUME IInv, final_assembler
    PROVE  IInv'
<1> DEFINE verdict == IF chan.critic = None THEN "unknown" ELSE chan.critic.verdict
           score == IF chan.critic = None THEN 0 ELSE chan.critic.score
           menu == IF chan.menu = None THEN 0 ELSE chan.menu.version
           low == chan.menu # None /\ chan.menu.low
           summary == chan.summary = "briefing"
           status == DeriveStatus(verdict, score)
           response == [verdict |-> verdict, score |-> score, status |-> status,
                        menu |-> menu, low |-> low, summary |-> summary]
           update == [response |-> response]
           c == With(latest, update)
<1>1. Runs(FINAL_ASSEMBLER) /\ Return(FINAL_ASSEMBLER, update) /\ UNCHANGED <<broken, log>>
  BY DEF final_assembler
<1>2. /\ active = {FINAL_ASSEMBLER} /\ Done = {} /\ merged = {}
      /\ \A k \in Channels : k # "menu_assumptions" => chan[k] = latest[k]
  BY <1>1, BeforeReturn DEF FanOut
<1>3. /\ Typed(chan) /\ Typed(latest)
      /\ IF chan.error = None THEN Settled(chan) ELSE Refused(chan)
  BY <1>2 DEF IInv, TypeOK, Position
<1>4. /\ verdict \in Verdicts \cup {"unknown"} /\ score \in Nat /\ menu \in Nat
      /\ low \in BOOLEAN /\ summary \in BOOLEAN
  BY <1>3 DEF Typed, Critic, Menu
<1>5. status \in Statuses /\ (status = "ready" => verdict = "approved")
  <2> HIDE DEF verdict, score
  <2> QED
    BY <1>4 DEF DeriveStatus, Statuses, Verdicts
<1>6. /\ chan.error = None => /\ menu = chan.menu.version /\ low = chan.menu.low
                              /\ verdict = chan.critic.verdict
      /\ chan.error # None => verdict = "unknown"
  <2>1. CASE chan.error = None
    <3>1. chan.menu # None /\ chan.critic # None
      BY <1>3, <2>1 DEF Settled, Reviewed, Bundled
    <3>2. chan.menu.low \in BOOLEAN
      BY <1>3, <3>1 DEF Typed, Menu
    <3> QED
      BY <2>1, <3>1, <3>2
  <2>2. CASE chan.error # None
    BY <1>3, <2>2 DEF Refused
  <2> QED
    BY <2>1, <2>2
<1> HIDE DEF verdict, score, menu, low, summary, status
<1>7. /\ response \in Response /\ response.menu = menu /\ response.low = low
      /\ response.verdict = verdict /\ response.status = status
  BY <1>4, <1>5 DEF Response
<1> HIDE DEF response
<1>8. /\ c = [k \in Channels |-> c[k]] /\ c.response = response
      /\ c.menu_assumptions = latest.menu_assumptions
      /\ c.error = latest.error /\ c.menu = latest.menu /\ c.bundle = latest.bundle
      /\ c.critic = latest.critic
      /\ c.replan_count = latest.replan_count /\ c.replan_context = latest.replan_context
  BY DEF With, Channels
<1>9. /\ chan.menu = latest.menu /\ chan.critic = latest.critic /\ chan.error = latest.error
      /\ chan.replan_count = latest.replan_count /\ chan.bundle = latest.bundle
  BY <1>2 DEF Channels
<1>10. latest' = c
  BY <1>1, <1>2 DEF Return
<1>11. DOMAIN update = Keys(FINAL_ASSEMBLER) /\ \A k \in DOMAIN update : update[k] # None
  BY <1>7, NoneAssumption DEF Keys
<1>12. "menu_assumptions" \notin Keys(FINAL_ASSEMBLER)
  BY DEF Keys
<1> HIDE DEF c, update
<1>13. Typed(c)
  BY <1>3, <1>7, <1>8 DEF Typed
<1>14. IF c.error = None THEN Settled(c) ELSE Refused(c)
  BY <1>3, <1>8, <1>9 DEF Settled, Reviewed, Bundled, Refused
<1>15. Reported(c)
  BY <1>5, <1>6, <1>7, <1>8, <1>9, NoneAssumption DEF Reported
<1>16. Position(active, c, Done \cup {FINAL_ASSEMBLER})
  BY <1>2, <1>14, <1>15 DEF Position, FanOut
<1>17. LogInv(latest)'
  BY <1>1, <1>8, <1>10 DEF IInv, LogInv
<1> QED
  BY <1>1, <1>2, <1>11, <1>12, <1>13, <1>16, <1>17, ReturnInv DEF c, IInv, TypeOK

-----------------------------------------------------------------------------
(* The theorems *)

\* A run begins at the ops manager, with no channel set.
LEMMA InitInv == Init => IInv
<1> SUFFICES ASSUME Init PROVE IInv
  OBVIOUS
<1>1. /\ chan = Initially /\ latest = Initially /\ active = {OPS_MANAGER} /\ merged = {}
      /\ DOMAIN writes = {} /\ Done = {} /\ outcome = "running"
  BY DEF Init, NoKeys, Done
<1>2. /\ Initially = [k \in Channels |-> Initially[k]]
      /\ Initially.error = None /\ Initially.menu = None /\ Initially.menu_assumptions = None
      /\ Initially.bundle = None /\ Initially.critic = None /\ Initially.replan_count = 0
      /\ Initially.replan_context = <<>> /\ Initially.response = None /\ Initially.signals = None
      /\ \A k \in Outputs : Initially[k] = None
  BY DEF Initially, Channels, Outputs
<1>3. Typed(Initially)
  <2>1. Initially.replan_context \in Seq(Nat)
    <3>1. <<>> \in Seq(Nat)
      OBVIOUS
    <3> QED
      BY <1>2, <3>1
  <2> QED
    BY <1>2, <2>1 DEF Typed
<1>4. Position({OPS_MANAGER}, Initially, {})
  BY <1>2 DEF Position, FanOut
<1>5. TypeOK
  BY <1>1, <1>3 DEF Init, TypeOK, Supersteps
<1> QED
  BY <1>1, <1>2, <1>4, <1>5 DEF IInv, WritesInv, MergeInv, EndInv, LogInv, FanOut

LEMMA NextInv == IInv /\ [Next]_vars => IInv'
<1>1. ASSUME IInv, UNCHANGED vars PROVE IInv'
  BY <1>1 DEF vars, IInv, TypeOK, WritesInv, MergeInv, EndInv, LogInv, Done
<1>2. ASSUME IInv, Node PROVE IInv'
  BY <1>2, OpsManagerPreserves, PlainNodesPreserve, MarketPreserves, MenuPreserves,
     AggregatorPreserves, CriticPreserves, ReplanPreserves, FinalPreserves DEF Node
<1> QED
  BY <1>1, <1>2, MergePreserves, AdvancePreserves DEF Next

\* The inductive invariant holds in every reachable state.
THEOREM Invariance == Spec => []IInv
BY InitInv, NextInv, PTL DEF Spec

\* When a superstep begins, every channel holds what its node returned last.
THEOREM NoWriteIsLost == Spec => []NoLostWrite
<1>1. IInv => NoLostWrite
  BY DEF IInv, MergeInv, NoLostWrite, Boundary
<1> QED
  BY <1>1, Invariance, PTL

\* A response carries the verdict on the menu it contains.
THEOREM VerdictsAreOnTheMenu == Spec => []VerdictIsOnTheMenu
<1>1. ASSUME IInv, outcome = "responded", chan.error = None
      PROVE  /\ chan.critic.of = chan.response.menu /\ chan.bundle.menu = chan.response.menu
             /\ chan.response.verdict = chan.critic.verdict
             /\ chan.critic.patched = chan.response.low
  <2>1. active = {FINAL_ASSEMBLER} /\ merged # {} /\ Position(active, chan, merged)
    BY <1>1 DEF IInv, EndInv
  <2>2. Settled(chan) /\ Reported(chan)
    BY <1>1, <2>1 DEF Position
  <2> QED
    BY <1>1, <2>2 DEF Settled, Reviewed, Bundled, Reported
<1>2. IInv => VerdictIsOnTheMenu
  BY <1>1 DEF VerdictIsOnTheMenu
<1> QED
  BY <1>2, Invariance, PTL

\* A ready response was approved, without sanity errors and with its row in the
\* decision log, unless it was forced.
THEOREM ReadyPlansAreJustified == Spec => []ReadyIsJustified
<1>1. ASSUME IInv, outcome = "responded", chan.response.status = "ready"
      PROVE  /\ chan.critic.verdict = "approved"
             /\ ~chan.critic.forced =>
                 /\ ~chan.critic.errors
                 /\ [of |-> chan.response.menu, verdict |-> "approved"] \in log
  <2>1. active = {FINAL_ASSEMBLER} /\ merged # {} /\ Position(active, chan, merged)
    BY <1>1 DEF IInv, EndInv
  <2>2. Reported(chan)
    BY <2>1 DEF Position
  <2>3. chan.error = None /\ chan.response.verdict = "approved"
    BY <1>1, <2>2 DEF Reported
  <2>4. Reviewed(chan)
    BY <2>1, <2>3 DEF Position, Settled
  <2>5. /\ chan.critic # None /\ chan.critic.of = chan.response.menu
        /\ chan.critic.verdict = "approved"
    BY <2>2, <2>3, <2>4 DEF Reported, Reviewed
  <2> QED
    BY <1>1, <2>5 DEF IInv, LogInv
<1>2. IInv => ReadyIsJustified
  BY <1>1 DEF ReadyIsJustified
<1> QED
  BY <1>2, Invariance, PTL

-----------------------------------------------------------------------------
(* The refinement *)

\* A step that leaves the menu, the verdict and the stage alone is not seen.
LEMMA ReviewStutters ==
    ASSUME chan'.menu = chan.menu, chan'.critic = chan.critic, Stage' = Stage
    PROVE  UNCHANGED Review!vars
BY DEF Review!vars, Draft, VerdictOnDraft

\* A merge drafts, reviews or is not seen.
LEMMA MergeRefines ==
    ASSUME IInv, IInv', NEW n \in active, Merge(n)
    PROVE  Review!Next \/ UNCHANGED Review!vars
<1>1. /\ n \in DOMAIN writes /\ outcome = "running"
      /\ chan' = [k \in Channels |-> keep_last(chan[k], writes[n][k])]
      /\ merged' = merged \cup {n} /\ UNCHANGED <<active, outcome>>
  BY DEF Merge
<1>2. /\ Stage = "working" /\ Stage' = "working"
  BY <1>1 DEF Stage
<1>3. \A k \in Channels \ Keys(n) : chan'[k] = chan[k]
  BY <1>1 DEF keep_last, IInv, WritesInv
<1>4. n \notin merged
  BY <1>1 DEF IInv, TypeOK
<1>5. IF n \in FanOut THEN active = FanOut ELSE active = {n}
  BY SuperstepOf DEF IInv, TypeOK
<1>6. n \notin FanOut => merged = {} /\ merged' # {}
  BY <1>1, <1>4, <1>5 DEF IInv, TypeOK, Done
<1>7. Typed(chan) /\ Typed(chan')
  BY DEF IInv, TypeOK
<1>8. CASE n = MENU_INTELLIGENCE
  <2>1. active = {MENU_INTELLIGENCE} /\ merged = {} /\ merged' # {}
    BY <1>5, <1>6, <1>8 DEF FanOut
  <2>2. Begun(chan)
    BY <2>1 DEF IInv, Position
  <2>3. Drafted(chan')
    BY <1>1, <2>1 DEF IInv, Position
  <2>4. chan'.critic = chan.critic /\ chan'.replan_count = chan.replan_count
    BY <1>3, <1>8 DEF Keys, Channels
  <2>5. /\ Draft = chan.replan_count /\ Draft' = chan.replan_count + 1
        /\ chan.replan_count \in Nat /\ chan.replan_count <= MaxReplans /\ MaxReplans \in Nat
    BY <1>7, <2>2, <2>3, <2>4, BoundsAssumption DEF Begun, Drafted, Draft, Typed
  <2>6. VerdictOnDraft' = None
    BY <2>3, <2>4, <2>5 DEF VerdictOnDraft, Drafted
  <2>7. Draft = 0 \/ (VerdictOnDraft # None /\ VerdictOnDraft # "approved")
    <3>1. CASE chan.menu = None
      BY <3>1 DEF Draft
    <3>2. CASE chan.menu # None
      <4>1. VerdictOnDraft = chan.critic.verdict /\ chan.critic.verdict # "approved"
        BY <2>2, <3>2 DEF Begun, VerdictOnDraft, Draft
      <4>2. chan.critic.verdict \in Verdicts
        BY <1>7, <2>2, <3>2 DEF Typed, Begun, Critic
      <4> QED
        BY <4>1, <4>2, NoneAssumption
    <3> QED
      BY <3>1, <3>2
  <2>8. Draft < MaxReplans + 1
    BY <2>5
  <2> QED
    BY <1>2, <2>5, <2>6, <2>7, <2>8 DEF Review!Next, Review!Draft
<1>9. CASE n = CRITIC
  <2>1. active = {CRITIC} /\ merged = {} /\ merged' # {}
    BY <1>5, <1>6, <1>9 DEF FanOut
  <2>2. Drafted(chan)
    BY <2>1 DEF IInv, Position
  <2>3. Reviewed(chan')
    BY <1>1, <2>1 DEF IInv, Position
  <2>4. chan'.menu = chan.menu
    BY <1>3, <1>9 DEF Keys, Channels
  <2>5. Draft > 0 /\ Draft' = Draft /\ VerdictOnDraft = None
    BY <1>7, <2>2, <2>4 DEF Draft, VerdictOnDraft, Drafted, Typed
  <2>6. VerdictOnDraft' \in Verdicts
    BY <1>7, <2>3 DEF VerdictOnDraft, Draft, Reviewed, Bundled, Typed, Critic
  <2> QED
    BY <1>2, <2>5, <2>6 DEF Review!Next, Review!Review
<1>10. CASE n \notin {MENU_INTELLIGENCE, CRITIC}
  <2>1. "menu" \notin Keys(n) /\ "critic" \notin Keys(n)
    <3>1. CASE n \in FanOut
      BY <3>1, FanOutKeys DEF Outputs
    <3>2. CASE n \notin FanOut
      <4>1. active = {n} /\ active \in Supersteps /\ active # FanOut
        BY <1>5, <3>2 DEF IInv, TypeOK
      <4>2. n \in {OPS_MANAGER, LIVE_SIGNALS, DEMAND_FORECAST, QDRANT_ENRICHMENT, AGGREGATOR,
                   REPLAN_ORCHESTRATOR, SITUATION_SUMMARY, FINAL_ASSEMBLER}
        BY <1>10, <4>1 DEF Supersteps
      <4> QED
        BY <4>2 DEF Keys
    <3> QED
      BY <3>1, <3>2
  <2>2. chan'.menu = chan.menu /\ chan'.critic = chan.critic
    BY <1>3, <2>1 DEF Channels
  <2> QED
    BY <1>2, <2>2, ReviewStutters
<1> QED
  BY <1>8, <1>9, <1>10

\* The end of a run publishes the draft or abandons it.
LEMMA AdvanceRefines ==
    ASSUME IInv, IInv', Advance
    PROVE  Review!Next \/ UNCHANGED Review!vars
<1>1. outcome = "running" /\ UNCHANGED chan /\ Stage = "working"
  BY DEF Advance, Stage
<1>2. UNCHANGED <<Draft, VerdictOnDraft>>
  BY <1>1 DEF Draft, VerdictOnDraft
<1>3. CASE outcome' = "running"
  BY <1>1, <1>2, <1>3 DEF Stage, Review!vars
<1>4. CASE outcome' = "raised" \/ (outcome' = "responded" /\ chan.error # None)
  BY <1>1, <1>2, <1>4 DEF Stage, Review!Next, Review!Abandon
<1>5. CASE outcome' = "responded" /\ chan.error = None
  <2>1. active' = {FINAL_ASSEMBLER} /\ Position(active', chan', merged')
    BY <1>5 DEF IInv, EndInv
  <2>2. Settled(chan)
    BY <1>1, <1>5, <2>1 DEF Position
  <2>3. chan.replan_count \in Nat /\ MaxReplans \in Nat /\ chan.critic \in Critic
    BY <2>2, BoundsAssumption DEF IInv, TypeOK, Typed, Settled, Reviewed
  <2>4. /\ VerdictOnDraft # None
        /\ VerdictOnDraft = "approved" \/ Draft = MaxReplans + 1
    <3>1. VerdictOnDraft = chan.critic.verdict /\ Draft = chan.replan_count + 1
      BY <2>2 DEF Settled, Reviewed, Bundled, VerdictOnDraft, Draft
    <3>2. chan.critic.verdict \in Verdicts
      BY <2>3 DEF Critic
    <3> QED
      BY <2>2, <2>3, <3>1, <3>2, NoneAssumption DEF Settled
  <2>5. Stage' = "published"
    BY <1>1, <1>5 DEF Stage
  <2> QED
    BY <1>1, <1>2, <2>4, <2>5 DEF Review!Next, Review!Publish
<1>6. outcome' \in {"running", "responded", "raised"}
  BY DEF IInv, TypeOK
<1> QED
  BY <1>3, <1>4, <1>5, <1>6

\* No node is seen, but for the market node when it raises.
LEMMA NodeRefines ==
    ASSUME Node
    PROVE  Review!Next \/ UNCHANGED Review!vars
<1>1. CASE UNCHANGED <<chan, outcome>>
  BY <1>1, ReviewStutters DEF Stage
<1>2. CASE outcome = "running" /\ outcome' = "raised" /\ UNCHANGED chan
  <2>1. Stage = "working" /\ Stage' = "abandoned" /\ UNCHANGED <<Draft, VerdictOnDraft>>
    BY <1>2 DEF Stage, Draft, VerdictOnDraft
  <2> QED
    BY <2>1 DEF Review!Next, Review!Abandon
<1>3. \/ UNCHANGED <<chan, outcome>>
      \/ outcome = "running" /\ outcome' = "raised" /\ UNCHANGED chan
  <2>1. ASSUME NEW n, NEW update, Return(n, update) PROVE UNCHANGED <<chan, outcome>>
    BY <2>1 DEF Return
  <2>2. ASSUME NEW n, NEW channel, NEW values, Agent(n, channel, values)
        PROVE  UNCHANGED <<chan, outcome>>
    BY <2>1, <2>2 DEF Agent
  <2> QED
    BY <2>1, <2>2 DEF Node, ops_manager, live_signals, demand_forecast, qdrant_enrichment,
       reservation, complaint_intelligence, inventory, market_intel, Runs, dineout_manager,
       menu_intelligence, aggregator, critic, critic_override, critic_logs, critic_fails,
       replan_orchestrator, situation_summary, final_assembler
<1> QED
  BY <1>1, <1>2, <1>3

\* The graph implements the review of plans: each draft is reviewed once before
\* the next one or the response, a draft that is not approved is redone at most
\* MaxReplans times, and what is published is the latest draft, approved or the
\* last.
THEOREM Refinement == Spec => ImplementsReview
<1>1. Init => Review!Init
  BY DEF Init, Initially, Channels, Review!Init, Draft, VerdictOnDraft, Stage
<1>2. IInv /\ IInv' /\ [Next]_vars => [Review!Next]_(Review!vars)
  <2>1. ASSUME UNCHANGED vars PROVE UNCHANGED Review!vars
    BY <2>1, ReviewStutters DEF vars, Stage
  <2> QED
    BY <2>1, MergeRefines, AdvanceRefines, NodeRefines DEF Next
<1> QED
  BY <1>1, <1>2, Invariance, PTL DEF Spec, Review!Spec, ImplementsReview
=============================================================================
