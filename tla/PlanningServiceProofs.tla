----------------------- MODULE PlanningServiceProofs -----------------------
(***************************************************************************)
(* Proofs, for any number of requests, any bodies, any length of a day and *)
(* any time-to-live, of what the planning routes promise of their plans.   *)
(***************************************************************************)
EXTENDS PlanningServiceProperties, FiniteSetTheorems, TLAPS

Stages == {"idle", "planning", "graph", "planned", "answered", "failed"}

\* What an answer promises: the four properties, of one request.
Sound(r) == Answered(r) =>
  /\ turn[r].source = "semantic" \/ Plan(r).born < turn[r].since
       => Real(Plan(r)) /\ Plan(r).org = Body(r).org
  /\ turn[r].since - Plan(r).born < 2 * TTL + Patience
  /\ turn[r].run # None => turn[r].run \in rows /\ Plan(turn[r].run) = Plan(r)
  /\ turn[r].source = "graph" =>
       /\ Plan(r).scenario = Body(r).scenario
       /\ cacheable(Body(r)) => Plan(r).flags = {}
       /\ Body(r).date # None /\ Plan(r).day # Body(r).date => ~Plan(r).dated

\* The inductive invariant by request, by entry and by point.
ByPart ==
  /\ TypeOK
  /\ \A r \in Requests : TurnFits(r) /\ Sound(r)
  /\ \A e \in redis : EntryFits(e)
  /\ \A p \in semantic : Real(p.plan) /\ p.at = p.plan.born

LEMMA SoundIsAll == IInv <=> ByPart
<1>1. ASSUME IInv, NEW r \in Requests PROVE Sound(r)
  BY <1>1 DEF IInv, Sound, CachedPlansAreReal, AgeBound, RunIdNamesSamePlan, WrongPlanExplained
<1>2. ASSUME \A r \in Requests : Sound(r),
             \A e \in redis : EntryFits(e),
             \A p \in semantic : Real(p.plan)
      PROVE  CachedPlansAreReal /\ AgeBound /\ RunIdNamesSamePlan /\ WrongPlanExplained
  <2>1. CachedPlansAreReal
    BY <1>2 DEF Sound, CachedPlansAreReal, EntryFits
  <2>2. AgeBound
    BY <1>2 DEF Sound, AgeBound
  <2>3. RunIdNamesSamePlan
    BY <1>2 DEF Sound, RunIdNamesSamePlan
  <2>4. WrongPlanExplained
    BY <1>2 DEF Sound, WrongPlanExplained
  <2> QED
    BY <2>1, <2>2, <2>3, <2>4
<1> QED
  BY <1>1, <1>2 DEF IInv, ByPart

LEMMA SoundIsAllNext == IInv' <=> ByPart'
BY SoundIsAll, PTL

-----------------------------------------------------------------------------
\* The clock names a day, and the default date of a scenario is one.
LEMMA DatesAreNat ==
    ASSUME clock \in Nat
    PROVE  /\ Today \in Nat
           /\ \A s \in DOMAIN Weekday : resolve_default_target_date(s) \in Nat
<1>1. Today \in Nat
  BY ServiceAssumption DEF Today
<1>2. ASSUME NEW s \in DOMAIN Weekday PROVE resolve_default_target_date(s) \in Nat
  <2>1. (Weekday[s] - Today) % 7 \in Nat
    BY <1>1, <1>2, ServiceAssumption
  <2> QED
    BY <1>1, <2>1 DEF resolve_default_target_date
<1> QED
  BY <1>1, <1>2

\* A body has a date and a key of the exact cache.
LEMMA BodyFits ==
    ASSUME clock \in Nat, NEW b \in Bodies
    PROVE  /\ target_date(b) \in Nat
           /\ b.date # None => target_date(b) = b.date
           /\ build_cache_key(b) \in Keys
           /\ KeyFits(b, build_cache_key(b))
<1>1. b.scenario \in DOMAIN Weekday /\ b.date \in Nat \cup {None}
  BY ServiceAssumption
<1>2. Today \in Nat /\ resolve_default_target_date(b.scenario) \in Nat
  BY <1>1, DatesAreNat
<1>3. target_date(b) \in Nat /\ (b.date # None => target_date(b) = b.date)
  BY <1>1, <1>2 DEF target_date
<1>4. build_cache_key(b) \in Keys
  BY <1>1, <1>2 DEF build_cache_key, Keys
<1>5. KeyFits(b, build_cache_key(b))
  BY DEF KeyFits, build_cache_key
<1> QED
  BY <1>3, <1>4, <1>5

\* The failures of a step are counted.
LEMMA FailuresAreCounted ==
    ASSUME faults \in 0 .. MaxFaults, NEW down, IsFiniteSet(down), Failing(down)
    PROVE  faults' \in 0 .. MaxFaults
<1>1. Cardinality(down) \in Nat
  BY FS_CardinalityType
<1> QED
  BY <1>1, ServiceAssumption DEF Failing

LEMMA StoresAreFinite ==
    ASSUME NEW down \in (SUBSET {"redis", "database"}) \cup (SUBSET {"qdrant"})
    PROVE  IsFiniteSet(down)
<1>1. IsFiniteSet({} \cup {"redis"}) /\ IsFiniteSet({} \cup {"qdrant"})
  BY FS_EmptySet, FS_AddElement, Zenon
<1>2. IsFiniteSet(({} \cup {"redis"}) \cup {"database"})
  BY <1>1, FS_AddElement, Zenon
<1>3. /\ ({} \cup {"redis"}) \cup {"database"} = {"redis", "database"}
      /\ {} \cup {"qdrant"} = {"qdrant"}
  OBVIOUS
<1>4. IsFiniteSet({"redis", "database"}) /\ IsFiniteSet({"qdrant"})
  BY <1>1, <1>2, <1>3
<1>5. CASE down \in SUBSET {"redis", "database"}
  BY <1>4, <1>5, FS_Subset, Zenon
<1>6. CASE down \in SUBSET {"qdrant"}
  BY <1>4, <1>6, FS_Subset, Zenon
<1> QED
  BY <1>5, <1>6, Zenon

-----------------------------------------------------------------------------
(* One step of request r.  Nothing else moves but the stores, which keep     *)
(* what they have or take what fits.                                         *)
LEMMA StepInv ==
    ASSUME IInv, NEW r \in Requests, ~Answered(r), clock' = clock,
           NEW q \in Stages \ {"idle"}, NEW t \in Turns,
           pc' = [pc EXCEPT ![r] = q],
           turn' = [turn EXCEPT ![r] = t],
           t.body \in Bodies, t.key \in Keys,
           q \in {"planned", "answered"} => t.plan \in Plans,
           rows' \in {rows, rows \cup {r}}, r \in rows' => q = "answered",
           faults' \in 0 .. MaxFaults,
           redis' \subseteq Entries, memory' \subseteq Plans,
           semantic' \subseteq [plan : Plans, at : Nat],
           TurnFits(r)', Sound(r)',
           \A e \in redis' : e \in redis \/ EntryFits(e)',
           \A p \in semantic' : p \in semantic \/ (Real(p.plan) /\ p.at = p.plan.born)
    PROVE  IInv'
<1>1. /\ TypeOK
      /\ \A s \in Requests : TurnFits(s) /\ Sound(s)
      /\ \A e \in redis : EntryFits(e)
      /\ \A p \in semantic : Real(p.plan) /\ p.at = p.plan.born
  BY SoundIsAll DEF ByPart
<1>2. /\ pc' \in [Requests -> Stages] /\ pc'[r] = q
      /\ turn' \in [Requests -> Turns] /\ turn'[r] = t
      /\ \A s \in Requests \ {r} : pc'[s] = pc[s] /\ turn'[s] = turn[s]
  BY <1>1 DEF TypeOK, Stages
<1>3. \A s \in rows : s \in Requests \ {r} /\ s \in rows' /\ Answered(s) /\ turn'[s] = turn[s]
  BY <1>1, <1>2 DEF TypeOK
<1>4. TypeOK'
  <2>1. rows' \subseteq {s \in Requests : pc'[s] = "answered"}
    BY <1>1, <1>2, <1>3 DEF Answered
  <2>2. \A s \in Requests :
          /\ pc'[s] # "idle" => turn'[s].body \in Bodies /\ turn'[s].key \in Keys
          /\ pc'[s] \in {"planned", "answered"} => turn'[s].plan \in Plans
    BY <1>1, <1>2 DEF TypeOK
  <2> QED
    BY <1>1, <1>2, <2>1, <2>2 DEF TypeOK, Stages, Answered
<1>5. ASSUME NEW s \in Requests \ {r} PROVE TurnFits(s)' /\ Sound(s)'
  <2>1. TurnFits(s)'
    BY <1>1, <1>2 DEF TurnFits, InProgress
  <2>2. Sound(s)'
    BY <1>1, <1>2, <1>3 DEF Sound, Answered, Plan, Body
  <2> QED
    BY <2>1, <2>2
<1>6. ASSUME NEW e \in redis PROVE EntryFits(e)'
  BY <1>1, <1>3 DEF EntryFits
<1>7. /\ \A s \in Requests : TurnFits(s)' /\ Sound(s)'
      /\ \A e \in redis' : EntryFits(e)'
      /\ \A p \in semantic' : Real(p.plan) /\ p.at = p.plan.born
  BY <1>1, <1>5, <1>6
<1> QED
  BY <1>4, <1>7, SoundIsAllNext DEF ByPart

-----------------------------------------------------------------------------
LEMMA InitInv == Init => IInv
<1> SUFFICES ASSUME Init PROVE ByPart
  BY SoundIsAll
<1>1. NoTurn \in Turns
  BY DEF NoTurn, Turns
<1>2. TypeOK
  BY <1>1, ServiceAssumption DEF Init, TypeOK
<1>3. \A r \in Requests : TurnFits(r) /\ Sound(r)
  BY DEF Init, TurnFits, Sound, InProgress, Answered
<1> QED
  BY <1>2, <1>3 DEF Init, ByPart

\* A request arrives: it misses the exact cache, or is answered from it.
LEMMA ReceiveInv ==
    ASSUME IInv, NEW r \in Requests, NEW b \in Bodies, Receive(r, b)
    PROVE  IInv'
<1>1. PICK down \in SUBSET {"redis", "database"} :
        LET start == [NoTurn EXCEPT !.body = b, !.key = build_cache_key(b), !.since = clock]
            hits == IF cacheable(b) THEN get_cached_plan(start.key) ELSE {}
        IN /\ Failing(down)
           /\ \/ /\ hits = {} \/ "redis" \in down
                 /\ "database" \notin down
                 /\ pc' = [pc EXCEPT ![r] = "planning"]
                 /\ turn' = [turn EXCEPT ![r] = start]
                 /\ UNCHANGED rows
              \/ /\ "redis" \notin down
                 /\ pc' = [pc EXCEPT ![r] = "answered"]
                 /\ \E e \in hits : create_from_response(r,
                      [start EXCEPT !.plan = e.plan, !.source = e.source, !.run = e.run], down)
  BY DEF Receive
<1>2. /\ pc[r] = "idle" /\ ~Answered(r)
      /\ UNCHANGED <<clock, redis, semantic, memory>>
      /\ ByPart /\ TypeOK
  BY SoundIsAll DEF Receive, Answered, ByPart
<1>3. faults' \in 0 .. MaxFaults
  BY <1>1, <1>2, StoresAreFinite, FailuresAreCounted DEF TypeOK
<1> DEFINE start == [NoTurn EXCEPT !.body = b, !.key = build_cache_key(b), !.since = clock]
<1>4. clock \in Nat /\ build_cache_key(b) \in Keys /\ KeyFits(b, build_cache_key(b))
  BY <1>2, BodyFits DEF TypeOK
<1>5. /\ start \in Turns /\ start.body = b /\ start.key = build_cache_key(b)
      /\ start.since = clock /\ start.run = None
      /\ DOMAIN start = {"body", "key", "since", "day", "plan", "source", "run"}
  BY <1>4 DEF NoTurn, Turns
<1>6. CASE /\ pc' = [pc EXCEPT ![r] = "planning"]
           /\ turn' = [turn EXCEPT ![r] = start]
           /\ UNCHANGED rows
  <2> HIDE DEF start
  <2>1. pc'[r] = "planning" /\ turn'[r] = start
    BY <1>2, <1>6 DEF TypeOK
  <2>2. TurnFits(r)' /\ Sound(r)'
    BY <1>2, <1>4, <1>5, <2>1, ServiceAssumption DEF TurnFits, Sound, InProgress, Answered
  <2>3. r \notin rows
    BY <1>2 DEF TypeOK
  <2> QED
    BY <1>2, <1>3, <1>4, <1>5, <1>6, <2>2, <2>3, StepInv DEF Stages, TypeOK
<1>7. ASSUME NEW e \in get_cached_plan(start.key), cacheable(b),
             pc' = [pc EXCEPT ![r] = "answered"],
             create_from_response(r,
               [start EXCEPT !.plan = e.plan, !.source = e.source, !.run = e.run], down)
      PROVE  IInv'
  <2>1. e \in redis /\ e \in Entries /\ e.key = build_cache_key(b) /\ clock < e.until
        /\ EntryFits(e)
    BY <1>2, <1>5, <1>7 DEF get_cached_plan, TypeOK, ByPart
  <2>2. /\ e.plan \in Plans /\ e.source \in {"graph", "semantic"} /\ e.until \in Nat
        /\ e.run \in Requests \cup {None} /\ e.plan.born \in Nat
    BY <2>1 DEF Entries, Plans
  <2> DEFINE held == [start EXCEPT !.plan = e.plan, !.source = e.source, !.run = e.run]
             t == IF "database" \in down THEN held ELSE [held EXCEPT !.run = r]
  <2>3. /\ held \in Turns /\ held.body = b /\ held.key = build_cache_key(b)
        /\ held.since = clock /\ held.plan = e.plan /\ held.source = e.source
        /\ held.run = e.run
    BY <1>4, <2>2 DEF NoTurn, Turns
  <2> HIDE DEF held
  <2>4. /\ t \in Turns /\ t.body = b /\ t.key = build_cache_key(b)
        /\ t.since = clock /\ t.plan = e.plan /\ t.source = e.source
        /\ t.run = IF "database" \in down THEN e.run ELSE r
    BY <2>3 DEF Turns
  <2>5. /\ turn' = [turn EXCEPT ![r] = t]
        /\ rows' = IF "database" \in down THEN rows ELSE rows \cup {r}
    BY <1>7 DEF create_from_response, held
  <2> HIDE DEF t
  <2>6. /\ pc'[r] = "answered" /\ turn'[r] = t
        /\ \A s \in Requests \ {r} : turn'[s] = turn[s]
    BY <1>2, <1>7, <2>4, <2>5 DEF TypeOK
  <2>7. TurnFits(r)'
    BY <2>6 DEF TurnFits, InProgress
  <2>8. t.run # None => t.run \in rows' /\ turn'[t.run].plan = t.plan
    BY <1>2, <2>1, <2>2, <2>4, <2>5, <2>6 DEF EntryFits, TypeOK, Answered
  <2>9. t.since - t.plan.born < 2 * TTL + Patience
    BY <1>4, <2>1, <2>2, <2>4, ServiceAssumption DEF EntryFits
  <2>10. Real(t.plan) /\ t.plan.org = b.org
    BY <1>4, <2>1, <2>4 DEF EntryFits, KeyFits
  <2>11. t.source = "graph" =>
           /\ t.plan.scenario = b.scenario /\ t.plan.flags = {}
           /\ b.date # None /\ t.plan.day # b.date => ~t.plan.dated
    BY <1>4, <2>1, <2>4 DEF EntryFits, KeyFits
  <2>12. Sound(r)'
    BY <2>4, <2>6, <2>8, <2>9, <2>10, <2>11 DEF Sound, Answered, Plan, Body
  <2>13. /\ t \in Turns /\ t.body \in Bodies /\ t.key \in Keys /\ t.plan \in Plans
         /\ rows' \in {rows, rows \cup {r}}
         /\ turn' = [turn EXCEPT ![r] = t]
         /\ "answered" \in Stages \ {"idle"}
    BY <1>4, <2>2, <2>4, <2>5 DEF Stages
  <2>14. /\ clock' = clock /\ redis' \subseteq Entries /\ memory' \subseteq Plans
         /\ semantic' \subseteq [plan : Plans, at : Nat]
         /\ \A x \in redis' : x \in redis
         /\ \A p \in semantic' : p \in semantic
    BY <1>2 DEF TypeOK
  <2> QED
    BY <1>2, <1>3, <1>7, <2>7, <2>12, <2>13, <2>14, StepInv
<1> QED
  BY <1>1, <1>6, <1>7

\* A plan of the semantic cache is one of the organization, not older than TTL.
LEMMA SemanticHitInv ==
    ASSUME IInv, NEW r \in Requests, SemanticHit(r)
    PROVE  IInv'
<1>1. ByPart /\ TypeOK /\ TurnFits(r) /\ pc[r] = "planning" /\ ~Answered(r)
  BY SoundIsAll DEF ByPart, SemanticHit, Answered
<1>2. PICK x \in semantic :
        /\ x.plan.org = turn[r].body.org /\ clock - x.at <= TTL
        /\ turn' = [turn EXCEPT ![r].plan = x.plan, ![r].source = "semantic"]
  BY DEF SemanticHit, get
<1>3. /\ x \in [plan : Plans, at : Nat] /\ x.plan \in Plans
      /\ Real(x.plan) /\ x.at = x.plan.born /\ x.plan.born \in Nat
  BY <1>1 DEF TypeOK, ByPart, Plans
<1> DEFINE t == [turn[r] EXCEPT !.plan = x.plan, !.source = "semantic"]
<1>4. /\ turn \in [Requests -> Turns] /\ turn[r] \in Turns
      /\ turn[r].body \in Bodies /\ turn[r].key \in Keys
      /\ turn[r].since \in Nat /\ clock \in Nat
  BY <1>1 DEF TypeOK, Turns
<1>5. /\ t \in Turns /\ t.plan = x.plan /\ t.source = "semantic" /\ t.body = turn[r].body
      /\ t.key = turn[r].key /\ t.since = turn[r].since /\ t.run = turn[r].run
  BY <1>3, <1>4 DEF Turns
<1>6. turn' = [turn EXCEPT ![r] = t]
  BY <1>2, <1>4
<1> HIDE DEF t
<1>7. /\ pc' = [pc EXCEPT ![r] = "planned"] /\ pc'[r] = "planned" /\ turn'[r] = t
      /\ UNCHANGED <<clock, redis, semantic, memory, rows, faults>>
  BY <1>1, <1>4, <1>6 DEF SemanticHit, TypeOK
<1>8. TurnFits(r)'
  <2>1. t.since - t.plan.born <= TTL
    BY <1>1, <1>2, <1>3, <1>4, <1>5, ServiceAssumption DEF TurnFits, InProgress
  <2> QED
    BY <1>1, <1>2, <1>3, <1>5, <1>7, <2>1 DEF TurnFits, InProgress
<1>9. Sound(r)'
  BY <1>7 DEF Sound, Answered
<1>10. r \notin rows
  BY <1>1 DEF TypeOK
<1> QED
  BY <1>1, <1>3, <1>4, <1>5, <1>6, <1>7, <1>8, <1>9, <1>10, StepInv DEF Stages, TypeOK

\* The graph starts with the date of the body, or fails.
LEMMA GraphStartsInv ==
    ASSUME IInv, NEW r \in Requests, GraphStarts(r) \/ GraphFails(r)
    PROVE  IInv'
<1>1. /\ ByPart /\ TypeOK /\ TurnFits(r) /\ ~Answered(r) /\ InProgress(r)
      /\ UNCHANGED <<clock, redis, semantic, memory, rows, faults>>
  BY SoundIsAll DEF ByPart, GraphStarts, GraphFails, Answered, InProgress
<1>2. /\ turn \in [Requests -> Turns] /\ turn[r] \in Turns
      /\ turn[r].body \in Bodies /\ turn[r].key \in Keys /\ clock \in Nat
  BY <1>1 DEF TypeOK, InProgress
<1>3. PICK d \in Nat, q \in {"graph", "failed"} :
        /\ turn' = [turn EXCEPT ![r].day = d]
        /\ pc' = [pc EXCEPT ![r] = q]
        /\ q = "graph" /\ turn[r].body.date # None => d = turn[r].body.date
  BY <1>2, BodyFits DEF GraphStarts, GraphFails
<1> DEFINE t == [turn[r] EXCEPT !.day = d]
<1>4. /\ t \in Turns /\ t.day = d /\ t.body = turn[r].body
      /\ t.key = turn[r].key /\ t.since = turn[r].since /\ t.run = turn[r].run
  BY <1>2 DEF Turns
<1>5. turn' = [turn EXCEPT ![r] = t]
  BY <1>2, <1>3
<1> HIDE DEF t
<1>6. pc'[r] = q /\ turn'[r] = t
  BY <1>1, <1>2, <1>3, <1>5 DEF TypeOK
<1>7. TurnFits(r)' /\ Sound(r)'
  BY <1>1, <1>3, <1>4, <1>6 DEF TurnFits, InProgress, Sound, Answered
<1>8. r \notin rows
  BY <1>1 DEF TypeOK, Answered, InProgress
<1> QED
  BY <1>1, <1>2, <1>3, <1>4, <1>5, <1>7, <1>8, StepInv DEF Stages, TypeOK

\* The graph ends; what it stores in the semantic cache is real.
LEMMA GraphEndsInv ==
    ASSUME IInv, NEW r \in Requests,
           run_planning_scenario(r) \/ stream_planning_scenario(r)
    PROVE  IInv'
<1>1. /\ ByPart /\ TypeOK /\ TurnFits(r) /\ pc[r] = "graph" /\ ~Answered(r) /\ InProgress(r)
      /\ UNCHANGED <<clock, redis, rows>>
  BY SoundIsAll DEF ByPart, run_planning_scenario, stream_planning_scenario, GraphEnds,
                    Answered, InProgress
<1>2. /\ turn \in [Requests -> Turns] /\ turn[r] \in Turns
      /\ turn[r].body \in Bodies /\ turn[r].key \in Keys /\ clock \in Nat
      /\ turn[r].day \in Nat /\ turn[r].since \in Nat
  BY <1>1 DEF TypeOK, Turns
<1> DEFINE b == turn[r].body
           PlanOf(ok) == [org |-> IF b.route = "friday_rush" THEN None ELSE b.org,
                          scenario |-> b.scenario, day |-> turn[r].day, dated |-> b.date # None,
                          restaurant |-> b.restaurant, flags |-> b.flags,
                          approved |-> ok, born |-> clock]
<1>3. PICK ok \in BOOLEAN, down \in SUBSET {"qdrant"} :
        /\ turn' = [turn EXCEPT ![r].plan = PlanOf(ok), ![r].source = "graph", ![r].day = 0]
        /\ Failing(down)
        /\ \/ semantic' = semantic
           \/ /\ semantic' = semantic \cup {[plan |-> PlanOf(ok), at |-> clock]}
              /\ stores_semantic(b, PlanOf(ok))
        /\ memory' \in {memory, memory \cup {PlanOf(ok)}}
  <2> DEFINE Stored(ok, down, stores) ==
        /\ turn' = [turn EXCEPT ![r].plan = PlanOf(ok), ![r].source = "graph", ![r].day = 0]
        /\ Failing(down)
        /\ semantic' = semantic \cup
             {p \in {[plan |-> PlanOf(ok), at |-> clock]} : down = {} /\ stores}
        /\ memory' = memory \cup {p \in {PlanOf(ok)} : down = {} /\ stores_memory(b, PlanOf(ok))}
  <2>3. ASSUME NEW ok \in BOOLEAN, NEW down, NEW stores, Stored(ok, down, stores)
        PROVE  /\ \/ semantic' = semantic
                  \/ semantic' = semantic \cup {[plan |-> PlanOf(ok), at |-> clock]} /\ stores
               /\ memory' \in {memory, memory \cup {PlanOf(ok)}}
    <3> HIDE DEF PlanOf
    <3> QED
      BY <2>3
  <2>1. CASE run_planning_scenario(r)
    <3>1. PICK ok \in BOOLEAN, down \in SUBSET {"qdrant"} :
            Stored(ok, down, stores_semantic(b, PlanOf(ok)))
      BY <2>1 DEF run_planning_scenario, GraphEnds
    <3>2. /\ \/ semantic' = semantic
             \/ semantic' = semantic \cup {[plan |-> PlanOf(ok), at |-> clock]}
                /\ stores_semantic(b, PlanOf(ok))
          /\ memory' \in {memory, memory \cup {PlanOf(ok)}}
      <4> HIDE DEF PlanOf, Stored
      <4> QED
        BY <2>3, <3>1, Zenon
    <3> QED
      BY <3>1, <3>2
  <2>2. CASE stream_planning_scenario(r)
    <3>1. PICK ok \in BOOLEAN, down \in SUBSET {"qdrant"} : Stored(ok, down, FALSE)
      BY <2>2 DEF stream_planning_scenario, GraphEnds, stores_nothing
    <3>2. /\ \/ semantic' = semantic
             \/ semantic' = semantic \cup {[plan |-> PlanOf(ok), at |-> clock]} /\ FALSE
          /\ memory' \in {memory, memory \cup {PlanOf(ok)}}
      <4> HIDE DEF PlanOf, Stored
      <4> QED
        BY <2>3, <3>1, Zenon
    <3> QED
      BY <3>1, <3>2
  <2> QED
    BY <2>1, <2>2
<1> DEFINE plan == PlanOf(ok)
<1>4. /\ plan \in Plans /\ MadeFor(b, plan) /\ plan.born = clock
      /\ plan.approved = ok /\ plan.flags = b.flags
  <2>1. /\ b.flags \in SUBSET Flags /\ b.scenario \in DOMAIN Weekday
    BY <1>2, ServiceAssumption
  <2>2. plan \in Plans
    BY <1>2, <2>1 DEF Plans
  <2>3. b.date # None => turn[r].day = b.date
    BY <1>1 DEF TurnFits
  <2> QED
    BY <2>2, <2>3 DEF MadeFor
<1> HIDE DEF plan, PlanOf
<1>5. /\ turn' = [turn EXCEPT ![r].plan = plan, ![r].source = "graph", ![r].day = 0]
      /\ \/ semantic' = semantic
         \/ semantic' = semantic \cup {[plan |-> plan, at |-> clock]} /\ stores_semantic(b, plan)
      /\ memory' \in {memory, memory \cup {plan}}
  BY <1>3 DEF plan
<1> HIDE DEF b
<1> DEFINE t == [turn[r] EXCEPT !.plan = plan, !.source = "graph", !.day = 0]
<1>6. /\ t \in Turns /\ t.plan = plan /\ t.source = "graph" /\ t.body = b
      /\ t.key = turn[r].key /\ t.since = turn[r].since /\ t.run = turn[r].run
  BY <1>2, <1>4 DEF Turns, b
<1>7. turn' = [turn EXCEPT ![r] = t]
  BY <1>2, <1>5
<1> HIDE DEF t
<1>8. pc' = [pc EXCEPT ![r] = "planned"] /\ pc'[r] = "planned" /\ turn'[r] = t
  BY <1>1, <1>2, <1>7 DEF run_planning_scenario, stream_planning_scenario, GraphEnds, TypeOK
<1>9. TurnFits(r)' /\ Sound(r)'
  <2>1. /\ KeyFits(b, t.key) /\ t.run = None /\ t.since <= clock
        /\ clock - t.since <= Patience
    BY <1>1, <1>6 DEF TurnFits, b
  <2> QED
    BY <1>1, <1>4, <1>6, <1>8, <2>1 DEF TurnFits, InProgress, Sound, Answered
<1>10. /\ semantic' \subseteq [plan : Plans, at : Nat]
       /\ \A x \in semantic' : x \in semantic \/ (Real(x.plan) /\ x.at = x.plan.born)
  <2>1. stores_semantic(b, plan) => Real(plan)
    BY <1>4 DEF stores_semantic, Real
  <2> QED
    BY <1>1, <1>2, <1>4, <1>5, <2>1 DEF TypeOK
<1>11. memory' \subseteq Plans /\ faults' \in 0 .. MaxFaults
  BY <1>1, <1>3, <1>4, <1>5, StoresAreFinite, FailuresAreCounted DEF TypeOK
<1>12. r \notin rows
  BY <1>1 DEF TypeOK
<1> QED
  BY <1>1, <1>2, <1>4, <1>6, <1>7, <1>8, <1>9, <1>10, <1>11, <1>12, StepInv DEF Stages, TypeOK, b

\* The plan is answered, and cached under the key of its request if it is real.
LEMMA DeliverInv ==
    ASSUME IInv, NEW r \in Requests, Deliver(r)
    PROVE  IInv'
<1>1. /\ ByPart /\ TypeOK /\ TurnFits(r) /\ pc[r] = "planned" /\ ~Answered(r)
      /\ UNCHANGED <<clock, semantic, memory>>
  BY SoundIsAll DEF ByPart, Deliver, Answered
<1> DEFINE old == turn[r]
<1>2. /\ turn \in [Requests -> Turns] /\ old \in Turns /\ clock \in Nat
      /\ old.body \in Bodies /\ old.key \in Keys /\ old.plan \in Plans
      /\ old.since \in Nat /\ old.plan.born \in Nat
      /\ old.source \in {"graph", "semantic", None}
  BY <1>1 DEF TypeOK, Turns, Plans
<1>3. /\ KeyFits(old.body, old.key) /\ old.run = None
      /\ old.since <= clock /\ clock - old.since <= Patience
      /\ \/ old.source = "graph" /\ MadeFor(old.body, old.plan) /\ old.since <= old.plan.born
         \/ /\ old.source = "semantic" /\ Real(old.plan) /\ old.plan.org = old.body.org
            /\ old.since - old.plan.born <= TTL
  BY <1>1 DEF TurnFits, InProgress
<1>4. PICK down \in SUBSET {"redis", "database"} :
        LET t == turn[r]
            entry == [key |-> t.key, plan |-> t.plan, source |-> t.source, until |-> clock + TTL,
                      run |-> IF "database" \in down THEN t.run ELSE r]
        IN /\ Failing(down)
           /\ create_from_response(r, t, down)
           /\ IF cacheable(t.body) /\ t.plan.approved /\ "redis" \notin down
                THEN cache_plan(entry)
                ELSE UNCHANGED redis
  BY DEF Deliver
<1> DEFINE run == IF "database" \in down THEN None ELSE r
           t == IF "database" \in down THEN old ELSE [old EXCEPT !.run = r]
           entry == [key |-> old.key, plan |-> old.plan, source |-> old.source,
                     until |-> clock + TTL, run |-> run]
<1>5. /\ t \in Turns /\ t.body = old.body /\ t.key = old.key /\ t.since = old.since
      /\ t.plan = old.plan /\ t.source = old.source /\ t.run = run
  BY <1>2, <1>3 DEF Turns
<1>6. /\ turn' = [turn EXCEPT ![r] = t]
      /\ rows' = IF "database" \in down THEN rows ELSE rows \cup {r}
  BY <1>2, <1>4 DEF create_from_response
<1>7. /\ entry.key = old.key /\ entry.plan = old.plan /\ entry.source = old.source
      /\ entry.until = clock + TTL /\ entry.run = run
      /\ entry \in Entries
  BY <1>2, <1>3, ServiceAssumption DEF Entries
<1>8. \/ redis' = redis
      \/ /\ redis' \subseteq redis \cup {entry}
         /\ cacheable(old.body) /\ old.plan.approved
  BY <1>3, <1>4 DEF cache_plan
<1>9. /\ run \in {None, r} /\ (run = r => r \in rows') /\ (run = None => rows' = rows)
      /\ rows' \in {rows, rows \cup {r}} /\ None # r
  BY <1>6, ServiceAssumption
<1> HIDE DEF t, entry, run
<1>10. /\ pc' = [pc EXCEPT ![r] = "answered"] /\ pc'[r] = "answered" /\ turn'[r] = t
  BY <1>1, <1>2, <1>5, <1>6 DEF Deliver, TypeOK
<1> HIDE DEF old
<1>11. TurnFits(r)'
  BY <1>10 DEF TurnFits, InProgress
<1>12. Sound(r)'
  <2>1. t.since - t.plan.born < 2 * TTL + Patience
    BY <1>2, <1>3, <1>5, ServiceAssumption
  <2>2. t.run # None => t.run \in rows' /\ turn'[t.run].plan = t.plan
    BY <1>5, <1>9, <1>10
  <2>3. t.source = "semantic" \/ t.plan.born < t.since
          => Real(t.plan) /\ t.plan.org = t.body.org
    BY <1>2, <1>3, <1>5
  <2>4. t.source = "graph" => MadeFor(t.body, t.plan)
    BY <1>3, <1>5
  <2> QED
    BY <1>10, <2>1, <2>2, <2>3, <2>4 DEF Sound, Answered, Plan, Body, MadeFor, cacheable
<1>13. ASSUME NEW e, e = entry, cacheable(old.body), old.plan.approved PROVE EntryFits(e)'
  <2>1. Real(old.plan) /\ old.plan.org = old.key[1]
    BY <1>3, <1>13 DEF KeyFits, MadeFor, Real, cacheable
  <2>2. clock + TTL - old.plan.born <= 2 * TTL + Patience
    BY <1>2, <1>3, ServiceAssumption
  <2>3. run # None => run \in rows' /\ turn'[run].plan = old.plan
    BY <1>5, <1>9, <1>10
  <2>4. old.source = "graph" =>
          /\ old.plan.scenario = old.key[2] /\ old.plan.flags = {}
          /\ old.plan.dated => old.plan.day = old.key[3]
    BY <1>3, <1>13 DEF KeyFits, MadeFor, cacheable
  <2> QED
    <3>1. /\ e.key = old.key /\ e.plan = old.plan /\ e.source = old.source
          /\ e.until = clock + TTL /\ e.run = run
      BY <1>7, <1>13
    <3>2. e.run # None => e.run \in rows' /\ turn'[e.run].plan = e.plan
      BY <2>3, <3>1
    <3>3. Real(e.plan) /\ e.plan.org = e.key[1]
      BY <2>1, <3>1
    <3>4. e.until - e.plan.born <= 2 * TTL + Patience
      BY <1>2, <2>2, <3>1, ServiceAssumption
    <3>5. e.source = "graph" =>
            /\ e.plan.scenario = e.key[2] /\ e.plan.flags = {}
            /\ e.plan.dated => e.plan.day = e.key[3]
      BY <2>4, <3>1
    <3> QED
      BY <3>2, <3>3, <3>4, <3>5 DEF EntryFits
<1>14. /\ redis' \subseteq Entries
       /\ \A e \in redis' : e \in redis \/ EntryFits(e)'
  BY <1>1, <1>7, <1>8, <1>13 DEF TypeOK
<1>15. faults' \in 0 .. MaxFaults
  BY <1>1, <1>4, StoresAreFinite, FailuresAreCounted DEF TypeOK
<1>16. /\ t.body \in Bodies /\ t.key \in Keys /\ t.plan \in Plans
       /\ clock' = clock /\ memory' \subseteq Plans
       /\ semantic' \subseteq [plan : Plans, at : Nat]
       /\ \A p \in semantic' : p \in semantic
       /\ "answered" \in Stages \ {"idle"}
  BY <1>1, <1>2, <1>5 DEF TypeOK, Stages
<1> QED
  BY <1>1, <1>5, <1>6, <1>9, <1>10, <1>11, <1>12, <1>14, <1>15, <1>16, StepInv

\* Time passes only for requests that have some left.
LEMMA TickInv ==
    ASSUME IInv, Tick
    PROVE  IInv'
<1>1. /\ ByPart /\ TypeOK /\ clock \in Nat /\ clock' = clock + 1
      /\ UNCHANGED <<pc, turn, redis, semantic, memory, rows, faults>>
      /\ \A r \in Requests : InProgress(r) => clock - turn[r].since < Patience
  BY SoundIsAll DEF ByPart, TypeOK, Tick
<1>2. TypeOK'
  BY <1>1 DEF TypeOK, Answered
<1>3. ASSUME NEW r \in Requests PROVE TurnFits(r)' /\ Sound(r)'
  <2>1. turn[r].since \in Nat
    BY <1>1 DEF TypeOK, Turns
  <2>2. TurnFits(r)'
    BY <1>1, <2>1, ServiceAssumption DEF TurnFits, InProgress, ByPart
  <2>3. Sound(r)'
    BY <1>1 DEF Sound, Answered, Plan, Body, ByPart
  <2> QED
    BY <2>2, <2>3
<1>4. ASSUME NEW e \in redis PROVE EntryFits(e)'
  BY <1>1 DEF EntryFits, ByPart
<1> QED
  BY <1>1, <1>2, <1>3, <1>4, SoundIsAllNext DEF ByPart

LEMMA NextInv == IInv /\ [Next]_vars => IInv'
<1> SUFFICES ASSUME IInv, [Next]_vars PROVE IInv'
  OBVIOUS
<1>1. CASE Tick
  BY <1>1, TickInv
<1>2. ASSUME NEW r \in Requests, Handle(r) PROVE IInv'
  <2>1. CASE run_planning(r) \/ stream_planning(r) \/ friday_rush(r)
    BY <2>1, ReceiveInv DEF run_planning, stream_planning, friday_rush
  <2>2. CASE SemanticHit(r)
    BY <2>2, SemanticHitInv
  <2>3. CASE GraphStarts(r) \/ GraphFails(r)
    BY <2>3, GraphStartsInv
  <2>4. CASE run_planning_scenario(r) \/ stream_planning_scenario(r)
    BY <2>4, GraphEndsInv
  <2>5. CASE Deliver(r)
    BY <2>5, DeliverInv
  <2> QED
    BY <1>2, <2>1, <2>2, <2>3, <2>4, <2>5 DEF Handle
<1>3. CASE UNCHANGED vars
  <2>1. ByPart /\ UNCHANGED <<clock, pc, turn, redis, semantic, memory, rows, faults>>
    BY <1>3, SoundIsAll DEF vars
  <2>2. TypeOK'
    BY <2>1 DEF ByPart, TypeOK, Answered
  <2>3. \A r \in Requests : TurnFits(r)' /\ Sound(r)'
    BY <2>1 DEF ByPart, TurnFits, InProgress, Sound, Answered, Plan, Body
  <2>4. \A e \in redis : EntryFits(e)'
    BY <2>1 DEF ByPart, EntryFits
  <2> QED
    BY <2>1, <2>2, <2>3, <2>4, SoundIsAllNext DEF ByPart
<1> QED
  BY <1>1, <1>2, <1>3 DEF Next

LEMMA Invariant == Spec => []IInv
BY InitInv, NextInv, PTL DEF Spec

-----------------------------------------------------------------------------
(* The variables have their types.                                           *)
THEOREM TypeCorrectness == Spec => []TypeOK
<1>1. IInv => TypeOK
  BY DEF IInv
<1> QED
  BY <1>1, Invariant, PTL

(* Whatever a cache answers with is approved, of the caller's organization,  *)
(* neither simulated nor approved by decree, through the two caches and the  *)
(* copy from one to the other (planning.py:147, 263; graph.py:454, 580).     *)
THEOREM NothingFalseIsCached == Spec => []CachedPlansAreReal
<1>1. IInv => CachedPlansAreReal
  BY DEF IInv
<1> QED
  BY <1>1, Invariant, PTL

(* No answer is older than twice the time-to-live and the time of a request. *)
THEOREM AnswersAreFresh == Spec => []AgeBound
<1>1. IInv => AgeBound
  BY DEF IInv
<1> QED
  BY <1>1, Invariant, PTL

(* A run id leads to the plan of the response that carries it                *)
(* (run_service.py:16; planning.py:166-171, 244-251).                        *)
THEOREM RunIdsAreTrue == Spec => []RunIdNamesSamePlan
<1>1. IInv => RunIdNamesSamePlan
  BY DEF IInv
<1> QED
  BY <1>1, Invariant, PTL

(* Only the semantic cache, or a missing date, brings a plan that was made   *)
(* for something else than what was asked (plan_cache.py:35).                *)
THEOREM WrongPlansAreExplained == Spec => []WrongPlanExplained
<1>1. IInv => WrongPlanExplained
  BY DEF IInv
<1> QED
  BY <1>1, Invariant, PTL
=============================================================================
