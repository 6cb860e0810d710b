--------------------- MODULE PlanningServiceProperties ---------------------
(* What the planning routes promise of the plans they answer with.           *)
EXTENDS PlanningService

Answered(r) == pc[r] = "answered"
Body(r) == turn[r].body
Plan(r) == turn[r].plan

Keys == {b.org : b \in Bodies} \X (DOMAIN Weekday) \X Nat

Plans ==
  [org : {b.org : b \in Bodies} \cup {None}, scenario : DOMAIN Weekday, day : Nat,
   dated : BOOLEAN, restaurant : {b.restaurant : b \in Bodies},
   flags : SUBSET Flags, approved : BOOLEAN, born : Nat]

Entries ==
  [key : Keys, plan : Plans, source : {"graph", "semantic"}, until : Nat,
   run : Requests \cup {None}]

Turns ==
  [body : Bodies \cup {None}, key : Keys \cup {None}, since : Nat, day : Nat,
   plan : Plans \cup {None}, source : {"graph", "semantic", None},
   run : Requests \cup {None}]

(* The variables have their types; a request that is under way has a body    *)
(* and a key, one that is planned has a plan (planning.py:127-280).          *)
TypeOK ==
  /\ clock \in Nat
  /\ pc \in [Requests -> {"idle", "planning", "graph", "planned", "answered", "failed"}]
  /\ turn \in [Requests -> Turns]
  /\ \A r \in Requests :
       /\ pc[r] # "idle" => turn[r].body \in Bodies /\ turn[r].key \in Keys
       /\ pc[r] \in {"planned", "answered"} => turn[r].plan \in Plans
  /\ redis \subseteq Entries
  /\ semantic \subseteq [plan : Plans, at : Nat]
  /\ memory \subseteq Plans
  /\ rows \subseteq {r \in Requests : Answered(r)}
  /\ faults \in 0 .. MaxFaults

\* Approved by the critic on its own, about the real restaurant.
Real(p) == p.approved /\ p.flags \cap {"simulated", "forced"} = {}

(* Whatever a cache answers with was made for an organization of the caller, *)
(* approved, neither simulated nor approved by decree: through the two       *)
(* caches, the copy from one to the other and any interleaving of requests   *)
(* (planning.py:147, 263; graph.py:454, 580).                                *)
CachedPlansAreReal ==
  /\ \A r \in Requests :
       Answered(r) /\ (turn[r].source = "semantic" \/ Plan(r).born < turn[r].since)
         => Real(Plan(r)) /\ Plan(r).org = Body(r).org
  /\ \A e \in redis : Real(e.plan) /\ e.plan.org = e.key[1]
  /\ \A p \in semantic : Real(p.plan)

(* How old an answer can be.  An entry of the exact cache lives for TTL, but *)
(* it may be filled from the semantic cache with a plan nearly TTL old, by a *)
(* request that takes its time: twice the TTL and the time of one request.   *)
AgeBound ==
  \A r \in Requests :
    Answered(r) => turn[r].since - Plan(r).born < 2 * TTL + Patience

(* A response that names a run names one whose row holds the very plan of    *)
(* the response, also when the run was filed for an earlier request          *)
(* (run_service.py:16; planning.py:166-171, 244-251).                        *)
RunIdNamesSamePlan ==
  \A r \in Requests : Answered(r) /\ turn[r].run # None =>
    /\ turn[r].run \in rows
    /\ Plan(turn[r].run) = Plan(r)

(* An answer for another scenario, or one made in debug mode or from a       *)
(* custom profile, can only come through the semantic cache, and an answer   *)
(* for another day than the one asked for only through it or because one of  *)
(* the two requests left out its date, which the exact cache reads as today  *)
(* (plan_cache.py:35).                                                       *)
WrongPlanExplained ==
  \A r \in Requests : Answered(r) /\ turn[r].source = "graph" =>
    /\ Plan(r).scenario = Body(r).scenario
    /\ cacheable(Body(r)) => Plan(r).flags = {}
    /\ Body(r).date # None /\ Plan(r).day # Body(r).date => ~Plan(r).dated

-----------------------------------------------------------------------------
(* The inductive invariant behind them: what a plan, an entry of the exact   *)
(* cache and a point of the semantic cache were made for, and when.          *)
KeyFits(b, k) == k[1] = b.org /\ k[2] = b.scenario /\ (b.date # None => k[3] = b.date)

\* The plan is the one the graph makes for the body.
MadeFor(b, p) ==
  /\ p.scenario = b.scenario /\ p.flags = b.flags
  /\ b.route # "friday_rush" => p.org = b.org
  /\ p.dated <=> b.date # None
  /\ b.date # None => p.day = b.date

\* What the handler of r holds until it answers.
TurnFits(r) ==
  LET t == turn[r] IN
  /\ InProgress(r) =>
       /\ KeyFits(t.body, t.key) /\ t.run = None
       /\ t.since <= clock /\ clock - t.since <= Patience
  /\ pc[r] = "graph" /\ t.body.date # None => t.day = t.body.date
  /\ pc[r] = "planned" =>
       \/ t.source = "graph" /\ MadeFor(t.body, t.plan) /\ t.since <= t.plan.born
       \/ /\ t.source = "semantic" /\ Real(t.plan) /\ t.plan.org = t.body.org
          /\ t.since - t.plan.born <= TTL

\* A live entry answers every request that has its key.
EntryFits(e) ==
  /\ Real(e.plan) /\ e.plan.org = e.key[1]
  /\ e.until - e.plan.born <= 2 * TTL + Patience
  /\ e.run # None => e.run \in rows /\ turn[e.run].plan = e.plan
  /\ e.source = "graph" =>
       /\ e.plan.scenario = e.key[2] /\ e.plan.flags = {}
       /\ e.plan.dated => e.plan.day = e.key[3]

IInv ==
  /\ TypeOK
  /\ \A r \in Requests : TurnFits(r)
  /\ \A e \in redis : EntryFits(e)
  /\ \A p \in semantic : Real(p.plan) /\ p.at = p.plan.born
  /\ CachedPlansAreReal /\ AgeBound /\ RunIdNamesSamePlan /\ WrongPlanExplained
=============================================================================
