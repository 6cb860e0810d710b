------------------------ MODULE SwiggyEnrichersProofs ------------------------
(* Proofs that a result of an enricher is the caller's organization's, and   *)
(* not older than an entry of the cache may be, and that it counts only the  *)
(* neighbours it should, each once, for any number of concurrent             *)
(* enrichments, any pages of results and any limits on the calls; and, from  *)
(* the second half on, that the numbers computed from such results, and      *)
(* those of the plan that goes by them (PlanNumbers), agree with each other, *)
(* for any area, menu, house, shelf and demand.                              *)
EXTENDS SwiggyEnrichersProperties, PlanNumbersProperties, FiniteSetTheorems, WellFoundedInduction, TLAPS

\* A job that has begun.
LEMMA Begun ==
  ASSUME IInv, NEW e \in Enrichments, job[e].at # "idle", job[e].at # "done"
  PROVE  /\ DOMAIN job[e] = Fields /\ job[e].ctx \in Contexts
         /\ job[e].since \in Nat /\ job[e].since <= clock
         /\ job[e].at \in DOMAIN StageKind /\ StageKind[job[e].at] = job[e].ctx.kind
<1>1. NoJob.at = "idle"
  BY DEF NoJob
<1> QED
  BY <1>1 DEF IInv, JobFits

\* The stages of each kind.
LEMMA Kinds ==
  /\ DOMAIN StageKind = {"competitor", "found", "menus", "coupons", "occupancy", "slots",
                         "procurement", "searching"}
  /\ \A s \in {"competitor", "found", "menus", "coupons"} : StageKind[s] = "competitor"
  /\ \A s \in {"occupancy", "slots"} : StageKind[s] = "occupancy"
  /\ \A s \in {"procurement", "searching"} : StageKind[s] = "procurement"
BY DEF StageKind

\* The steps that move one job, and store nothing: to another stage of its kind,
\* or to its end, with a result that fits.
LEMMA Moves ==
  ASSUME IInv, NEW e \in Enrichments, NEW j, job' = [job EXCEPT ![e] = j],
         JobFits(j), UNCHANGED <<clock, cache>>
  PROVE  IInv'
<1>1. clock' = clock /\ cache' = cache
  OBVIOUS
<1>2. DOMAIN job' = Enrichments /\ job'[e] = j
  BY DEF IInv
<1>3. ASSUME NEW f \in Enrichments
      PROVE  JobFits(job[f])'
  <2>1. CASE f = e
    BY <1>1, <1>2, <2>1 DEF JobFits, ResultFits
  <2>2. CASE f # e
    <3>1. job'[f] = job[f] /\ JobFits(job[f])
      BY <2>2 DEF IInv
    <3> QED
      BY <1>1, <3>1 DEF JobFits, ResultFits
  <2> QED
    BY <2>1, <2>2
<1> QED
  BY <1>1, <1>2, <1>3 DEF IInv, EntryFits

\* The steps that only go on: the job keeps its context and its beginning.
LEMMA Advances ==
  ASSUME IInv, NEW e \in Enrichments, job[e].at # "idle", job[e].at # "done",
         NEW j, job' = [job EXCEPT ![e] = j],
         DOMAIN j = Fields, j.ctx = job[e].ctx, j.since = job[e].since,
         j.at \in DOMAIN StageKind, StageKind[j.at] = StageKind[job[e].at],
         UNCHANGED <<clock, cache>>
  PROVE  IInv'
<1>1. JobFits(j)
  BY Begun DEF JobFits
<1> QED
  BY <1>1, Moves

\* A tool call.
LEMMA Calls ==
  ASSUME IInv, NEW e \in Enrichments, job[e].at # "idle", job[e].at # "done",
         NEW item, NEW ok \in BOOLEAN, job' = [job EXCEPT ![e] = Called(e, item, ok)],
         UNCHANGED <<clock, cache>>
  PROVE  IInv'
<1> DEFINE j == Called(e, item, ok)
<1>1. DOMAIN job[e] = Fields
  BY Begun
<1>2. DOMAIN j = Fields /\ j.ctx = job[e].ctx /\ j.since = job[e].since /\ j.at = job[e].at
  BY <1>1 DEF Called, Fields
<1>3. j.at \in DOMAIN StageKind
  BY <1>2, Begun
<1> HIDE DEF j
<1> QED
  BY <1>2, <1>3, Advances DEF j

\* On to the next stage, with calls to make.
LEMMA Proceeds ==
  ASSUME IInv, NEW e \in Enrichments, job[e].at # "idle", job[e].at # "done",
         NEW stage, NEW todo, Proceed(e, stage, todo),
         stage \in DOMAIN StageKind, StageKind[stage] = StageKind[job[e].at],
         UNCHANGED <<clock, cache>>
  PROVE  IInv'
<1> DEFINE j == [job[e] EXCEPT !.at = stage, !.todo = todo, !.calls = 0]
<1>1. DOMAIN job[e] = Fields
  BY Begun
<1>2. DOMAIN j = Fields /\ j.ctx = job[e].ctx /\ j.since = job[e].since /\ j.at = stage
  BY <1>1 DEF Fields
<1>3. job' = [job EXCEPT ![e] = j]
  BY DEF Proceed
<1> HIDE DEF j
<1> QED
  BY <1>2, <1>3, Advances

\* An enrichment gives up: it returns None.
LEMMA Givesup ==
  ASSUME IInv, NEW e \in Enrichments, job[e].at # "idle", job[e].at # "done",
         Giveup(e), UNCHANGED clock
  PROVE  IInv'
<1> DEFINE j == [job[e] EXCEPT !.at = "done", !.todo = <<>>, !.found = <<>>, !.read = {}, !.menus = {},
                               !.result = None, !.fetched = TRUE, !.calls = 0]
<1>1. DOMAIN job[e] = Fields /\ job[e].ctx \in Contexts /\ job[e].since \in Nat /\ job[e].since <= clock
  BY Begun
<1>2. /\ DOMAIN j = Fields /\ j.ctx = job[e].ctx /\ j.since = job[e].since
      /\ j.at = "done" /\ j.result = None
  BY <1>1 DEF Fields
<1>3. job' = [job EXCEPT ![e] = j] /\ cache' = cache
  BY DEF Giveup, Return
<1> HIDE DEF j
<1>4. JobFits(j)
  BY <1>1, <1>2 DEF JobFits, ResultFits
<1> QED
  BY <1>3, <1>4, Moves

\* An enrichment is done: its result is stored, or not, and returned.
LEMMA Stores ==
  ASSUME IInv, NEW e \in Enrichments, job[e].at # "idle", job[e].at # "done",
         NEW result, result.kind = job[e].ctx.kind, result.ctx = job[e].ctx, result.at = clock,
         Store(e, result), UNCHANGED clock
  PROVE  IInv'
<1> DEFINE j == [job[e] EXCEPT !.at = "done", !.todo = <<>>, !.found = <<>>, !.read = {}, !.menus = {},
                               !.result = result, !.fetched = TRUE, !.calls = 0]
           entry == [key |-> cache_key(job[e].ctx), until |-> clock + TTL, result |-> result]
<1>1. DOMAIN job[e] = Fields /\ job[e].ctx \in Contexts /\ job[e].since \in Nat /\ job[e].since <= clock
  BY Begun
<1>2. /\ DOMAIN j = Fields /\ j.ctx = job[e].ctx /\ j.since = job[e].since
      /\ j.at = "done" /\ j.result = result
  BY <1>1 DEF Fields
<1>3. job' = [job EXCEPT ![e] = j]
  BY DEF Store, Return
<1>4. entry.key = <<job[e].ctx.kind, job[e].ctx.org>> /\ entry.until = clock + TTL /\ entry.result = result
  BY DEF cache_key
<1>5. \A x \in cache' : x \in cache \/ x = entry
  BY DEF Store, _cache_set
<1> HIDE DEF j, entry
<1>6. clock \in Nat /\ TTL \in Nat /\ TTL > 0
  BY EnricherAssumption DEF IInv
<1>7. EntryFits(entry)
  BY <1>4, <1>6 DEF EntryFits
<1>8. ResultFits(j)
  BY <1>1, <1>2, <1>6 DEF ResultFits
<1>9. JobFits(j)
  BY <1>1, <1>2, <1>8 DEF JobFits
<1>10. DOMAIN job' = Enrichments /\ job'[e] = j
  BY <1>3 DEF IInv
<1>11. ASSUME NEW f \in Enrichments
       PROVE  JobFits(job[f])'
  <2>1. CASE f = e
    BY <1>9, <1>10, <2>1 DEF JobFits, ResultFits
  <2>2. CASE f # e
    <3>1. job'[f] = job[f] /\ JobFits(job[f])
      BY <1>3, <2>2 DEF IInv
    <3> QED
      BY <3>1 DEF JobFits, ResultFits
  <2> QED
    BY <2>1, <2>2
<1>12. \A x \in cache' : EntryFits(x)
  BY <1>5, <1>7 DEF IInv
<1> QED
  BY <1>6, <1>10, <1>11, <1>12 DEF IInv, EntryFits

\* An enrichment begins, or is answered from the cache.
LEMMA StartInv ==
  ASSUME IInv, NEW e \in Enrichments, Start(e)
  PROVE  IInv'
<1>0. PICK ctx \in Contexts :
      LET begun == [at |-> ctx.kind, ctx |-> ctx, since |-> clock, todo |-> <<>>,
                    found |-> <<>>, read |-> {}, menus |-> {}, calls |-> 0,
                    result |-> None, fetched |-> FALSE]
      IN  \/ job' = [job EXCEPT ![e] = begun]
          \/ \E x \in _cache_get(ctx) :
               job' = [job EXCEPT ![e] = [begun EXCEPT !.at = "done", !.result = x.result]]
  BY DEF Start
<1> DEFINE begun == [at |-> ctx.kind, ctx |-> ctx, since |-> clock, todo |-> <<>>,
                     found |-> <<>>, read |-> {}, menus |-> {}, calls |-> 0,
                     result |-> None, fetched |-> FALSE]
<1>1. UNCHANGED <<clock, cache>>
  BY DEF Start
<1>2. clock \in Nat /\ TTL \in Nat /\ TTL > 0
  BY EnricherAssumption DEF IInv
<1>3. clock <= clock
  BY <1>2
<1>4. ctx \in Contexts
  OBVIOUS
<1>5. CASE job' = [job EXCEPT ![e] = begun]
  <2>1. DOMAIN begun = Fields /\ begun.ctx = ctx /\ begun.since = clock /\ begun.at = ctx.kind
    BY DEF Fields
  <2>2. ctx.kind \in DOMAIN StageKind /\ StageKind[ctx.kind] = ctx.kind
    BY <1>0, EnricherAssumption, Kinds
  <2> HIDE DEF begun
  <2>3. JobFits(begun)
    BY <1>2, <1>3, <1>4, <2>1, <2>2 DEF JobFits
  <2> QED
    BY <1>1, <1>5, <2>3, Moves
<1>6. ASSUME NEW x \in _cache_get(ctx),
             job' = [job EXCEPT ![e] = [begun EXCEPT !.at = "done", !.result = x.result]]
      PROVE  IInv'
  <2> DEFINE j == [begun EXCEPT !.at = "done", !.result = x.result]
  <2>1. /\ DOMAIN j = Fields /\ j.ctx = ctx /\ j.since = clock /\ j.at = "done"
        /\ j.result = x.result /\ j.fetched = FALSE
    BY DEF Fields
  <2>2. x \in cache /\ x.key = <<ctx.kind, ctx.org>> /\ clock < x.until
    BY DEF _cache_get, cache_key
  <2>3. /\ x.key = <<x.result.kind, x.result.ctx.org>>
        /\ x.result.at \in Nat /\ x.until = x.result.at + TTL
    BY <2>2 DEF IInv, EntryFits
  <2> HIDE DEF j, begun
  <2>4. x.result.kind = ctx.kind /\ x.result.ctx.org = ctx.org
    BY <2>2, <2>3
  <2>5. clock - x.result.at < TTL
    BY <1>2, <2>2, <2>3
  <2>6. JobFits(j)
    BY <1>2, <1>3, <1>4, <2>1, <2>3, <2>4, <2>5 DEF JobFits, ResultFits
  <2> QED
    BY <1>1, <1>6, <2>6, Moves DEF j
<1> QED
  BY <1>0, <1>5, <1>6

\* The steps of the competitor enricher.
LEMMA CompetitorInv ==
  ASSUME IInv, NEW e \in Enrichments,
         \/ _get_open_competitors(e) \/ Found(e) \/ _fetch_menus(e) \/ MenusRead(e)
         \/ _fetch_competitor_deals(e) \/ CompetitorDone(e)
  PROVE  IInv'
<1>1. job[e].at \in {"competitor", "found", "menus", "coupons"}
  BY DEF _get_open_competitors, Found, _fetch_menus, MenusRead, _fetch_competitor_deals, CompetitorDone
<1>2. DOMAIN job[e] = Fields /\ job[e].ctx.kind = "competitor"
  BY <1>1, Begun, Kinds
<1>3. CASE _get_open_competitors(e)
  <2> DEFINE page == Pages[job[e].ctx.cuisine][job[e].calls + 1]
             now == organic(job[e].found, page)
             j(stage) == [job[e] EXCEPT !.found = now, !.calls = @ + 1, !.at = stage]
             k == [job[e] EXCEPT !.at = "found"]
  <2>1. PICK stage \in {"competitor", "found"} :
          job' = [job EXCEPT ![e] = j(stage)] \/ job' = [job EXCEPT ![e] = k]
    BY <1>3 DEF _get_open_competitors
  <2>2. /\ DOMAIN j(stage) = Fields /\ j(stage).ctx = job[e].ctx
        /\ j(stage).since = job[e].since /\ j(stage).at = stage
    BY <1>2 DEF Fields
  <2>3. DOMAIN k = Fields /\ k.ctx = job[e].ctx /\ k.since = job[e].since /\ k.at = "found"
    BY <1>2 DEF Fields
  <2>4. UNCHANGED <<clock, cache>>
    BY <1>3 DEF _get_open_competitors
  <2> HIDE DEF j, k
  <2> QED
    BY <1>1, <2>1, <2>2, <2>3, <2>4, Kinds, Advances
<1>4. CASE Found(e)
  <2>1. CASE Giveup(e)
    BY <1>1, <1>4, <2>1, Givesup DEF Found
  <2>2. CASE Proceed(e, "menus", job[e].found) /\ UNCHANGED cache
    BY <1>1, <1>4, <2>2, Kinds, Proceeds DEF Found
  <2> QED
    BY <1>4, <2>1, <2>2 DEF Found
<1>5. CASE _fetch_menus(e) \/ _fetch_competitor_deals(e)
  <2>1. /\ \E ok \in BOOLEAN : job' = [job EXCEPT ![e] = Called(e, Head(job[e].todo), ok)]
        /\ UNCHANGED <<clock, cache>>
    BY <1>5 DEF _fetch_menus, _fetch_competitor_deals
  <2> QED
    BY <1>1, <2>1, Calls
<1>6. CASE MenusRead(e)
  <2> DEFINE j == [job[e] EXCEPT !.at = "coupons", !.calls = 0, !.todo = coupon_calls(job[e].found),
                                 !.menus = job[e].read, !.read = {}]
  <2>1. CASE Giveup(e)
    BY <1>1, <1>6, <2>1, Givesup DEF MenusRead
  <2>2. CASE job' = [job EXCEPT ![e] = j] /\ UNCHANGED cache
    <3>1. DOMAIN j = Fields /\ j.ctx = job[e].ctx /\ j.since = job[e].since /\ j.at = "coupons"
      BY <1>2 DEF Fields
    <3>2. UNCHANGED <<clock, cache>>
      BY <1>6, <2>2 DEF MenusRead
    <3> HIDE DEF j
    <3> QED
      BY <1>1, <2>2, <3>1, <3>2, Kinds, Advances
  <2> QED
    BY <1>6, <2>1, <2>2 DEF MenusRead
<1>7. CASE CompetitorDone(e)
  <2>1. Store(e, competitor_result(job[e])) /\ UNCHANGED clock
    BY <1>7 DEF CompetitorDone
  <2>2. /\ competitor_result(job[e]).kind = "competitor"
        /\ competitor_result(job[e]).ctx = job[e].ctx
        /\ competitor_result(job[e]).at = clock
    BY DEF competitor_result
  <2> QED
    BY <1>1, <1>2, <2>1, <2>2, Stores
<1> QED
  BY <1>3, <1>4, <1>5, <1>6, <1>7

\* The steps of the occupancy enricher.
LEMMA OccupancyInv ==
  ASSUME IInv, NEW e \in Enrichments,
         _get_competitors(e) \/ _fetch_slot_counts(e) \/ OccupancyDone(e)
  PROVE  IInv'
<1>1. job[e].at \in {"occupancy", "slots"}
  BY DEF _get_competitors, _fetch_slot_counts, OccupancyDone
<1>2. job[e].ctx.kind = "occupancy"
  BY <1>1, Begun, Kinds
<1>3. CASE _get_competitors(e)
  <2> DEFINE j(asked) == [job[e] EXCEPT !.at = "slots", !.todo = asked, !.found = asked]
  <2>1. /\ UNCHANGED clock
        /\ Giveup(e) \/ \E asked : job' = [job EXCEPT ![e] = j(asked)] /\ UNCHANGED cache
    BY <1>3 DEF _get_competitors
  <2>2. ASSUME NEW asked, job' = [job EXCEPT ![e] = j(asked)], UNCHANGED cache
        PROVE  IInv'
    <3>1. /\ DOMAIN j(asked) = Fields /\ j(asked).ctx = job[e].ctx
          /\ j(asked).since = job[e].since /\ j(asked).at = "slots"
      BY <1>1, Begun DEF Fields
    <3>2. UNCHANGED <<clock, cache>>
      BY <2>1, <2>2
    <3> HIDE DEF j
    <3> QED
      BY <1>1, <2>2, <3>1, <3>2, Kinds, Advances
  <2> QED
    BY <1>1, <2>1, <2>2, Givesup
<1>4. CASE _fetch_slot_counts(e)
  <2>1. /\ \E ok \in BOOLEAN : job' = [job EXCEPT ![e] = Called(e, Head(job[e].todo), ok)]
        /\ UNCHANGED <<clock, cache>>
    BY <1>4 DEF _fetch_slot_counts
  <2> QED
    BY <1>1, <2>1, Calls
<1>5. CASE OccupancyDone(e)
  <2>1. UNCHANGED clock /\ (Giveup(e) \/ \E offering : Store(e, occupancy_result(job[e], offering)))
    BY <1>5 DEF OccupancyDone
  <2>2. ASSUME NEW offering, Store(e, occupancy_result(job[e], offering))
        PROVE  IInv'
    <3>1. /\ occupancy_result(job[e], offering).kind = "occupancy"
          /\ occupancy_result(job[e], offering).ctx = job[e].ctx
          /\ occupancy_result(job[e], offering).at = clock
      BY DEF occupancy_result
    <3> QED
      BY <1>1, <1>2, <2>1, <2>2, <3>1, Stores
  <2> QED
    BY <1>1, <2>1, <2>2, Givesup
<1> QED
  BY <1>3, <1>4, <1>5

\* The steps of the procurement enricher.
LEMMA ProcurementInv ==
  ASSUME IInv, NEW e \in Enrichments,
         _search_shortage_items(e) \/ Search(e) \/ ProcurementDone(e)
  PROVE  IInv'
<1>1. job[e].at \in {"procurement", "searching"}
  BY DEF _search_shortage_items, Search, ProcurementDone
<1>2. job[e].ctx.kind = "procurement"
  BY <1>1, Begun, Kinds
<1>3. CASE _search_shortage_items(e)
  <2>1. UNCHANGED <<clock, cache>> /\ \E todo : Proceed(e, "searching", todo)
    BY <1>3 DEF _search_shortage_items
  <2> QED
    BY <1>1, <2>1, Kinds, Proceeds
<1>4. CASE Search(e)
  <2>1. /\ \E ok \in BOOLEAN : job' = [job EXCEPT ![e] = Called(e, Head(job[e].todo), ok)]
        /\ UNCHANGED <<clock, cache>>
    BY <1>4 DEF Search
  <2> QED
    BY <1>1, <2>1, Calls
<1>5. CASE ProcurementDone(e)
  <2> DEFINE result == [kind |-> "procurement", ctx |-> job[e].ctx, at |-> clock, options |-> job[e].read]
  <2>1. UNCHANGED clock /\ (Giveup(e) \/ Store(e, result))
    BY <1>5 DEF ProcurementDone
  <2>2. result.kind = "procurement" /\ result.ctx = job[e].ctx /\ result.at = clock
    OBVIOUS
  <2> HIDE DEF result
  <2> QED
    BY <1>1, <1>2, <2>1, <2>2, Givesup, Stores
<1> QED
  BY <1>3, <1>4, <1>5

LEMMA NextInv == IInv /\ [Next]_vars => IInv'
<1> SUFFICES ASSUME IInv, [Next]_vars
             PROVE  IInv'
  OBVIOUS
<1>1. CASE UNCHANGED vars
  BY <1>1 DEF vars, IInv, JobFits, ResultFits, EntryFits
<1>2. CASE Tick
  <2>1. clock' = clock + 1 /\ UNCHANGED <<job, cache>> /\ clock \in Nat
    BY <1>2 DEF Tick, IInv
  <2>2. ASSUME NEW e \in Enrichments
        PROVE  JobFits(job[e])'
    <3>1. JobFits(job[e])
      BY DEF IInv
    <3> QED
      BY <2>1, <3>1 DEF JobFits, ResultFits
  <2> QED
    BY <2>1, <2>2 DEF IInv, EntryFits
<1>3. ASSUME NEW e \in Enrichments, enrich(e)
      PROVE  IInv'
  BY <1>3, StartInv, CompetitorInv, OccupancyInv, ProcurementInv DEF enrich
<1> QED
  BY <1>1, <1>2, <1>3 DEF Next

\* Whatever fails and however enrichments interleave, a result is one made for
\* the caller's organization and kind, for its very context when it was fetched,
\* and fresh by the time-to-live when it was found.
THEOREM ResultsAreExplained == Spec => []AnswersExplained
<1>1. Init => IInv
  BY DEF Init, IInv, JobFits, NoJob
<1>2. IInv => AnswersExplained
  <2> SUFFICES ASSUME IInv, NEW e \in Enrichments, job[e].at = "done", job[e].result # None
               PROVE  /\ job[e].result.kind = job[e].ctx.kind
                      /\ job[e].result.ctx.org = job[e].ctx.org
                      /\ job[e].fetched => job[e].result.ctx = job[e].ctx
                      /\ job[e].since - job[e].result.at < TTL
    BY DEF AnswersExplained
  <2>1. NoJob.at = "idle" /\ "done" \notin DOMAIN StageKind
    BY Kinds DEF NoJob
  <2> QED
    BY <2>1 DEF IInv, JobFits, ResultFits
<1> QED
  BY <1>1, <1>2, NextInv, PTL DEF Spec

-----------------------------------------------------------------------------
(* Loops over a page *)

\* Induction on the natural numbers, for a set of them.
LEMMA SetInduction ==
  ASSUME NEW S, 0 \in S, \A n \in Nat : n \in S => n + 1 \in S
  PROVE  Nat \subseteq S
<1> DEFINE R == OpToRel(<, Nat)
           T == Nat \ S
<1>1. IsWellFoundedOn(R, Nat)
  BY NatLessThanWellFounded
<1>2. \A x, y \in Nat : x < y => <<x, y>> \in R
  BY DEF OpToRel
<1> HIDE DEF R
<1>3. CASE T # {}
  <2>1. PICK x \in T : \A y \in T : ~ (<<y, x>> \in R)
    <3>1. T \subseteq Nat
      OBVIOUS
    <3> HIDE DEF T
    <3> QED
      BY <1>1, <1>3, <3>1, WFMin
  <2>2. x - 1 \in T /\ x - 1 \in Nat /\ x \in Nat
    OBVIOUS
  <2>3. <<x - 1, x>> \in R
    <3>1. x - 1 < x
      BY <2>2
    <3> QED
      BY <1>2, <2>2, <3>1
  <2> HIDE DEF T
  <2> QED
    BY <2>1, <2>2, <2>3
<1> QED
  BY <1>3

\* f is a loop of n rounds over a: round[k][x] is what round k makes of x.
IsLoop(f, a, round, n) == f = [k \in 0 .. n |-> IF k = 0 THEN a ELSE round[k][f[k - 1]]]

\* There is one, whatever a round makes of what it finds.
LEMMA LoopExists ==
  ASSUME NEW a, NEW round, NEW n \in Nat
  PROVE  \E f : IsLoop(f, a, round, n)
<1> DEFINE body(f, m) == [k \in 0 .. m |-> IF k = 0 THEN a ELSE round[k][f[k - 1]]]
           Good == {m \in Nat : \E f : f = body(f, m)}
<1>1. 0 \in Good
  <2>1. [k \in 0 .. 0 |-> a] = body([k \in 0 .. 0 |-> a], 0)
    OBVIOUS
  <2> QED
    BY <2>1
<1>2. ASSUME NEW m \in Nat, m \in Good
      PROVE  m + 1 \in Good
  <2>1. PICK f : f = body(f, m)
    BY <1>2
  <2>2. \A k \in 0 .. m : f[k] = IF k = 0 THEN a ELSE round[k][f[k - 1]]
    BY <2>1
  <2> DEFINE g == [k \in 0 .. m + 1 |-> IF k = m + 1 THEN round[m + 1][f[m]] ELSE f[k]]
  <2>3. ASSUME NEW k \in 0 .. m + 1
        PROVE  g[k] = IF k = 0 THEN a ELSE round[k][g[k - 1]]
    <3>1. CASE k = m + 1
      <4>1. g[k] = round[m + 1][f[m]] /\ g[k - 1] = f[m]
        BY <3>1
      <4> HIDE DEF g
      <4> QED
        BY <3>1, <4>1
    <3>2. CASE k \in 0 .. m
      <4>1. g[k] = f[k] /\ (k # 0 => g[k - 1] = f[k - 1])
        BY <3>2
      <4> HIDE DEF g
      <4> QED
        BY <2>2, <3>2, <4>1
    <3> QED
      BY <3>1, <3>2
  <2>4. g = [k \in 0 .. m + 1 |-> g[k]]
    OBVIOUS
  <2> HIDE DEF g
  <2>5. g = body(g, m + 1)
    BY <2>3, <2>4
  <2> HIDE DEF body
  <2> QED
    BY <2>5
<1> HIDE DEF Good
<1>3. Nat \subseteq Good
  BY <1>1, <1>2, SetInduction
<1>4. PICK f : f = body(f, n)
  BY <1>3 DEF Good
<1> QED
  BY <1>4 DEF IsLoop

\* What holds before a loop and is kept by each of its rounds holds throughout.
LEMMA LoopKeeps ==
  ASSUME NEW n \in Nat, NEW f, NEW V, f[0] \in V, \A k \in 1 .. n : f[k - 1] \in V => f[k] \in V
  PROVE  \A k \in 0 .. n : f[k] \in V
<1> DEFINE Good == {k \in Nat : k <= n => f[k] \in V}
<1>1. 0 \in Good
  OBVIOUS
<1>2. ASSUME NEW k \in Nat, k \in Good
      PROVE  k + 1 \in Good
  <2>1. CASE k + 1 <= n
    <3>1. f[(k + 1) - 1] \in V /\ k + 1 \in 1 .. n
      BY <1>2, <2>1
    <3> QED
      BY <3>1
  <2>2. CASE ~ (k + 1 <= n)
    BY <2>2
  <2> QED
    BY <2>1, <2>2
<1> HIDE DEF Good
<1>3. Nat \subseteq Good
  BY <1>1, <1>2, SetInduction
<1> QED
  BY <1>3 DEF Good

\* A new restaurant at the end.
LEMMA AppendNew ==
  ASSUME NEW X, NEW s \in Seq(X), NEW r \in X
  PROVE  /\ Append(s, r) \in Seq(X)
         /\ Range(s) \subseteq Range(Append(s, r))
         /\ IsInjective(s) /\ r \notin Range(s) => IsInjective(Append(s, r))
<1>1. /\ Append(s, r) \in Seq(X) /\ Len(s) \in Nat
      /\ DOMAIN s = 1 .. Len(s) /\ DOMAIN Append(s, r) = 1 .. Len(s) + 1
      /\ \A i \in 1 .. Len(s) : Append(s, r)[i] = s[i]
      /\ Append(s, r)[Len(s) + 1] = r
  OBVIOUS
<1>2. Range(s) \subseteq Range(Append(s, r))
  BY <1>1 DEF Range
<1>3. ASSUME IsInjective(s), r \notin Range(s)
      PROVE  IsInjective(Append(s, r))
  <2>1. \A i \in 1 .. Len(s) : s[i] # r
    BY <1>1, <1>3 DEF Range
  <2>2. \A i, k \in 1 .. Len(s) : s[i] = s[k] => i = k
    BY <1>1, <1>3 DEF IsInjective
  <2>3. \A i, k \in 1 .. Len(s) + 1 : Append(s, r)[i] = Append(s, r)[k] => i = k
    BY <1>1, <2>1, <2>2
  <2> QED
    BY <1>1, <2>3 DEF IsInjective
<1> QED
  BY <1>1, <1>2, <1>3

\* Competitors are rivals, each of them once, and those of earlier pages stay.
LEMMA OrganicKept ==
  ASSUME NEW found \in Seq(Rivals), IsInjective(found), NEW page \in Seq(Restaurants)
  PROVE  /\ organic(found, page) \in Seq(Rivals) /\ IsInjective(organic(found, page))
         /\ Range(found) \subseteq Range(organic(found, page))
<1> DEFINE n == Len(page)
           V == {s \in Seq(Rivals) : IsInjective(s) /\ Range(found) \subseteq Range(s)}
           step(s, r) == IF r \in Rivals /\ r \notin Range(s) THEN Append(s, r) ELSE s
           body(f) == [k \in 0 .. n |-> IF k = 0 THEN found ELSE step(f[k - 1], page[k])]
           after == CHOOSE f : f = body(f)
           round == [k \in 1 .. n |-> [s \in V |-> step(s, page[k])]]
<1>1. organic(found, page) = after[n]
  BY DEF organic
<1>2. n \in Nat /\ found \in V
  OBVIOUS
<1>3. ASSUME NEW s \in V, NEW r
      PROVE  step(s, r) \in V
  BY AppendNew
<1> HIDE DEF V, step, n
<1>8. \A k \in 1 .. n : \A s \in V : round[k][s] = step(s, page[k])
  OBVIOUS
<1>9. 0 \in 0 .. n /\ n \in 0 .. n
  BY <1>2
<1> HIDE DEF round
<1>4. \E f : f = body(f)
  <2>1. PICK f : IsLoop(f, found, round, n)
    BY <1>2, LoopExists
  <2>2. \A k \in 0 .. n : f[k] = IF k = 0 THEN found ELSE round[k][f[k - 1]]
    BY <2>1 DEF IsLoop
  <2>3. f[0] \in V
    BY <1>2, <1>9, <2>2
  <2>4. ASSUME NEW k \in 1 .. n, f[k - 1] \in V
        PROVE  f[k] = step(f[k - 1], page[k])
    <3>1. f[k] = round[k][f[k - 1]]
      BY <1>2, <2>2
    <3> QED
      BY <1>8, <2>4, <3>1
  <2>5. \A k \in 0 .. n : f[k] \in V
    <3>1. \A k \in 1 .. n : f[k - 1] \in V => f[k] \in V
      BY <1>3, <2>4
    <3> QED
      BY <1>2, <2>3, <3>1, LoopKeeps
  <2>6. \A k \in 0 .. n : f[k] = IF k = 0 THEN found ELSE step(f[k - 1], page[k])
    <3>1. \A k \in 0 .. n : k # 0 => (k \in 1 .. n /\ k - 1 \in 0 .. n)
      BY <1>2
    <3> QED
      BY <2>2, <2>4, <2>5, <3>1
  <2>7. f = [k \in 0 .. n |-> f[k]]
    BY <2>1 DEF IsLoop
  <2>8. f = body(f)
    BY <2>6, <2>7
  <2> HIDE DEF body
  <2> QED
    BY <2>8
<1>5. after = body(after)
  <2> HIDE DEF body
  <2> QED
    BY <1>4, Zenon
<1> HIDE DEF after
<1>6. after[0] \in V /\ \A k \in 1 .. n : after[k - 1] \in V => after[k] \in V
  <2>1. \A k \in 0 .. n : after[k] = IF k = 0 THEN found ELSE step(after[k - 1], page[k])
    BY <1>5
  <2> QED
    BY <1>2, <1>3, <2>1
<1>7. after[n] \in V
  <2>1. \A k \in 0 .. n : after[k] \in V
    BY <1>2, <1>6, LoopKeeps
  <2> QED
    BY <1>9, <2>1
<1> QED
  BY <1>1, <1>7 DEF V

\* Only restaurants of S are listed.
LEMMA ListedKept ==
  ASSUME NEW S, NEW page
  PROVE  Len(page) \in Nat => listed(page, S) \in Seq(S)
<1> SUFFICES ASSUME Len(page) \in Nat
             PROVE  listed(page, S) \in Seq(S)
  OBVIOUS
<1> DEFINE n == Len(page)
           empty == <<>>
           V == Seq(S)
           step(s, r) == IF r \in S THEN Append(s, r) ELSE s
           body(f) == [k \in 0 .. n |-> IF k = 0 THEN empty ELSE step(f[k - 1], page[k])]
           after == CHOOSE f : f = body(f)
           round == [k \in 1 .. n |-> [s \in V |-> step(s, page[k])]]
<1>1. listed(page, S) = after[n]
  BY DEF listed
<1>2. n \in Nat /\ empty \in V
  OBVIOUS
<1>3. ASSUME NEW s \in V, NEW r
      PROVE  step(s, r) \in V
  OBVIOUS
<1> HIDE DEF V, step, n, empty
<1>8. \A k \in 1 .. n : \A s \in V : round[k][s] = step(s, page[k])
  OBVIOUS
<1>9. 0 \in 0 .. n /\ n \in 0 .. n
  BY <1>2
<1> HIDE DEF round
<1>4. \E f : f = body(f)
  <2>1. PICK f : IsLoop(f, empty, round, n)
    BY <1>2, LoopExists
  <2>2. \A k \in 0 .. n : f[k] = IF k = 0 THEN empty ELSE round[k][f[k - 1]]
    BY <2>1 DEF IsLoop
  <2>3. f[0] \in V
    BY <1>2, <1>9, <2>2
  <2>4. ASSUME NEW k \in 1 .. n, f[k - 1] \in V
        PROVE  f[k] = step(f[k - 1], page[k])
    <3>1. f[k] = round[k][f[k - 1]]
      BY <1>2, <2>2
    <3> QED
      BY <1>8, <2>4, <3>1
  <2>5. \A k \in 0 .. n : f[k] \in V
    <3>1. \A k \in 1 .. n : f[k - 1] \in V => f[k] \in V
      BY <1>3, <2>4
    <3> QED
      BY <1>2, <2>3, <3>1, LoopKeeps
  <2>6. \A k \in 0 .. n : f[k] = IF k = 0 THEN empty ELSE step(f[k - 1], page[k])
    <3>1. \A k \in 0 .. n : k # 0 => (k \in 1 .. n /\ k - 1 \in 0 .. n)
      BY <1>2
    <3> QED
      BY <2>2, <2>4, <2>5, <3>1
  <2>7. f = [k \in 0 .. n |-> f[k]]
    BY <2>1 DEF IsLoop
  <2>8. f = body(f)
    BY <2>6, <2>7
  <2> HIDE DEF body
  <2> QED
    BY <2>8
<1>5. after = body(after)
  <2> HIDE DEF body
  <2> QED
    BY <1>4, Zenon
<1> HIDE DEF after
<1>6. after[0] \in V /\ \A k \in 1 .. n : after[k - 1] \in V => after[k] \in V
  <2>1. \A k \in 0 .. n : after[k] = IF k = 0 THEN empty ELSE step(after[k - 1], page[k])
    BY <1>5
  <2> QED
    BY <1>2, <1>3, <2>1
<1>7. after[n] \in V
  <2>1. \A k \in 0 .. n : after[k] \in V
    BY <1>2, <1>6, LoopKeeps
  <2> QED
    BY <1>9, <2>1
<1> QED
  BY <1>1, <1>7 DEF V

\* The first few of a sequence.
LEMMA FirstFew ==
  ASSUME NEW X, NEW s \in Seq(X), NEW m \in Nat
  PROVE  SubSeq(s, 1, Min({m, Len(s)})) \in Seq(X)
<1>1. Len(s) \in Nat
  OBVIOUS
<1>2. \E x \in {m, Len(s)} : \A y \in {m, Len(s)} : x <= y
  BY <1>1
<1>3. Min({m, Len(s)}) \in Nat /\ Min({m, Len(s)}) <= Len(s)
  BY <1>1, <1>2 DEF Min
<1> DEFINE k == Min({m, Len(s)})
<1>4. k \in Nat /\ k <= Len(s)
  BY <1>3
<1> HIDE DEF k
<1>5. SubSeq(s, 1, k) \in Seq(X)
  BY <1>4
<1> QED
  BY <1>5 DEF k

-----------------------------------------------------------------------------
(* Who counts *)

\* A step of one enrichment leaves the others as clean as they were.
LEMMA CleanMoves ==
  ASSUME IInv, CleanInv, NEW e \in Enrichments, NEW j, job' = [job EXCEPT ![e] = j], JobClean(j),
         \A x \in cache' : x \in cache \/ ResultClean(x.result)
  PROVE  CleanInv'
<1>1. \A x \in cache' : ResultClean(x.result)
  BY DEF CleanInv
<1>2. \A f \in Enrichments : JobClean(job'[f])
  BY DEF CleanInv, IInv
<1> QED
  BY <1>1, <1>2 DEF CleanInv, JobClean, ResultClean

\* The steps that store nothing.
LEMMA CleanQuiet ==
  ASSUME IInv, CleanInv, NEW e \in Enrichments, NEW j, job' = [job EXCEPT ![e] = j], JobClean(j),
         UNCHANGED cache
  PROVE  CleanInv'
BY CleanMoves

\* An enrichment gives up.
LEMMA CleanGiveup ==
  ASSUME IInv, CleanInv, NEW e \in Enrichments, job[e].at # "idle", job[e].at # "done", Giveup(e)
  PROVE  CleanInv'
<1> DEFINE j == [job[e] EXCEPT !.at = "done", !.todo = <<>>, !.found = <<>>, !.read = {}, !.menus = {},
                               !.result = None, !.fetched = TRUE, !.calls = 0]
<1>1. DOMAIN job[e] = Fields
  BY Begun
<1>2. j.at = "done" /\ j.result = None
  BY <1>1 DEF Fields
<1>3. job' = [job EXCEPT ![e] = j] /\ cache' = cache
  BY DEF Giveup, Return
<1> HIDE DEF j
<1>4. JobClean(j)
  BY <1>2 DEF JobClean
<1> QED
  BY <1>3, <1>4, CleanQuiet

\* An enrichment stores, or not, and returns a clean result.
LEMMA CleanStore ==
  ASSUME IInv, CleanInv, NEW e \in Enrichments, job[e].at # "idle", job[e].at # "done",
         NEW result, ResultClean(result), Store(e, result)
  PROVE  CleanInv'
<1> DEFINE j == [job[e] EXCEPT !.at = "done", !.todo = <<>>, !.found = <<>>, !.read = {}, !.menus = {},
                               !.result = result, !.fetched = TRUE, !.calls = 0]
           entry == [key |-> cache_key(job[e].ctx), until |-> clock + TTL, result |-> result]
<1>1. DOMAIN job[e] = Fields
  BY Begun
<1>2. j.at = "done" /\ j.result = result
  BY <1>1 DEF Fields
<1>3. job' = [job EXCEPT ![e] = j]
  BY DEF Store, Return
<1>4. \A x \in cache' : x \in cache \/ x = entry
  BY DEF Store, _cache_set
<1>5. entry.result = result
  OBVIOUS
<1> HIDE DEF j, entry
<1>6. JobClean(j)
  BY <1>2 DEF JobClean
<1> QED
  BY <1>3, <1>4, <1>5, <1>6, CleanMoves

\* An enrichment begins with nothing, or with what the cache has.
LEMMA CleanStart ==
  ASSUME IInv, CleanInv, NEW e \in Enrichments, Start(e)
  PROVE  CleanInv'
<1>0. PICK ctx \in Contexts :
      LET begun == [at |-> ctx.kind, ctx |-> ctx, since |-> clock, todo |-> <<>>,
                    found |-> <<>>, read |-> {}, menus |-> {}, calls |-> 0,
                    result |-> None, fetched |-> FALSE]
      IN  \/ job' = [job EXCEPT ![e] = begun]
          \/ \E x \in _cache_get(ctx) :
               job' = [job EXCEPT ![e] = [begun EXCEPT !.at = "done", !.result = x.result]]
  BY DEF Start
<1> DEFINE begun == [at |-> ctx.kind, ctx |-> ctx, since |-> clock, todo |-> <<>>,
                     found |-> <<>>, read |-> {}, menus |-> {}, calls |-> 0,
                     result |-> None, fetched |-> FALSE]
<1>1. UNCHANGED cache
  BY DEF Start
<1>2. CASE job' = [job EXCEPT ![e] = begun]
  <2>1. /\ begun.at = ctx.kind /\ begun.found = <<>> /\ begun.read = {} /\ begun.menus = {}
        /\ begun.calls = 0
    OBVIOUS
  <2>2. ctx.kind \in {"competitor", "occupancy", "procurement"}
    BY <1>0, EnricherAssumption
  <2>3. <<>> \in Seq(Rivals) /\ DOMAIN <<>> = {}
    OBVIOUS
  <2> HIDE DEF begun
  <2>4. IsInjective(begun.found)
    BY <2>1, <2>3 DEF IsInjective
  <2>5. JobClean(begun)
    BY <2>1, <2>2, <2>3, <2>4 DEF JobClean
  <2> QED
    BY <1>1, <1>2, <2>5, CleanQuiet
<1>3. ASSUME NEW x \in _cache_get(ctx),
             job' = [job EXCEPT ![e] = [begun EXCEPT !.at = "done", !.result = x.result]]
      PROVE  CleanInv'
  <2> DEFINE j == [begun EXCEPT !.at = "done", !.result = x.result]
  <2>1. j.at = "done" /\ j.result = x.result
    OBVIOUS
  <2>2. x \in cache
    BY DEF _cache_get
  <2> HIDE DEF j, begun
  <2>3. JobClean(j)
    BY <2>1, <2>2 DEF JobClean, CleanInv
  <2> QED
    BY <1>1, <1>3, <2>3, CleanQuiet DEF j
<1> QED
  BY <1>0, <1>2, <1>3

\* A call is made of the first to ask, and what it yields is of that one.
LEMMA CleanCall ==
  ASSUME IInv, CleanInv, NEW e \in Enrichments,
         job[e].at \in {"menus", "coupons", "slots", "searching"}, job[e].todo # <<>>,
         NEW ok \in BOOLEAN, job' = [job EXCEPT ![e] = Called(e, Head(job[e].todo), ok)],
         UNCHANGED cache
  PROVE  CleanInv'
<1> DEFINE item == Head(job[e].todo)
           j == Called(e, item, ok)
<1>1. DOMAIN job[e] = Fields
  BY Begun
<1>2. /\ j.at = job[e].at /\ j.found = job[e].found /\ j.menus = job[e].menus
      /\ j.todo = Tail(job[e].todo)
      /\ j.read \subseteq job[e].read \cup {item}
  BY <1>1 DEF Called, Fields
<1>3. \A X : job[e].todo \in Seq(X) => item \in X /\ Tail(job[e].todo) \in Seq(X)
  OBVIOUS
<1> HIDE DEF item, j
<1>4. JobClean(job[e])
  BY DEF CleanInv
<1>5. JobClean(j)
  BY <1>2, <1>3, <1>4 DEF JobClean
<1> QED
  BY <1>5, CleanQuiet DEF j, item

\* The steps of the competitor enricher.
LEMMA CleanCompetitor ==
  ASSUME IInv, CleanInv, NEW e \in Enrichments,
         \/ _get_open_competitors(e) \/ Found(e) \/ _fetch_menus(e) \/ MenusRead(e)
         \/ _fetch_competitor_deals(e) \/ CompetitorDone(e)
  PROVE  CleanInv'
<1>1. job[e].at \in {"competitor", "found", "menus", "coupons"}
  BY DEF _get_open_competitors, Found, _fetch_menus, MenusRead, _fetch_competitor_deals, CompetitorDone
<1>2. DOMAIN job[e] = Fields /\ job[e].ctx \in Contexts
  BY <1>1, Begun
<1>3. /\ job[e].found \in Seq(Rivals) /\ IsInjective(job[e].found)
      /\ job[e].menus \cup job[e].read \subseteq Range(job[e].found)
      /\ job[e].at = "competitor" => job[e].calls \in {0, 1}
  BY <1>1 DEF CleanInv, JobClean
<1>4. job[e].found \in Seq(Range(job[e].found)) /\ Range(job[e].found) \subseteq Rivals
  BY <1>3 DEF Range
<1>5. CASE _get_open_competitors(e)
  <2> DEFINE page == Pages[job[e].ctx.cuisine][job[e].calls + 1]
             now == organic(job[e].found, page)
             over == job[e].calls = 1 \/ Len(now) >= 5 \/ page = <<>>
             stage == IF over THEN "found" ELSE "competitor"
             j == [job[e] EXCEPT !.found = now, !.calls = @ + 1, !.at = stage]
             k == [job[e] EXCEPT !.at = "found"]
  <2>1. (job' = [job EXCEPT ![e] = j] \/ job' = [job EXCEPT ![e] = k]) /\ UNCHANGED cache
    BY <1>5, <1>2 DEF _get_open_competitors
  <2>2. job[e].at = "competitor" /\ job[e].calls \in {0, 1}
    BY <1>3, <1>5 DEF _get_open_competitors
  <2>3. page \in Seq(Restaurants)
    BY <1>2, <2>2, EnricherAssumption
  <2> HIDE DEF page
  <2>4. /\ now \in Seq(Rivals) /\ IsInjective(now)
        /\ Range(job[e].found) \subseteq Range(now)
    BY <1>3, <2>3, OrganicKept
  <2>5. /\ j.found = now /\ j.read = job[e].read /\ j.menus = job[e].menus
        /\ j.at = stage /\ j.calls = job[e].calls + 1
    BY <1>2 DEF Fields
  <2>6. stage \in {"found", "competitor"} /\ (stage = "competitor" => job[e].calls # 1)
    OBVIOUS
  <2>7. /\ k.found = job[e].found /\ k.read = job[e].read /\ k.menus = job[e].menus
        /\ k.at = "found"
    BY <1>2 DEF Fields
  <2> HIDE DEF j, k, now, stage
  <2>8. JobClean(j)
    <3>1. stage = "competitor" => j.calls = 1
      BY <2>2, <2>5, <2>6
    <3> QED
      BY <1>3, <2>4, <2>5, <2>6, <3>1 DEF JobClean
  <2>9. JobClean(k)
    BY <1>3, <2>7 DEF JobClean
  <2> QED
    BY <2>1, <2>8, <2>9, CleanQuiet
<1>6. CASE Found(e)
  <2> DEFINE j == [job[e] EXCEPT !.at = "menus", !.todo = job[e].found, !.calls = 0]
  <2>1. CASE Giveup(e)
    BY <1>1, <2>1, CleanGiveup
  <2>2. CASE Proceed(e, "menus", job[e].found) /\ UNCHANGED cache
    <3>1. /\ j.at = "menus" /\ j.todo = job[e].found /\ j.found = job[e].found
          /\ j.read = job[e].read /\ j.menus = job[e].menus
      BY <1>2 DEF Fields
    <3>2. job' = [job EXCEPT ![e] = j]
      BY <2>2 DEF Proceed
    <3> HIDE DEF j
    <3>3. JobClean(j)
      BY <1>3, <1>4, <3>1 DEF JobClean
    <3> QED
      BY <2>2, <3>2, <3>3, CleanQuiet
  <2> QED
    BY <1>6, <2>1, <2>2 DEF Found
<1>7. CASE _fetch_menus(e) \/ _fetch_competitor_deals(e)
  <2>1. /\ \E ok \in BOOLEAN : job' = [job EXCEPT ![e] = Called(e, Head(job[e].todo), ok)]
        /\ UNCHANGED cache /\ job[e].todo # <<>> /\ job[e].at \in {"menus", "coupons"}
    BY <1>7 DEF _fetch_menus, _fetch_competitor_deals
  <2> QED
    BY <2>1, CleanCall
<1>8. CASE MenusRead(e)
  <2> DEFINE j == [job[e] EXCEPT !.at = "coupons", !.calls = 0, !.todo = coupon_calls(job[e].found),
                                 !.menus = job[e].read, !.read = {}]
  <2>1. CASE Giveup(e)
    BY <1>1, <2>1, CleanGiveup
  <2>2. CASE job' = [job EXCEPT ![e] = j] /\ UNCHANGED cache
    <3>1. /\ j.at = "coupons" /\ j.todo = coupon_calls(job[e].found) /\ j.found = job[e].found
          /\ j.read = {} /\ j.menus = job[e].read
      BY <1>2 DEF Fields
    <3>2. MaxCoupons \in Nat
      BY EnricherAssumption
    <3>3. coupon_calls(job[e].found) \in Seq(Range(job[e].found))
      BY <1>4, <3>2, FirstFew DEF coupon_calls
    <3> HIDE DEF j
    <3>4. JobClean(j)
      BY <1>3, <3>1, <3>3 DEF JobClean
    <3> QED
      BY <2>2, <3>4, CleanQuiet
  <2> QED
    BY <1>8, <2>1, <2>2 DEF MenusRead
<1>9. CASE CompetitorDone(e)
  <2> DEFINE x == competitor_result(job[e])
  <2>1. Store(e, x)
    BY <1>9 DEF CompetitorDone
  <2>2. /\ x.kind = "competitor" /\ x.from = Range(job[e].found)
        /\ x.menus = job[e].menus /\ x.dealing \subseteq job[e].read
    BY DEF competitor_result
  <2> HIDE DEF x
  <2>3. ResultClean(x)
    BY <1>3, <1>4, <2>2 DEF ResultClean
  <2> QED
    BY <1>1, <2>1, <2>3, CleanStore
<1> QED
  BY <1>5, <1>6, <1>7, <1>8, <1>9

\* The steps of the occupancy enricher.
LEMMA CleanOccupancy ==
  ASSUME IInv, CleanInv, NEW e \in Enrichments,
         _get_competitors(e) \/ _fetch_slot_counts(e) \/ OccupancyDone(e)
  PROVE  CleanInv'
<1>1. job[e].at \in {"occupancy", "slots"}
  BY DEF _get_competitors, _fetch_slot_counts, OccupancyDone
<1>2. DOMAIN job[e] = Fields /\ job[e].ctx \in Contexts
  BY <1>1, Begun
<1>3. CASE _get_competitors(e)
  <2> DEFINE page == Pages[job[e].ctx.cuisine][1]
             near(S) == listed(page, S)
             asked(S) == SubSeq(near(S), 1, Min({MaxSlotCalls, Len(near(S))}))
             j(S) == [job[e] EXCEPT !.at = "slots", !.todo = asked(S), !.found = asked(S)]
  <2>1. Giveup(e) \/ \E S \in SUBSET Unsponsored : job' = [job EXCEPT ![e] = j(S)] /\ UNCHANGED cache
    BY <1>3 DEF _get_competitors
  <2>2. ASSUME NEW S \in SUBSET Unsponsored, job' = [job EXCEPT ![e] = j(S)], UNCHANGED cache
        PROVE  CleanInv'
    <3>1. page \in Seq(Restaurants)
      BY <1>2, EnricherAssumption
    <3>2. Len(page) \in Nat /\ MaxSlotCalls \in Nat
      BY <3>1, EnricherAssumption
    <3>3. near(S) \in Seq(S)
      BY <3>2, ListedKept
    <3>4. near(S) \in Seq(Unsponsored)
      BY <3>3
    <3> HIDE DEF near
    <3>5. asked(S) \in Seq(Unsponsored)
      BY <3>2, <3>4, FirstFew
    <3>6. j(S).at = "slots" /\ j(S).todo = asked(S) /\ j(S).found = asked(S) /\ j(S).read = job[e].read
      BY <1>2 DEF Fields
    <3>7. job[e].at = "occupancy" /\ JobClean(job[e])
      BY <1>3 DEF _get_competitors, CleanInv
    <3> HIDE DEF j, asked
    <3>8. JobClean(j(S))
      BY <3>5, <3>6, <3>7 DEF JobClean
    <3> QED
      BY <2>2, <3>8, CleanQuiet
  <2> QED
    BY <1>1, <2>1, <2>2, CleanGiveup
<1>4. CASE _fetch_slot_counts(e)
  <2>1. /\ \E ok \in BOOLEAN : job' = [job EXCEPT ![e] = Called(e, Head(job[e].todo), ok)]
        /\ UNCHANGED cache /\ job[e].todo # <<>> /\ job[e].at = "slots"
    BY <1>4 DEF _fetch_slot_counts
  <2> QED
    BY <2>1, CleanCall
<1>5. CASE OccupancyDone(e)
  <2>1. /\ job[e].at = "slots"
        /\ \/ Giveup(e)
           \/ \E told \in SUBSET Range(job[e].found) :
                Store(e, occupancy_result(job[e], {r \in told : Area[r].offers}))
    BY <1>5 DEF OccupancyDone
  <2>2. job[e].found \in Seq(Unsponsored) /\ job[e].read \subseteq Unsponsored
    BY <2>1 DEF CleanInv, JobClean
  <2>3. Range(job[e].found) \subseteq Unsponsored
    BY <2>2 DEF Range
  <2>4. ASSUME NEW told \in SUBSET Range(job[e].found),
               Store(e, occupancy_result(job[e], {r \in told : Area[r].offers}))
        PROVE  CleanInv'
    <3> DEFINE x == occupancy_result(job[e], {r \in told : Area[r].offers})
    <3>1. x.kind = "occupancy" /\ x.from = job[e].read /\ x.dealing \subseteq told
      BY DEF occupancy_result
    <3> HIDE DEF x
    <3>2. ResultClean(x)
      BY <2>2, <2>3, <3>1 DEF ResultClean
    <3> QED
      BY <1>1, <2>4, <3>2, CleanStore DEF x
  <2> QED
    BY <1>1, <2>1, <2>4, CleanGiveup
<1> QED
  BY <1>3, <1>4, <1>5

\* The steps of the procurement enricher.
LEMMA CleanProcurement ==
  ASSUME IInv, CleanInv, NEW e \in Enrichments,
         _search_shortage_items(e) \/ Search(e) \/ ProcurementDone(e)
  PROVE  CleanInv'
<1>1. job[e].at \in {"procurement", "searching"}
  BY DEF _search_shortage_items, Search, ProcurementDone
<1>2. DOMAIN job[e] = Fields
  BY <1>1, Begun
<1>3. CASE _search_shortage_items(e)
  <2> DEFINE j(todo) == [job[e] EXCEPT !.at = "searching", !.todo = todo, !.calls = 0]
  <2>1. PICK todo : job' = [job EXCEPT ![e] = j(todo)] /\ UNCHANGED cache
    BY <1>3 DEF _search_shortage_items, Proceed
  <2>2. j(todo).at = "searching"
    BY <1>2 DEF Fields
  <2> HIDE DEF j
  <2>3. JobClean(j(todo))
    BY <2>2 DEF JobClean
  <2> QED
    BY <2>1, <2>3, CleanQuiet
<1>4. CASE Search(e)
  <2>1. /\ \E ok \in BOOLEAN : job' = [job EXCEPT ![e] = Called(e, Head(job[e].todo), ok)]
        /\ UNCHANGED cache /\ job[e].todo # <<>> /\ job[e].at = "searching"
    BY <1>4 DEF Search
  <2> QED
    BY <2>1, CleanCall
<1>5. CASE ProcurementDone(e)
  <2> DEFINE x == [kind |-> "procurement", ctx |-> job[e].ctx, at |-> clock, options |-> job[e].read]
  <2>1. Giveup(e) \/ Store(e, x)
    BY <1>5 DEF ProcurementDone
  <2>2. x.kind = "procurement"
    OBVIOUS
  <2> HIDE DEF x
  <2>3. ResultClean(x)
    BY <2>2 DEF ResultClean
  <2> QED
    BY <1>1, <2>1, <2>3, CleanGiveup, CleanStore
<1> QED
  BY <1>3, <1>4, <1>5

LEMMA NextClean == IInv /\ CleanInv /\ [Next]_vars => CleanInv'
<1> SUFFICES ASSUME IInv, CleanInv, [Next]_vars
             PROVE  CleanInv'
  OBVIOUS
<1>1. CASE UNCHANGED vars
  BY <1>1 DEF vars, CleanInv, JobClean, ResultClean
<1>2. CASE Tick
  BY <1>2 DEF Tick, CleanInv, JobClean, ResultClean
<1>3. ASSUME NEW e \in Enrichments, enrich(e)
      PROVE  CleanInv'
  BY <1>3, CleanStart, CleanCompetitor, CleanOccupancy, CleanProcurement DEF enrich
<1> QED
  BY <1>1, <1>2, <1>3 DEF Next

\* Sponsored restaurants, and closed competitors, have no part in any result, and
\* none counts twice, whatever the pages list and how often, and whichever
\* calls fail.
THEOREM OnlyNeighboursAlways == Spec => []OnlyNeighboursCount
<1>1. Init => IInv /\ CleanInv
  <2>1. NoJob.at = "idle"
    BY DEF NoJob
  <2> QED
    BY <2>1 DEF Init, IInv, JobFits, CleanInv, JobClean
<1>2. CleanInv => OnlyNeighboursCount
  <2> SUFFICES ASSUME CleanInv
               PROVE  OnlyNeighboursCount
    OBVIOUS
  <2>1. \A e \in Enrichments : job[e].at \in {"found", "menus", "coupons"} =>
          /\ IsInjective(job[e].found)
          /\ job[e].menus \cup job[e].read \subseteq Range(job[e].found)
    BY DEF CleanInv, JobClean
  <2>2. \A x \in Results : ResultClean(x)
    BY DEF CleanInv, JobClean, Results
  <2> QED
    BY <2>1, <2>2 DEF OnlyNeighboursCount, Competitor, Occupancy, ResultClean
<1>3. Spec => [](IInv /\ CleanInv)
  BY <1>1, NextInv, NextClean, PTL DEF Spec
<1> QED
  BY <1>2, <1>3, PTL

-----------------------------------------------------------------------------
(* Numbers that are rounded *)

\* A rounded quotient is within a half of the quotient.
LEMMA RoundedNear ==
  ASSUME NEW n \in Nat, NEW d \in Nat \ {0}
  PROVE  /\ Rounded(n, d) \in Nat
         /\ 2 * (d * Rounded(n, d)) <= 2 * n + d
         /\ 2 * n <= 2 * (d * Rounded(n, d)) + d
<1> DEFINE q == n \div d
           r == n % d
<1>1. q \in Nat /\ r \in 0 .. d - 1 /\ n = d * q + r
  OBVIOUS
<1> HIDE DEF q, r
<1>2. Rounded(n, d) = IF 2 * r > d \/ (2 * r = d /\ q % 2 = 1) THEN q + 1 ELSE q
  BY DEF Rounded, q, r
<1>3. CASE Rounded(n, d) = q /\ 2 * r <= d
  BY <1>1, <1>3
<1>4. CASE Rounded(n, d) = q + 1 /\ 2 * r >= d
  <2>1. d * (q + 1) = d * q + d /\ d * q \in Nat
    BY <1>1
  <2> QED
    BY <1>1, <1>4, <2>1
<1> QED
  BY <1>1, <1>2, <1>3, <1>4

\* Rounding a quotient that is not larger does not give more.
LEMMA RoundedParts ==
  ASSUME NEW n \in Nat, NEW d \in Nat \ {0}
  PROVE  \E q \in Nat, r \in 0 .. d - 1 :
           /\ n = d * q + r
           /\ Rounded(n, d) = IF 2 * r > d \/ (2 * r = d /\ q % 2 = 1) THEN q + 1 ELSE q
<1> DEFINE q == n \div d
           r == n % d
<1>1. q \in Nat /\ r \in 0 .. d - 1 /\ n = d * q + r
  OBVIOUS
<1>2. Rounded(n, d) = IF 2 * r > d \/ (2 * r = d /\ q % 2 = 1) THEN q + 1 ELSE q
  BY DEF Rounded
<1> QED
  BY <1>1, <1>2

\* A rounded quotient is the nearest integer, the even one of two.
LEMMA TieIsEven ==
  ASSUME NEW n \in Nat, NEW d \in Nat \ {0}, NEW k \in Nat, 2 * n = d * (2 * k + 1)
  PROVE  Rounded(n, d) % 2 = 0
<1>1. PICK q \in Nat, r \in 0 .. d - 1 :
        /\ n = d * q + r
        /\ Rounded(n, d) = IF 2 * r > d \/ (2 * r = d /\ q % 2 = 1) THEN q + 1 ELSE q
  BY RoundedParts
<1> DEFINE t == 2 * (k - q) + 1
<1>2. 2 * r = d * t
  <2>1. 2 * (d * q) + 2 * r = d * (2 * k + 1)
    BY <1>1
  <2>2. d * (2 * k + 1) = 2 * (d * q) + d * t
    BY <1>1
  <2>3. d * q \in Int /\ d * t \in Int /\ r \in Int
    BY <1>1
  <2> QED
    BY <2>1, <2>2, <2>3
<1>3. t \in Int /\ t # 0 /\ t # 2
  BY <1>1
<1>4. t = 1
  <2> HIDE DEF t
  <2>1. CASE t <= -1
    <3>1. d * t <= 0 - d
      BY <1>3, <2>1
    <3> QED
      BY <1>1, <1>2, <3>1
  <2>2. CASE t >= 3
    <3>1. d * t >= 3 * d
      BY <1>3, <2>2
    <3> QED
      BY <1>1, <1>2, <3>1
  <2> QED
    BY <1>3, <2>1, <2>2
<1>5. 2 * r = d
  BY <1>2, <1>4
<1> HIDE DEF t
<1>6. q % 2 \in {0, 1} /\ (q % 2 = 1 => (q + 1) % 2 = 0)
  BY <1>1
<1> QED
  BY <1>1, <1>5, <1>6

\* A larger quotient is not rounded to less.
LEMMA RoundedGrows ==
  ASSUME NEW m \in Nat, NEW c \in Nat \ {0}, NEW n \in Nat, NEW d \in Nat \ {0}, m * d <= n * c
  PROVE  Rounded(m, c) <= Rounded(n, d)
<1> DEFINE x == Rounded(m, c)
           y == Rounded(n, d)
<1>1. /\ x \in Nat /\ 2 * (c * x) <= 2 * m + c
      /\ y \in Nat /\ 2 * n <= 2 * (d * y) + d
  BY RoundedNear
<1>2. x % 2 = 0 \/ 2 * m # c * (2 * (x - 1) + 1) \/ x = 0
  <2> SUFFICES ASSUME x # 0, 2 * m = c * (2 * (x - 1) + 1)
               PROVE  x % 2 = 0
    OBVIOUS
  <2>1. x - 1 \in Nat
    BY <1>1
  <2> QED
    BY <2>1, TieIsEven
<1>3. y % 2 = 0 \/ 2 * n # d * (2 * y + 1)
  BY <1>1, TieIsEven
<1> HIDE DEF x, y
<1> SUFFICES ASSUME x > y
             PROVE  FALSE
  BY <1>1 DEF x, y
<1>4. c * (2 * x - 1) <= 2 * m /\ 2 * n <= d * (2 * y + 1)
  BY <1>1
<1>5. d * (c * (2 * x - 1)) <= d * (2 * m) /\ c * (2 * n) <= c * (d * (2 * y + 1))
  <2>1. \A i, j \in Int, k \in Nat : i <= j => k * i <= k * j
    OBVIOUS
  <2>2. c * (2 * x - 1) \in Int /\ 2 * m \in Int /\ 2 * n \in Int /\ d * (2 * y + 1) \in Int
    BY <1>1
  <2> QED
    BY <1>4, <2>1, <2>2
<1>6. d * (2 * m) <= c * (2 * n)
  OBVIOUS
<1> DEFINE e == c * d
<1>7. e \in Nat \ {0}
  OBVIOUS
<1>8. d * (c * (2 * x - 1)) = e * (2 * x - 1) /\ c * (d * (2 * y + 1)) = e * (2 * y + 1)
  BY <1>1
<1>9. e * (2 * x - 1) <= e * (2 * y + 1)
  <2>1. e * (2 * x - 1) \in Int /\ d * (2 * m) \in Int /\ c * (2 * n) \in Int /\ e * (2 * y + 1) \in Int
    BY <1>1, <1>7
  <2> HIDE DEF e
  <2> QED
    BY <1>5, <1>6, <1>8, <2>1
<1>10. x = y + 1
  <2> HIDE DEF e
  <2>1. 2 * x - 1 <= 2 * y + 1
    <3>1. \A i, j \in Int : e * i <= e * j => i <= j
      BY <1>7
    <3> QED
      BY <1>1, <1>9, <3>1
  <2> QED
    BY <1>1, <2>1
<1>11. 2 * x - 1 = 2 * y + 1
  BY <1>1, <1>10
<1>12. d * (c * (2 * x - 1)) = d * (2 * m) /\ c * (2 * n) = c * (d * (2 * y + 1))
  <2>1. /\ d * (c * (2 * x - 1)) \in Int /\ d * (2 * m) \in Int
        /\ c * (2 * n) \in Int /\ c * (d * (2 * y + 1)) \in Int
    BY <1>1
  <2>2. d * (c * (2 * x - 1)) = c * (d * (2 * y + 1))
    BY <1>8, <1>11
  <2> QED
    BY <1>5, <1>6, <2>1, <2>2
<1>13. c * (2 * x - 1) = 2 * m /\ 2 * n = d * (2 * y + 1)
  <2>1. \A i, j \in Int, k \in Nat \ {0} : k * i = k * j => i = j
    OBVIOUS
  <2>2. c * (2 * x - 1) \in Int /\ 2 * m \in Int /\ 2 * n \in Int /\ d * (2 * y + 1) \in Int
    BY <1>1
  <2> QED
    BY <1>12, <2>1, <2>2
<1>14. x % 2 = 0 /\ y % 2 = 0
  <2>1. 2 * (x - 1) + 1 = 2 * x - 1 /\ x # 0
    BY <1>1
  <2> QED
    BY <1>2, <1>3, <1>13, <2>1
<1> QED
  BY <1>1, <1>10, <1>14

\* Whatever is rounded becomes a whole number.
LEMMA RoundedWhole ==
  ASSUME NEW n \in Int, NEW d \in Nat \ {0}
  PROVE  Rounded(n, d) \in Int
<1>1. n \div d \in Int
  OBVIOUS
<1> QED
  BY <1>1 DEF Rounded

\* The larger and the smaller of two numbers.
LEMMA OfTwo ==
  ASSUME NEW m \in Int, NEW n \in Int
  PROVE  /\ Max({m, n}) \in {m, n} /\ Max({m, n}) >= m /\ Max({m, n}) >= n
         /\ Min({m, n}) \in {m, n} /\ Min({m, n}) <= m /\ Min({m, n}) <= n
<1>1. \E x \in {m, n} : \A y \in {m, n} : x >= y
  OBVIOUS
<1>2. \E x \in {m, n} : \A y \in {m, n} : x <= y
  OBVIOUS
<1> QED
  BY <1>1, <1>2 DEF Max, Min

\* What is cut off at zero.
LEMMA AtLeastZero == \A n \in Int : Max({n, 0}) \in {n, 0} /\ Max({n, 0}) >= 0
<1> SUFFICES ASSUME NEW n \in Int
             PROVE  Max({n, 0}) \in {n, 0} /\ Max({n, 0}) >= 0
  OBVIOUS
<1>1. 0 \in Int
  OBVIOUS
<1> QED
  BY <1>1, OfTwo

\* A score is a number.
LEMMA ClampNumber ==
  ASSUME NEW n \in Int, NEW d \in Nat \ {0}
  PROVE  _clamp(n, d) \in Nat
<1> DEFINE x == Rounded(n, d)
           y == Min({x, 100})
<1>1. x \in Int
  BY RoundedWhole
<1> HIDE DEF x
<1>2. y \in Int
  <2>1. 100 \in Int
    OBVIOUS
  <2>2. Min({x, 100}) \in {x, 100}
    BY <1>1, <2>1, OfTwo
  <2> QED
    BY <1>1, <2>2
<1> HIDE DEF y
<1>3. Max({0, y}) \in {0, y} /\ Max({0, y}) >= 0
  <2>1. 0 \in Int
    OBVIOUS
  <2> QED
    BY <1>2, <2>1, OfTwo
<1>4. Max({0, y}) \in Nat
  BY <1>2, <1>3
<1> QED
  BY <1>4 DEF _clamp, x, y

\* A score does not fall when what it is made from grows.
LEMMA ClampGrows ==
  ASSUME NEW m \in Nat, NEW n \in Nat, m <= n
  PROVE  _clamp(m, 1) <= _clamp(n, 1)
<1> DEFINE x == Rounded(m, 1)
           y == Rounded(n, 1)
           v == Min({x, 100})
           w == Min({y, 100})
<1>1. x \in Nat /\ y \in Nat /\ x <= y
  <2>1. m * 1 <= n * 1 /\ 1 \in Nat \ {0}
    OBVIOUS
  <2> QED
    BY <2>1, RoundedNear, RoundedGrows
<1> HIDE DEF x, y
<1>2. v \in {x, 100} /\ v <= x /\ v <= 100 /\ w \in {y, 100} /\ w <= y /\ w <= 100
  <2>1. 100 \in Int /\ x \in Int /\ y \in Int
    BY <1>1
  <2> QED
    BY <2>1, OfTwo
<1> HIDE DEF v, w
<1>3. v \in Nat /\ w \in Nat /\ v <= w
  BY <1>1, <1>2
<1>4. \A k \in Nat : Max({0, k}) = k
  <2> SUFFICES ASSUME NEW k \in Nat
               PROVE  Max({0, k}) = k
    OBVIOUS
  <2>1. 0 \in Int /\ k \in Int
    OBVIOUS
  <2>2. Max({0, k}) \in {0, k} /\ Max({0, k}) >= 0 /\ Max({0, k}) >= k
    BY <2>1, OfTwo
  <2> QED
    BY <2>2
<1>5. _clamp(m, 1) = v /\ _clamp(n, 1) = w
  BY <1>3, <1>4 DEF _clamp, v, w, x, y
<1> QED
  BY <1>3, <1>5

\* Factors other than zero change no comparison.
LEMMA Factors ==
  ASSUME NEW x \in Int, NEW y \in Int, NEW a \in Nat \ {0}
  PROVE  /\ x >= y <=> x * a >= y * a
         /\ x = y <=> x * a = y * a
<1> DEFINE d == x - y
<1>1. x * a = y * a + d * a /\ d * a \in Int /\ y * a \in Int /\ d \in Int
  OBVIOUS
<1>2. x >= y <=> d >= 0
  OBVIOUS
<1>3. x = y <=> d = 0
  OBVIOUS
<1> HIDE DEF d
<1>4. d > 0 => d * a > 0
  BY <1>1
<1>5. d < 0 => d * a < 0
  BY <1>1
<1>6. d = 0 => d * a = 0
  BY <1>1
<1> QED
  BY <1>1, <1>2, <1>3, <1>4, <1>5, <1>6

\* The comparison of fractions goes on from one to the next, and says that the
\* first and the last are the same only if all are.
LEMMA FractionsInOrder ==
  ASSUME NEW m1 \in Int, NEW m2 \in Int, NEW m3 \in Int,
         NEW a1 \in Nat \ {0}, NEW a2 \in Nat \ {0}, NEW a3 \in Nat \ {0},
         m1 * a2 >= m2 * a1, m2 * a3 >= m3 * a2
  PROVE  /\ m1 * a3 >= m3 * a1
         /\ m1 * a3 = m3 * a1 => m1 * a2 = m2 * a1 /\ m2 * a3 = m3 * a2
<1> DEFINE p == m1 * a2
           q == m2 * a1
           r == m2 * a3
           s == m3 * a2
           t == m1 * a3
           u == m3 * a1
<1>1. p \in Int /\ q \in Int /\ r \in Int /\ s \in Int /\ t \in Int /\ u \in Int
  OBVIOUS
<1>2. t * a2 = p * a3 /\ q * a3 = r * a1 /\ s * a1 = u * a2
  OBVIOUS
<1>3. p >= q /\ r >= s
  OBVIOUS
<1> HIDE DEF p, q, r, s, t, u
<1>4. p * a3 >= q * a3 /\ (p = q <=> p * a3 = q * a3)
  BY <1>1, <1>3, Factors
<1>5. r * a1 >= s * a1 /\ (r = s <=> r * a1 = s * a1)
  BY <1>1, <1>3, Factors
<1>6. /\ t >= u <=> t * a2 >= u * a2
      /\ t = u <=> t * a2 = u * a2
  BY <1>1, Factors
<1>7. t * a2 \in Int /\ u * a2 \in Int /\ p * a3 \in Int /\ q * a3 \in Int /\ r * a1 \in Int /\ s * a1 \in Int
  BY <1>1
<1>8. t >= u /\ (t = u => p = q /\ r = s)
  <2> DEFINE ta == t * a2
             ua == u * a2
             pa == p * a3
             qa == q * a3
             ra == r * a1
             sa == s * a1
  <2> HIDE DEF ta, ua, pa, qa, ra, sa
  <2>1. ta = pa /\ qa = ra /\ sa = ua /\ pa >= qa /\ ra >= sa /\ ta \in Int /\ ua \in Int
        /\ pa \in Int /\ qa \in Int /\ ra \in Int /\ sa \in Int
    BY <1>2, <1>4, <1>5, <1>7 DEF ta, ua, pa, qa, ra, sa
  <2>2. (t >= u <=> ta >= ua) /\ (t = u <=> ta = ua) /\ (p = q <=> pa = qa) /\ (r = s <=> ra = sa)
    BY <1>4, <1>5, <1>6 DEF ta, ua, pa, qa, ra, sa
  <2> QED
    BY <2>1, <2>2
<1> QED
  BY <1>8 DEF p, q, r, s, t, u

-----------------------------------------------------------------------------
(* Finite sets, what is first among them, and their sums *)

\* A set that maps one to one into a finite set is finite and not larger.
LEMMA OneToOne ==
  ASSUME NEW A, NEW U, IsFiniteSet(U), NEW f \in [A -> U],
         \A a, b \in A : f[a] = f[b] => a = b
  PROVE  IsFiniteSet(A) /\ Cardinality(A) <= Cardinality(U)
<1>1. f \in Injection(A, U)
  BY DEF Injection, IsInjective
<1> QED
  BY <1>1, FS_Injection

\* Of the elements of a finite set in an order, either fewer than five are ahead of
\* one, or that is so of exactly five others.
LEMMA FirstFive ==
  ASSUME NEW off, IsFiniteSet(off), NEW ahead \in [off -> SUBSET off],
         \A j \in off : j \notin ahead[j],
         \A j, k \in off : j # k => j \in ahead[k] \/ k \in ahead[j],
         \A j, k \in off : j \in ahead[k] => ahead[j] \subseteq ahead[k],
         NEW i \in off
  PROVE  \/ Cardinality(ahead[i]) < 5
         \/ Cardinality({j \in off : Cardinality(ahead[j]) < 5}) = 5
<1> DEFINE rank == [j \in off |-> Cardinality(ahead[j])]
           top == {j \in off : Cardinality(ahead[j]) < 5}
           n == Cardinality(off)
<1>1. n \in Nat
  BY FS_CardinalityType
<1>2. \A j \in off : IsFiniteSet(ahead[j]) /\ Cardinality(ahead[j]) \in Nat
  <2> SUFFICES ASSUME NEW j \in off
               PROVE  IsFiniteSet(ahead[j]) /\ Cardinality(ahead[j]) \in Nat
    OBVIOUS
  <2>1. IsFiniteSet(ahead[j])
    BY FS_Subset
  <2> QED
    BY <2>1, FS_CardinalityType
<1>3. \A j, k \in off : j \in ahead[k] => Cardinality(ahead[j]) < Cardinality(ahead[k])
  <2> SUFFICES ASSUME NEW j \in off, NEW k \in off, j \in ahead[k]
               PROVE  Cardinality(ahead[j]) < Cardinality(ahead[k])
    OBVIOUS
  <2>1. ahead[j] \subseteq ahead[k] /\ j \in ahead[k] /\ j \notin ahead[j]
    OBVIOUS
  <2>2. Cardinality(ahead[j]) <= Cardinality(ahead[k]) /\ Cardinality(ahead[j]) # Cardinality(ahead[k])
    BY <1>2, <2>1, FS_Subset
  <2> QED
    BY <1>2, <2>2
<1>4. \A j \in off : Cardinality(ahead[j]) \in 0 .. n - 1
  <2> SUFFICES ASSUME NEW j \in off
               PROVE  Cardinality(ahead[j]) \in 0 .. n - 1
    OBVIOUS
  <2>1. ahead[j] \subseteq off /\ j \notin ahead[j]
    OBVIOUS
  <2>2. Cardinality(ahead[j]) <= n /\ Cardinality(ahead[j]) # n
    BY <2>1, FS_Subset
  <2> QED
    BY <1>1, <1>2, <2>2
<1>5. \A j \in off : rank[j] = Cardinality(ahead[j])
  OBVIOUS
<1>6. \A j, k \in off : rank[j] = rank[k] => j = k
  <2>1. \A j, k \in off : j # k => Cardinality(ahead[j]) # Cardinality(ahead[k])
    <3> SUFFICES ASSUME NEW j \in off, NEW k \in off, j # k
                 PROVE  Cardinality(ahead[j]) # Cardinality(ahead[k])
      OBVIOUS
    <3>1. Cardinality(ahead[j]) < Cardinality(ahead[k]) \/ Cardinality(ahead[k]) < Cardinality(ahead[j])
      BY <1>3
    <3> QED
      BY <1>2, <3>1
  <2> QED
    BY <1>5, <2>1
<1>7. rank \in Injection(off, 0 .. n - 1)
  <2>1. rank \in [off -> 0 .. n - 1]
    BY <1>4
  <2> HIDE DEF n, rank
  <2> QED
    BY <1>6, <2>1 DEF Injection, IsInjective
<1> HIDE DEF rank
<1>8. IsFiniteSet(0 .. n - 1) /\ Cardinality(0 .. n - 1) = n
  <2>1. 0 \in Int /\ n - 1 \in Int
    BY <1>1
  <2>2. IsFiniteSet(0 .. n - 1) /\ Cardinality(0 .. n - 1) = IF 0 > n - 1 THEN 0 ELSE n - 1 - 0 + 1
    BY <2>1, FS_Interval
  <2> QED
    BY <1>1, <2>2
<1>9. rank \in Surjection(off, 0 .. n - 1)
  <2> HIDE DEF n
  <2> QED
    BY <1>7, <1>8, FS_Injection DEF n
<1>10. ASSUME i \notin top
       PROVE  Cardinality(top) = 5
  <2>1. n >= 6
    <3>1. Cardinality(ahead[i]) >= 5
      BY <1>2, <1>5, <1>10
    <3> HIDE DEF n
    <3> QED
      BY <1>1, <1>4, <3>1
  <2>2. \A r \in 0 .. 4 : \E j \in off : rank[j] = r
    BY <1>1, <1>9, <2>1 DEF Surjection
  <2> DEFINE f == [j \in top |-> rank[j]]
  <2>3. f \in [top -> 0 .. 4]
    <3>1. \A j \in top : rank[j] \in 0 .. 4
      BY <1>2, <1>5
    <3> HIDE DEF top
    <3> QED
      BY <3>1
  <2>4. f \in Injection(top, 0 .. 4)
    <3>1. \A j, k \in top : f[j] = f[k] => j = k
      BY <1>6
    <3> HIDE DEF f, top
    <3> QED
      BY <2>3, <3>1 DEF Injection, IsInjective
  <2>5. f \in Surjection(top, 0 .. 4)
    <3>1. \A r \in 0 .. 4 : \E j \in top : f[j] = r
      <4> SUFFICES ASSUME NEW r \in 0 .. 4
                   PROVE  \E j \in top : f[j] = r
        OBVIOUS
      <4>1. PICK j \in off : rank[j] = r
        BY <2>2
      <4>2. j \in top
        BY <1>5, <4>1
      <4> QED
        BY <4>1, <4>2
    <3> HIDE DEF f, top
    <3> QED
      BY <2>3, <3>1 DEF Surjection
  <2> HIDE DEF f, top
  <2>6. IsFiniteSet(0 .. 4) /\ Cardinality(0 .. 4) = 5
    <3>1. 0 \in Int /\ 4 \in Int
      OBVIOUS
    <3>2. IsFiniteSet(0 .. 4) /\ Cardinality(0 .. 4) = IF 0 > 4 THEN 0 ELSE 4 - 0 + 1
      BY <3>1, FS_Interval
    <3> QED
      BY <3>2
  <2>7. Cardinality(top) = Cardinality(0 .. 4)
    BY <2>4, <2>5, <2>6, FS_Injection
  <2> QED
    BY <2>6, <2>7
<1> QED
  BY <1>10

picked(s) == CHOOSE x \in s : TRUE
Parts(B, n) == {s \in SUBSET B : Cardinality(s) <= n}
IsSum(f, h, X) == f = [s \in X |-> IF s = {} THEN 0 ELSE h[picked(s)] + f[s \ {picked(s)}]]

\* Without the element a sum takes first, a finite set is one smaller.
LEMMA Picked ==
  ASSUME NEW B, IsFiniteSet(B), NEW s \in SUBSET B
  PROVE  /\ IsFiniteSet(s) /\ Cardinality(s) \in Nat
         /\ s # {} => /\ picked(s) \in s
                      /\ s \ {picked(s)} \in SUBSET B
                      /\ Cardinality(s \ {picked(s)}) = Cardinality(s) - 1
<1>1. IsFiniteSet(s)
  BY FS_Subset
<1>2. Cardinality(s) \in Nat
  BY <1>1, FS_CardinalityType
<1>3. s # {} => picked(s) \in s
  BY DEF picked
<1>4. s # {} => Cardinality(s \ {picked(s)}) = Cardinality(s) - 1
  BY <1>1, <1>3, FS_RemoveElement
<1> QED
  BY <1>1, <1>2, <1>3, <1>4

\* Induction on the size of the subsets of a finite set, for a set of them, by
\* the element a sum takes first.
LEMMA PickInduction ==
  ASSUME NEW B, IsFiniteSet(B), NEW S, {} \in S,
         \A s \in SUBSET B : s # {} /\ s \ {picked(s)} \in S => s \in S
  PROVE  SUBSET B \subseteq S
<1> DEFINE Good == {m \in Nat : \A s \in SUBSET B : Cardinality(s) = m => s \in S}
<1>1. 0 \in Good
  <2>1. ASSUME NEW s \in SUBSET B, Cardinality(s) = 0
        PROVE  s \in S
    <3>1. IsFiniteSet(s)
      BY FS_Subset
    <3>2. s = {}
      BY <2>1, <3>1, FS_EmptySet
    <3> QED
      BY <3>2
  <2> QED
    BY <2>1
<1>2. ASSUME NEW m \in Nat, m \in Good
      PROVE  m + 1 \in Good
  <2>0. \A s \in SUBSET B : Cardinality(s) = m => s \in S
    BY <1>2
  <2>1. ASSUME NEW s \in SUBSET B, Cardinality(s) = m + 1
        PROVE  s \in S
    <3>1. s # {}
      BY <2>1, FS_EmptySet
    <3>2. s \ {picked(s)} \in SUBSET B /\ Cardinality(s \ {picked(s)}) = Cardinality(s) - 1
      BY <3>1, Picked
    <3>3. Cardinality(s \ {picked(s)}) = m
      BY <2>1, <3>2
    <3> HIDE DEF Good
    <3> QED
      BY <2>0, <3>1, <3>2, <3>3
  <2> HIDE DEF Good
  <2>2. m + 1 \in Nat
    OBVIOUS
  <2> QED
    BY <2>1, <2>2 DEF Good
<1> HIDE DEF Good
<1>3. Nat \subseteq Good
  BY <1>1, <1>2, SetInduction
<1>4. ASSUME NEW s \in SUBSET B
      PROVE  s \in S
  <2>1. Cardinality(s) \in Nat
    BY Picked
  <2> QED
    BY <1>3, <2>1 DEF Good
<1> QED
  BY <1>4

\* Induction on the size of the subsets of a finite set, for a set of them, adding
\* any element.
LEMMA SubsetInduction ==
  ASSUME NEW B, IsFiniteSet(B), NEW S, {} \in S,
         \A s \in SUBSET B, x \in B : s \in S /\ x \notin s => s \cup {x} \in S
  PROVE  SUBSET B \subseteq S
<1>1. ASSUME NEW s \in SUBSET B, s # {}, s \ {picked(s)} \in S
      PROVE  s \in S
  <2>1. picked(s) \in s
    BY <1>1 DEF picked
  <2>2. (s \ {picked(s)}) \cup {picked(s)} = s /\ s \ {picked(s)} \in SUBSET B
        /\ picked(s) \notin s \ {picked(s)} /\ picked(s) \in B
    BY <2>1
  <2> QED
    BY <1>1, <2>2
<1> QED
  BY <1>1, PickInduction

\* A finite set of numbers has a largest and a smallest one.
LEMMA Extremes ==
  ASSUME NEW B, IsFiniteSet(B), B \subseteq Int, B # {}
  PROVE  /\ Max(B) \in B /\ \A y \in B : Max(B) >= y
         /\ Min(B) \in B /\ \A y \in B : Min(B) <= y
<1> DEFINE top(s) == \E x \in s : \A y \in s : x >= y
           low(s) == \E x \in s : \A y \in s : x <= y
           S == {s \in SUBSET B : s # {} => top(s) /\ low(s)}
<1>1. {} \in S
  OBVIOUS
<1>2. ASSUME NEW s \in SUBSET B, NEW x \in B, s \in S, x \notin s
      PROVE  s \cup {x} \in S
  <2>1. s \cup {x} \in SUBSET B
    OBVIOUS
  <2>2. top(s \cup {x}) /\ low(s \cup {x})
    <3>1. CASE s = {}
      <4>1. s \cup {x} = {x} /\ x \in Int
        BY <3>1
      <4> QED
        BY <4>1
    <3>2. CASE s # {}
      <4>1. PICK u \in s : \A y \in s : u >= y
        BY <1>2, <3>2
      <4>2. PICK v \in s : \A y \in s : v <= y
        BY <1>2, <3>2
      <4>3. x \in Int /\ u \in Int /\ v \in Int /\ s \subseteq Int
        OBVIOUS
      <4>4. top(s \cup {x})
        <5>1. CASE x >= u
          <6>1. \A y \in s \cup {x} : x >= y
            BY <4>1, <4>3, <5>1
          <6> QED
            BY <6>1
        <5>2. CASE u >= x
          <6>1. \A y \in s \cup {x} : u >= y
            BY <4>1, <4>3, <5>2
          <6> QED
            BY <6>1
        <5> QED
          BY <4>3, <5>1, <5>2
      <4>5. low(s \cup {x})
        <5>1. CASE x <= v
          <6>1. \A y \in s \cup {x} : x <= y
            BY <4>2, <4>3, <5>1
          <6> QED
            BY <6>1
        <5>2. CASE v <= x
          <6>1. \A y \in s \cup {x} : v <= y
            BY <4>2, <4>3, <5>2
          <6> QED
            BY <6>1
        <5> QED
          BY <4>3, <5>1, <5>2
      <4> HIDE DEF top, low
      <4> QED
        BY <4>4, <4>5
    <3> QED
      BY <3>1, <3>2
  <2> HIDE DEF top, low
  <2> QED
    BY <2>1, <2>2
<1> HIDE DEF S
<1>3. SUBSET B \subseteq S
  BY <1>1, <1>2, SubsetInduction
<1>4. B \in S
  BY <1>3
<1>5. (\E x \in B : \A y \in B : x >= y) /\ (\E x \in B : \A y \in B : x <= y)
  BY <1>4 DEF S
<1> QED
  BY <1>5 DEF Max, Min

\* What a sum is made from, one number at a time, exists.
LEMMA SumExists ==
  ASSUME NEW B, IsFiniteSet(B), NEW h, NEW n \in Nat
  PROVE  \E f : IsSum(f, h, Parts(B, n))
<1> DEFINE Good == {m \in Nat : \E f : IsSum(f, h, Parts(B, m))}
<1>1. 0 \in Good
  <2>1. ASSUME NEW s \in Parts(B, 0)
        PROVE  s = {}
    <3>1. s \in SUBSET B /\ Cardinality(s) <= 0
      BY DEF Parts
    <3>2. IsFiniteSet(s) /\ Cardinality(s) \in Nat
      BY <3>1, Picked
    <3>3. Cardinality(s) = 0
      BY <3>1, <3>2
    <3> QED
      BY <3>2, <3>3, FS_EmptySet
  <2>2. IsSum([s \in Parts(B, 0) |-> 0], h, Parts(B, 0))
    BY <2>1 DEF IsSum
  <2> QED
    BY <2>2
<1>2. ASSUME NEW m \in Nat, m \in Good
      PROVE  m + 1 \in Good
  <2>1. PICK f : IsSum(f, h, Parts(B, m))
    BY <1>2
  <2> DEFINE all(s) == IF s = {} THEN 0 ELSE h[picked(s)] + f[s \ {picked(s)}]
             g == [s \in Parts(B, m + 1) |-> all(s)]
  <2>2. \A s \in Parts(B, m) : f[s] = all(s) /\ s \in Parts(B, m + 1)
    <3>1. \A s \in Parts(B, m) : f[s] = all(s)
      BY <2>1 DEF IsSum
    <3>2. ASSUME NEW s \in Parts(B, m)
          PROVE  s \in Parts(B, m + 1)
      <4>1. s \in SUBSET B /\ Cardinality(s) \in Nat /\ Cardinality(s) <= m
        BY Picked DEF Parts
      <4> QED
        BY <4>1 DEF Parts
    <3> QED
      BY <3>1, <3>2
  <2>3. ASSUME NEW s \in Parts(B, m + 1), s # {}
        PROVE  s \ {picked(s)} \in Parts(B, m)
    <3>1. s \in SUBSET B /\ Cardinality(s) <= m + 1 /\ Cardinality(s) \in Nat
      BY Picked DEF Parts
    <3>2. s \ {picked(s)} \in SUBSET B /\ Cardinality(s \ {picked(s)}) = Cardinality(s) - 1
      BY <2>3, <3>1, Picked
    <3> QED
      BY <3>1, <3>2 DEF Parts
  <2>4. ASSUME NEW s \in Parts(B, m + 1)
        PROVE  g[s] = IF s = {} THEN 0 ELSE h[picked(s)] + g[s \ {picked(s)}]
    <3>1. g[s] = all(s)
      OBVIOUS
    <3>2. s # {} => g[s \ {picked(s)}] = f[s \ {picked(s)}]
      <4>1. s # {} => s \ {picked(s)} \in Parts(B, m)
        BY <2>3
      <4>2. \A t \in Parts(B, m) : g[t] = f[t]
        BY <2>2
      <4> HIDE DEF g
      <4> QED
        BY <4>1, <4>2
    <3> HIDE DEF g
    <3> QED
      BY <3>1, <3>2
  <2>5. g = [s \in Parts(B, m + 1) |-> g[s]]
    OBVIOUS
  <2> HIDE DEF g
  <2>6. IsSum(g, h, Parts(B, m + 1))
    BY <2>4, <2>5 DEF IsSum
  <2> QED
    BY <2>6
<1> HIDE DEF Good
<1>3. Nat \subseteq Good
  BY <1>1, <1>2, SetInduction
<1> QED
  BY <1>3 DEF Good

\* The sums of a finite set.
LEMMA AllSums ==
  ASSUME NEW B, IsFiniteSet(B), NEW h
  PROVE  \E f : IsSum(f, h, SUBSET B)
<1>1. Cardinality(B) \in Nat
  BY FS_CardinalityType
<1>2. Parts(B, Cardinality(B)) = SUBSET B
  <2>1. \A s \in SUBSET B : Cardinality(s) <= Cardinality(B)
    BY FS_Subset
  <2> QED
    BY <2>1 DEF Parts
<1>3. \E g : IsSum(g, h, Parts(B, Cardinality(B)))
  BY <1>1, SumExists
<1> QED
  BY <1>2, <1>3

\* A sum of numbers is one, and not less than how many they are if none is zero.
LEMMA SumNumber ==
  ASSUME NEW B, IsFiniteSet(B), NEW h, \A x \in B : h[x] \in Nat, NEW f, IsSum(f, h, SUBSET B)
  PROVE  /\ f[B] \in Nat
         /\ (\A x \in B : h[x] > 0) => f[B] >= Cardinality(B)
<1> DEFINE S == {s \in SUBSET B : f[s] \in Nat /\ ((\A x \in B : h[x] > 0) => f[s] >= Cardinality(s))}
<1>0. \A s \in SUBSET B : f[s] = IF s = {} THEN 0 ELSE h[picked(s)] + f[s \ {picked(s)}]
  BY DEF IsSum
<1>1. {} \in S
  <2>1. f[{}] = 0
    BY <1>0
  <2> QED
    BY <2>1, FS_EmptySet
<1>2. ASSUME NEW s \in SUBSET B, s # {}, s \ {picked(s)} \in S
      PROVE  s \in S
  <2> DEFINE r == s \ {picked(s)}
             x == picked(s)
  <2>1. /\ Cardinality(s) \in Nat /\ Cardinality(r) = Cardinality(s) - 1
        /\ x \in B
    BY <1>2, Picked
  <2>2. f[r] \in Nat /\ ((\A y \in B : h[y] > 0) => f[r] >= Cardinality(r))
    BY <1>2
  <2>3. f[s] = h[x] + f[r] /\ h[x] \in Nat
    BY <1>0, <1>2, <2>1
  <2> HIDE DEF r, x
  <2>4. f[s] \in Nat /\ ((\A y \in B : h[y] > 0) => f[s] >= Cardinality(s))
    BY <2>1, <2>2, <2>3
  <2> QED
    BY <2>4
<1> HIDE DEF S
<1>3. SUBSET B \subseteq S
  BY <1>1, <1>2, PickInduction
<1>4. B \in S
  BY <1>3
<1> QED
  BY <1>4 DEF S

-----------------------------------------------------------------------------
(* The house: seats, bookings and the window *)

IsGuests(f, X) == f = [s \in X |-> IF s = {} THEN 0 ELSE picked(s).guests + f[s \ {picked(s)}]]

\* How the sum of guests is made.
LEMMA GuestsCounted == \A B : guests(B) = (CHOOSE f : IsGuests(f, SUBSET B))[B]
BY DEF guests, MapThenSumSet, MapThenFoldSet, IsGuests, picked

\* A sum of guests is a number.
LEMMA GuestsNumber ==
  ASSUME NEW B, IsFiniteSet(B), \A b \in B : b.guests \in Nat
  PROVE  guests(B) \in Nat
<1> DEFINE h == [b \in B |-> b.guests]
           f == CHOOSE g : IsGuests(g, SUBSET B)
<1>1. ASSUME NEW g
      PROVE  IsGuests(g, SUBSET B) <=> IsSum(g, h, SUBSET B)
  <2>1. \A s \in SUBSET B : s # {} => h[picked(s)] = picked(s).guests
    BY DEF picked
  <2> HIDE DEF h
  <2> QED
    BY <2>1 DEF IsGuests, IsSum
<1>2. \A b \in B : h[b] \in Nat
  OBVIOUS
<1> HIDE DEF h
<1>3. IsGuests(f, SUBSET B)
  <2>1. \E g : IsGuests(g, SUBSET B)
    BY <1>1, AllSums
  <2> QED
    BY <2>1
<1> HIDE DEF f
<1>4. f[B] \in Nat
  BY <1>1, <1>2, <1>3, SumNumber
<1> QED
  BY <1>4, GuestsCounted DEF f

\* A house is shown as booked beyond nine tenths from 90.05 per cent on.
LEMMA BookedBeyond ==
  ASSUME NEW s \in Nat, NEW c \in Nat \ {0}
  PROVE  /\ Rounded(1000 * s, c) \in Nat
         /\ Rounded(1000 * s, c) > 900 => 2000 * s >= 1801 * c
         /\ Rounded(1000 * s, c) <= 900 => 2000 * s <= 1801 * c
<1> DEFINE p == Rounded(1000 * s, c)
<1>1. p \in Nat /\ 2 * (c * p) <= 2000 * s + c /\ 2000 * s <= 2 * (c * p) + c
  <2>1. 1000 * s \in Nat
    OBVIOUS
  <2> QED
    BY <2>1, RoundedNear
<1> HIDE DEF p
<1>2. p > 900 => c * p >= 901 * c
  BY <1>1
<1>3. p <= 900 => c * p <= 900 * c
  BY <1>1
<1>4. c * p \in Nat
  BY <1>1
<1> QED
  BY <1>1, <1>2, <1>3, <1>4 DEF p

\* The flag of overbooking counts guests, the percentage tenths of a per cent.
LEMMA FlagsDiffer ==
  ASSUME NEW s \in Nat, NEW c \in Nat \ {0},
         (s > Rounded(9 * c, 10)) # (Rounded(1000 * s, c) > 900)
  PROVE  LET off == Magnitude(10 * s - 9 * c) IN off <= 5 \/ 200 * off <= c
<1> DEFINE p == Rounded(1000 * s, c)
           limit == Rounded(9 * c, 10)
<1>1. limit \in Nat /\ 20 * limit <= 18 * c + 10 /\ 18 * c <= 20 * limit + 10
  <2>1. 9 * c \in Nat /\ 10 \in Nat \ {0}
    OBVIOUS
  <2>2. limit \in Nat /\ 2 * (10 * limit) <= 2 * (9 * c) + 10 /\ 2 * (9 * c) <= 2 * (10 * limit) + 10
    BY <2>1, RoundedNear
  <2> HIDE DEF limit
  <2> QED
    BY <2>2
<1>2. p \in Nat /\ (p > 900 => 2000 * s >= 1801 * c) /\ (p <= 900 => 2000 * s <= 1801 * c)
  <2>1. 1000 * s \in Nat
    OBVIOUS
  <2> QED
    BY <2>1, BookedBeyond, RoundedNear
<1>3. (s > limit) # (p > 900)
  OBVIOUS
<1> HIDE DEF p, limit
<1>4. CASE s > limit /\ p <= 900
  BY <1>1, <1>2, <1>4 DEF Magnitude
<1>5. CASE s <= limit /\ p > 900
  BY <1>1, <1>2, <1>5 DEF Magnitude
<1> QED
  BY <1>1, <1>2, <1>3, <1>4, <1>5

\* The bookings of a window that does not cross midnight are all counted.
LEMMA AllAreCounted ==
  ASSUME NEW B, NEW w \in Nat \X Nat, w[1] <= w[2]
  PROVE  {b \in B : IF w[1] <= w[2] THEN b.hour \in w[1] .. w[2] ELSE b.hour >= w[1] \/ b.hour <= w[2]}
           = booked(B, w)
BY DEF booked

\* Every window a profile gets is two numbers.
LEMMA WindowsAreNumbers ==
  /\ \A scenario \in DOMAIN SCENARIO_DEFINITIONS : SCENARIO_DEFINITIONS[scenario] \in Nat \X Nat
  /\ \A date, n : recommend_fallback(date, n) \in DOMAIN SCENARIO_DEFINITIONS
  /\ \A hour : compose_fallback(hour) \in Nat \X Nat
BY DEF SCENARIO_DEFINITIONS, recommend_fallback, compose_fallback

\* A plan begins with no house and no figures.
LEMMA InitHouse == NumbersInit => HouseInv
BY DEF NumbersInit, HouseInv

\* Every profile is of a house, and its window is two numbers.
LEMMA ProfiledHouse ==
  ASSUME NEW id, NEW window \in Nat \X Nat, NEW mention, NEW date, Profiled(id, window, mention, date)
  PROVE  HouseInv'
<1>1. profile'.house \in Houses /\ profile'.window = window /\ phase' = "forecast"
  BY DEF Profiled
<1> QED
  BY <1>1 DEF HouseInv

\* The figures of the reservation node depend on the profile only.
LEMMA SameReservation ==
  ASSUME profile' = profile
  PROVE  \A m : reservation(m)' = reservation(m)
BY DEF reservation

\* Every step keeps the figures those of one house.
LEMMA NextHouse == HouseInv /\ [NumbersNext]_numbers => HouseInv'
<1> SUFFICES ASSUME HouseInv, [NumbersNext]_numbers
             PROVE  HouseInv'
  OBVIOUS
<1>1. CASE MarketIntel \/ MarketDown \/ MarketAssumptions
  <2>1. phase' \in {"assume", "profile"}
    BY <1>1 DEF MarketIntel, MarketDown, MarketAssumptions
  <2> QED
    BY <2>1 DEF HouseInv
<1>2. ASSUME NEW date, NEW scenario \in DOMAIN SCENARIO_DEFINITIONS, Preset(scenario, date)
      PROVE  HouseInv'
  BY <1>2, WindowsAreNumbers, ProfiledHouse DEF Preset
<1>3. ASSUME NEW date, Recommended(date)
      PROVE  HouseInv'
  <2>1. PICK shelf \in Shelves :
          LET scenario == recommend_fallback(date, shortage_count(shelf))
          IN  Profiled(scenario, SCENARIO_DEFINITIONS[scenario], 0, date)
    BY <1>3 DEF Recommended
  <2> DEFINE scenario == recommend_fallback(date, shortage_count(shelf))
  <2>2. SCENARIO_DEFINITIONS[scenario] \in Nat \X Nat
    BY WindowsAreNumbers
  <2>3. Profiled(scenario, SCENARIO_DEFINITIONS[scenario], 0, date)
    BY <2>1
  <2> QED
    BY <2>2, <2>3, ProfiledHouse
<1>4. ASSUME NEW date, derive_profile(date)
      PROVE  HouseInv'
  <2>1. PICK window \in Windows \cup {<<18, 22>>}, t \in Texts : Profiled("custom", window, t.mention, date)
    BY <1>4 DEF derive_profile
  <2>2. window \in Nat \X Nat
    BY <2>1, NumbersAssumption
  <2> QED
    BY <2>1, <2>2, ProfiledHouse
<1>5. ASSUME NEW date, compose(date)
      PROVE  HouseInv'
  <2>1. PICK window \in Windows \cup {compose_fallback(hour) : hour \in 0 .. 23} :
          Profiled("live-composed", window, 0, date)
    BY <1>5 DEF compose
  <2>2. window \in Nat \X Nat
    BY <2>1, NumbersAssumption, WindowsAreNumbers
  <2> QED
    BY <2>1, <2>2, ProfiledHouse
<1>6. CASE demand_forecast_node
  <2>1. phase = "forecast" /\ phase' = "agents" /\ profile' = profile
    BY <1>6 DEF demand_forecast_node
  <2> QED
    BY <2>1 DEF HouseInv
<1>7. CASE Agents
  <2>1. /\ phase = "agents" /\ phase' = "menu" /\ profile' = profile
        /\ {"text", "reservation"} \subseteq DOMAIN plan'
        /\ plan'.reservation \in reservation(plan'.text.mention)
    BY <1>7 DEF Agents
  <2> QED
    BY <2>1, SameReservation DEF HouseInv
<1>8. CASE menu_intelligence_node
  <2>1. phase = "menu" /\ phase' = "critic" /\ profile' = profile
    BY <1>8 DEF menu_intelligence_node
  <2>2. PICK m \in {menu, Silent} :
          plan' = [f \in DOMAIN plan \cup {"menu"} |-> IF f = "menu" THEN m ELSE plan[f]]
    BY <1>8 DEF menu_intelligence_node
  <2>3. /\ {"text", "reservation"} \subseteq DOMAIN plan
        /\ plan.reservation \in reservation(plan.text.mention)
    BY <2>1 DEF HouseInv
  <2>4. /\ {"text", "reservation"} \subseteq DOMAIN plan'
        /\ plan'.reservation = plan.reservation /\ plan'.text = plan.text /\ plan'.menu \in {menu, Silent}
    BY <2>2, <2>3
  <2>5. menu' = menu
    BY <2>4 DEF menu
  <2> QED
    BY <2>1, <2>3, <2>4, <2>5, SameReservation DEF HouseInv, Silent
<1>9. CASE critic_node
  <2>1. /\ phase = "critic" /\ phase' = "done" /\ profile' = profile /\ plan' = plan /\ market' = market
        /\ report' = check_bundle
    BY <1>9 DEF critic_node
  <2>2. menu' = menu
    BY <2>1 DEF menu
  <2>3. /\ check_bundle'.policy = check_bundle.policy
        /\ check_bundle'.stale_assumptions = check_bundle.stale_assumptions
    BY <2>1 DEF check_bundle, guests_mentioned
  <2> QED
    BY <2>1, <2>2, <2>3, SameReservation DEF HouseInv
<1>10. CASE UNCHANGED numbers
  <2>1. phase' = phase /\ profile' = profile /\ plan' = plan /\ market' = market /\ report' = report
    BY <1>10 DEF numbers
  <2>2. menu' = menu
    BY <2>1 DEF menu
  <2>3. /\ check_bundle'.policy = check_bundle.policy
        /\ check_bundle'.stale_assumptions = check_bundle.stale_assumptions
    BY <2>1 DEF check_bundle, guests_mentioned
  <2> QED
    BY <2>1, <2>2, <2>3, SameReservation DEF HouseInv
<1> QED
  BY <1>1, <1>2, <1>3, <1>4, <1>5, <1>6, <1>7, <1>8, <1>9, <1>10 DEF NumbersNext

\* Figures of one house agree.
LEMMA FiguresAgree == HouseInv => FullHouseAgrees
<1> SUFFICES ASSUME HouseInv, phase = "done"
             PROVE  FullHouseAgrees
  BY DEF FullHouseAgrees
<1> DEFINE w == profile.window
           c == profile.house.capacity
           B == profile.house.bookings
           within == {b \in B : IF w[1] <= w[2] THEN b.hour \in w[1] .. w[2] ELSE b.hour >= w[1] \/ b.hour <= w[2]}
           seats == guests(within)
           m == plan.text.mention
           data == get_service_reservations(B, w, c)
           answer == [known |-> TRUE, occupancy_pct |-> data.occupancy_pct, waitlist |-> data.waitlist,
                      overbooking_risk |-> data.overbooking_risk,
                      mention |-> _sanitize_guest_language(m, c, data.total)]
           r == plan.reservation
           others == plan.text.elsewhere
<1>1. /\ w \in Nat \X Nat /\ c \in Nat \ {0} /\ IsFiniteSet(B)
      /\ \A b \in B : b.guests \in Nat
  <2>1. profile.house \in Houses /\ w \in Nat \X Nat
    BY DEF HouseInv
  <2> QED
    BY <2>1, NumbersAssumption
<1>2. seats \in Nat
  <2>1. IsFiniteSet(within) /\ \A b \in within : b.guests \in Nat
    BY <1>1, FS_Subset
  <2> HIDE DEF within
  <2> QED
    BY <2>1, GuestsNumber
<1>3. r = Unknown \/ r = answer
  <2>1. r \in IF w[1] > 23 \/ w[2] > 23 THEN {Unknown} ELSE {Unknown, answer}
    BY DEF HouseInv, reservation
  <2> QED
    BY <2>1
<1>4. /\ plan.menu.covers_within_capacity => ~(r.known /\ capacity_constrained(r.occupancy_pct))
      /\ 2 \in report.stale_assumptions =>
           r.known /\ plan.menu.covers_within_capacity /\ r.occupancy_pct > 900
      /\ "capacity_limit" \in report.policy =>
           profile.mention > c \/ r.mention > c \/ (\E n \in others : n > c)
  <2>1. plan.menu.covers_within_capacity => ~(r.known /\ capacity_constrained(r.occupancy_pct))
    <3>1. \/ plan.menu = [covers_within_capacity |-> ~(r.known /\ capacity_constrained(r.occupancy_pct)),
                          items_available |-> TRUE]
          \/ plan.menu = Silent
      BY DEF HouseInv, menu
    <3> HIDE DEF r
    <3>2. \/ plan.menu.covers_within_capacity = ~(r.known /\ capacity_constrained(r.occupancy_pct))
          \/ plan.menu.covers_within_capacity = FALSE
      BY <3>1 DEF Silent
    <3> QED
      BY <3>2
  <2>2. 2 \in report.stale_assumptions =>
           r.known /\ plan.menu.covers_within_capacity /\ r.occupancy_pct > 900
    <3>1. report.stale_assumptions = _diff_assumptions(plan.menu, r, plan.complaint, market, plan.dineout)
      BY DEF HouseInv, check_bundle
    <3> QED
      BY <3>1 DEF _diff_assumptions
  <2>3. "capacity_limit" \in report.policy =>
          profile.mention > c \/ r.mention > c \/ (\E n \in others : n > c)
    <3>1. report.policy
            = _check_capacity_and_staffing({profile.mention, r.mention} \cup others, c, plan.text.staff)
      BY DEF HouseInv, check_bundle, guests_mentioned
    <3> QED
      BY <3>1 DEF _check_capacity_and_staffing
  <2> QED
    BY <2>1, <2>2, <2>3
<1>5. w[1] <= w[2] => /\ data.occupancy_pct = Rounded(1000 * seats, c)
                      /\ data.overbooking_risk = (seats > Rounded(9 * c, 10))
                      /\ data.total = seats
  <2>1. w[1] <= w[2] => within = booked(B, w)
    BY <1>1, AllAreCounted
  <2> HIDE DEF within
  <2> QED
    BY <2>1 DEF get_service_reservations
<1>6. r.known => /\ r.occupancy_pct = data.occupancy_pct /\ r.overbooking_risk = data.overbooking_risk
                 /\ r.mention = _sanitize_guest_language(m, c, data.total)
  <2> HIDE DEF r, w, data
  <2> QED
    BY <1>3 DEF Unknown
<1>7. ~r.known => r.mention = 0
  <2> HIDE DEF r, w, data
  <2> QED
    BY <1>3 DEF Unknown
<1> HIDE DEF w, c, B, within, seats, m, data, answer, r, others
<1>8. 1000 * seats >= 901 * c => ~r.known \/ w[1] > w[2] \/ ~plan.menu.covers_within_capacity
  <2> SUFFICES ASSUME 1000 * seats >= 901 * c, w[1] <= w[2], r.known
               PROVE  ~plan.menu.covers_within_capacity
    BY <1>1
  <2>1. r.occupancy_pct = Rounded(1000 * seats, c)
    BY <1>5, <1>6
  <2>2. Rounded(1000 * seats, c) > 900
    <3>1. Rounded(1000 * seats, c) \in Nat
      BY <1>1, <1>2, BookedBeyond
    <3>2. Rounded(1000 * seats, c) <= 900 => 2000 * seats <= 1801 * c
      BY <1>1, <1>2, BookedBeyond
    <3> QED
      BY <1>1, <1>2, <3>1, <3>2
  <2>3. capacity_constrained(r.occupancy_pct)
    BY <2>1, <2>2 DEF capacity_constrained
  <2> QED
    BY <1>4, <2>1, <2>3
<1>9. 2 \notin report.stale_assumptions
  BY <1>4 DEF capacity_constrained
<1>10. r.known /\ w[1] <= w[2] /\ r.overbooking_risk # (r.occupancy_pct > 900) =>
         LET off == Magnitude(10 * seats - 9 * c) IN off <= 5 \/ 200 * off <= c
  <2> SUFFICES ASSUME r.known, w[1] <= w[2], r.overbooking_risk # (r.occupancy_pct > 900)
               PROVE  LET off == Magnitude(10 * seats - 9 * c) IN off <= 5 \/ 200 * off <= c
    OBVIOUS
  <2>1. (seats > Rounded(9 * c, 10)) # (Rounded(1000 * seats, c) > 900)
    BY <1>5, <1>6
  <2> QED
    BY <1>1, <1>2, <2>1, FlagsDiffer
<1>11. "capacity_limit" \in report.policy =>
         \/ profile.mention > c
         \/ \E n \in others : n > c
         \/ r.known /\ m > c /\ (seats <= c \/ w[1] > w[2])
  <2> SUFFICES ASSUME r.mention > c
               PROVE  r.known /\ m > c /\ (seats <= c \/ w[1] > w[2])
    BY <1>4
  <2>1. r.known
    BY <1>1, <1>7
  <2>2. r.mention = IF data.total > c /\ m > c THEN 0 ELSE m
    BY <1>6, <2>1 DEF _sanitize_guest_language
  <2>3. r.mention = m /\ ~(data.total > c /\ m > c)
    BY <1>1, <2>2
  <2>4. m > c
    BY <2>3
  <2>5. seats > c => w[1] > w[2]
    <3> SUFFICES ASSUME seats > c, w[1] <= w[2]
                 PROVE  FALSE
      BY <1>1
    <3>1. data.total = seats
      BY <1>5
    <3> QED
      BY <2>3, <2>4, <3>1
  <2> QED
    BY <1>1, <1>2, <2>1, <2>4, <2>5
<1> QED
  BY <1>8, <1>9, <1>10, <1>11 DEF FullHouseAgrees, w, c, B, within, seats, m, r, others

\* Whatever the house, its bookings and the window, and whichever node fails: unless
\* the reservations node does, a house booked beyond nine tenths is one to the menu
\* too, the flag of overbooking is within half a guest, or half a tenth of a per cent
\* of the seats, of it, and the plan is refused for a number of guests only when the
\* owner gave it, when another text of the bundle did, or when the reservations'
\* advice did of a house not booked beyond capacity (reservation_service.py:27-85,
\* 142-170; nodes/reservation.py:65-75; menu_service.py:108-112;
\* evaluation_sanity.py:125-142, 312-358).
THEOREM HousesAgree == NumbersSpec => []FullHouseAgrees
<1>1. NumbersSpec => []HouseInv
  BY InitHouse, NextHouse, PTL DEF NumbersSpec
<1> QED
  BY <1>1, FiguresAgree, PTL

-----------------------------------------------------------------------------
(* The shelf: what is drawn, short and ordered *)

IsRatio(ratio) == ratio[1] \in Int /\ ratio[2] \in Nat \ {0}

\* What is drawn from the shelf for an order is a number.
LEMMA RateNumber == \A scenario, token : rate(scenario, token) \in Nat
BY DEF rate

\* What a service draws of an item is a number, for every ratio of its orders to the
\* average.
LEMMA DrawdownNumber ==
  ASSUME NEW item, item.stock \in Nat, item.threshold \in Nat, NEW scenario, NEW ratio, IsRatio(ratio)
  PROVE  _projected_drawdown(item, scenario, ratio) \in Int
<1> DEFINE m == demand_multiplier(ratio)
           shortage == Max({item.threshold - item.stock, 0})
           r == rate(scenario, item.token)
<1>1. m[1] \in Int /\ m[2] \in Nat \ {0}
  BY DEF demand_multiplier, IsRatio
<1>2. shortage \in Int
  <2> DEFINE n == item.threshold - item.stock
  <2>1. n \in Int
    OBVIOUS
  <2> HIDE DEF n
  <2>2. Max({n, 0}) \in Int
    BY <2>1, AtLeastZero
  <2> QED
    BY <2>2 DEF n
<1>3. r \in Nat
  BY RateNumber
<1>4. _projected_drawdown(item, scenario, ratio) =
        IF scenario = "low_stock_weekend" /\ shortage > 0
          THEN Rounded(25 * item.threshold * m[2] + 45 * shortage * m[1], 100 * m[2])
          ELSE Rounded(item.threshold * r * m[1], 100 * m[2])
  BY DEF _projected_drawdown
<1> HIDE DEF m, shortage, r
<1>5. 100 * m[2] \in Nat \ {0}
  BY <1>1
<1>6. Rounded(25 * item.threshold * m[2] + 45 * shortage * m[1], 100 * m[2]) \in Int
  <2>1. 25 * item.threshold * m[2] \in Int /\ 45 * shortage * m[1] \in Int
    BY <1>1, <1>2
  <2>2. 25 * item.threshold * m[2] + 45 * shortage * m[1] \in Int
    BY <2>1
  <2> QED
    BY <1>5, <2>2, RoundedWhole
<1>7. Rounded(item.threshold * r * m[1], 100 * m[2]) \in Int
  <2>1. item.threshold * r * m[1] \in Int
    BY <1>1, <1>3
  <2> QED
    BY <1>5, <2>1, RoundedWhole
<1> QED
  BY <1>4, <1>6, <1>7

IsShelf(shelf) == \A i \in DOMAIN shelf : shelf[i].stock \in Nat /\ shelf[i].threshold \in Nat

\* What a service leaves on a shelf is a shelf of the same items.
LEMMA ProjectedShelf ==
  ASSUME NEW shelf, IsShelf(shelf), NEW scenario, NEW ratio, IsRatio(ratio)
  PROVE  /\ DOMAIN project_stock_for_scenario(shelf, scenario, ratio) = DOMAIN shelf
         /\ IsShelf(project_stock_for_scenario(shelf, scenario, ratio))
<1> DEFINE left == project_stock_for_scenario(shelf, scenario, ratio)
<1>1. DOMAIN left = DOMAIN shelf
  BY DEF project_stock_for_scenario
<1>2. ASSUME NEW i \in DOMAIN shelf
      PROVE  left[i].stock \in Nat /\ left[i].threshold \in Nat
  <2>1. left[i].threshold = shelf[i].threshold
    BY DEF project_stock_for_scenario
  <2>2. left[i].stock = Max({shelf[i].stock - _projected_drawdown(shelf[i], scenario, ratio), 0})
    BY DEF project_stock_for_scenario
  <2> HIDE DEF left
  <2>3. shelf[i].stock \in Nat /\ shelf[i].threshold \in Nat
    BY DEF IsShelf
  <2>4. _projected_drawdown(shelf[i], scenario, ratio) \in Int
    BY <2>3, DrawdownNumber
  <2> DEFINE drawn == _projected_drawdown(shelf[i], scenario, ratio)
             rest == Max({shelf[i].stock - drawn, 0})
  <2> HIDE DEF drawn
  <2>5. shelf[i].stock - drawn \in Int
    BY <2>3, <2>4 DEF drawn
  <2>6. rest \in {shelf[i].stock - drawn, 0} /\ rest >= 0
    <3> DEFINE n == shelf[i].stock - drawn
    <3>1. n \in Int
      BY <2>5
    <3> HIDE DEF n
    <3>2. Max({n, 0}) \in {n, 0} /\ Max({n, 0}) >= 0
      BY <3>1, AtLeastZero
    <3> QED
      BY <3>2 DEF n
  <2>7. rest \in Nat
    BY <2>5, <2>6
  <2> QED
    BY <2>1, <2>2, <2>3, <2>7 DEF drawn
<1> QED
  BY <1>1, <1>2 DEF IsShelf

\* No two alerts are of one item, and what is short is not left over as well.
LEMMA AlertsFit ==
  ASSUME NEW shelf, IsShelf(shelf), NEW scenario, NEW ratio, IsRatio(ratio)
  PROVE  LET alerts == compute_shortage_data(shelf, scenario, ratio)
         IN  /\ \A a \in alerts.shortages : a.stock \in Nat /\ a.shortfall \in Nat \ {0}
             /\ \A a, b \in alerts.shortages : a.item = b.item => a = b
             /\ \A a \in alerts.shortages, o \in alerts.overstocks : a.item # o.item
<1> DEFINE left == project_stock_for_scenario(shelf, scenario, ratio)
           alerts == compute_shortage_data(shelf, scenario, ratio)
<1>1. alerts.shortages = shortage_alerts(left, ratio) /\ alerts.overstocks = overstock_alerts(left)
  BY DEF compute_shortage_data, compute_alerts
<1>2. IsShelf(left)
  BY ProjectedShelf
<1> HIDE DEF left, alerts
<1>3. ASSUME NEW a \in alerts.shortages
      PROVE  /\ a.item \in DOMAIN left /\ left[a.item].stock < left[a.item].threshold
             /\ a.stock = left[a.item].stock /\ a.shortfall = left[a.item].threshold - left[a.item].stock
             /\ a = [item |-> a.item, ingredient |-> left[a.item].name, stock |-> left[a.item].stock,
                     shortfall |-> left[a.item].threshold - left[a.item].stock,
                     critical |-> high_demand(ratio) \/ left[a.item].spoils]
  <2>1. PICK i \in DOMAIN left :
          /\ left[i].stock < left[i].threshold
          /\ a = [item |-> i, ingredient |-> left[i].name, stock |-> left[i].stock,
                  shortfall |-> left[i].threshold - left[i].stock,
                  critical |-> high_demand(ratio) \/ left[i].spoils]
    BY <1>1 DEF shortage_alerts
  <2> QED
    BY <2>1
<1>4. ASSUME NEW o \in alerts.overstocks
      PROVE  o.item \in DOMAIN left /\ left[o.item].stock > 3 * left[o.item].threshold
  BY <1>1 DEF overstock_alerts
<1>5. ASSUME NEW a \in alerts.shortages
      PROVE  a.stock \in Nat /\ a.shortfall \in Nat \ {0}
  <2>1. left[a.item].stock \in Nat /\ left[a.item].threshold \in Nat
    BY <1>2, <1>3 DEF IsShelf
  <2> QED
    BY <1>3, <2>1
<1>6. ASSUME NEW a \in alerts.shortages, NEW b \in alerts.shortages, a.item = b.item
      PROVE  a = b
  BY <1>3, <1>6
<1>7. ASSUME NEW a \in alerts.shortages, NEW o \in alerts.overstocks
      PROVE  a.item # o.item
  <2>1. left[a.item].stock \in Nat /\ left[a.item].threshold \in Nat
    BY <1>2, <1>3 DEF IsShelf
  <2>2. left[a.item].stock < left[a.item].threshold
    BY <1>3
  <2>3. left[o.item].stock > 3 * left[o.item].threshold
    BY <1>4
  <2> QED
    BY <2>1, <2>2, <2>3
<1> QED
  BY <1>5, <1>6, <1>7 DEF alerts

\* What is ordered is what is missing.
LEMMA OrderedIsMissing ==
  ASSUME NEW a, a.shortfall \in Nat \ {0}
  PROVE  restock_qty(a) = a.shortfall /\ a.shortfall <= max_actionable_restock(a)
<1>1. 3 * a.shortfall \in Int /\ a.shortfall \in Int /\ a.shortfall < 3 * a.shortfall
  OBVIOUS
<1>2. Min({a.shortfall, 3 * a.shortfall}) = a.shortfall
  <2> DEFINE n == a.shortfall
  <2>1. n \in Int /\ 3 * n \in Int /\ n < 3 * n
    BY <1>1
  <2> HIDE DEF n
  <2>2. Min({n, 3 * n}) \in {n, 3 * n} /\ Min({n, 3 * n}) <= n
    BY <2>1, OfTwo
  <2>3. Min({n, 3 * n}) = n
    BY <2>1, <2>2
  <2> QED
    BY <2>3 DEF n
<1> QED
  BY <1>1, <1>2 DEF restock_qty, max_actionable_restock

\* A plan begins with no shelf and no alerts.
LEMMA InitShelf == NumbersInit => ShelfInv
BY DEF NumbersInit, ShelfInv

\* Every profile is of a shelf.
LEMMA ProfiledShelf ==
  ASSUME NEW id, NEW window, NEW mention, NEW date, Profiled(id, window, mention, date)
  PROVE  ShelfInv'
<1>1. profile'.shelf \in Shelves /\ phase' = "forecast"
  BY DEF Profiled
<1> QED
  BY <1>1 DEF ShelfInv

\* The forecast is two numbers of orders.
LEMMA ForecastNumbers ==
  ASSUME NEW d \in Demands, NEW weather \in Nat, NEW holiday
  PROVE  LET forecast == _apply_signal_adjustments(calculate_forecast(d.history, d.yhat, Missing), weather, holiday)
         IN  forecast.predicted \in Int /\ forecast.avg \in Int
<1> DEFINE total == d.history[1] + d.history[2] + d.history[3] + d.history[4]
           base == calculate_baseline_forecast(d.history)
           raw == calculate_forecast(d.history, d.yhat, Missing)
           factor == IF holiday THEN 14 ELSE 10
<1>1. total \in Int
  <2>1. d.history \in [1 .. 4 -> Nat]
    BY NumbersAssumption
  <2> QED
    BY <2>1
<1>2. base = [avg |-> Rounded(10 * total, 4), predicted |-> Rounded(1050 * total, 400)]
  BY DEF calculate_baseline_forecast
<1>3. Rounded(10 * total, 4) \in Int /\ Rounded(1050 * total, 400) \in Int
  <2> HIDE DEF total
  <2>1. 10 * total \in Int /\ 1050 * total \in Int /\ 4 \in Nat \ {0} /\ 400 \in Nat \ {0}
    BY <1>1
  <2> QED
    BY <2>1, RoundedWhole
<1> HIDE DEF total, base
<1>4. raw = [avg |-> base.avg, predicted |-> IF d.yhat = Missing THEN base.predicted ELSE d.yhat]
  BY <1>2 DEF calculate_forecast, base
<1>5. raw.predicted \in Int /\ raw.avg \in Int
  BY <1>2, <1>3, <1>4, NumbersAssumption
<1>6. factor \in Int
  OBVIOUS
<1>7. _apply_signal_adjustments(raw, weather, holiday) =
        [avg |-> raw.avg, predicted |-> Rounded(raw.predicted * weather * factor, 1000)]
  BY <1>4 DEF _apply_signal_adjustments
<1> HIDE DEF raw, factor
<1>8. Rounded(raw.predicted * weather * factor, 1000) \in Int
  <2>1. raw.predicted * weather * factor \in Int /\ 1000 \in Nat \ {0}
    BY <1>5, <1>6
  <2> QED
    BY <2>1, RoundedWhole
<1> QED
  BY <1>5, <1>7, <1>8 DEF raw

\* The alerts depend on the profile and the forecast only.
LEMMA SameInventory ==
  ASSUME profile' = profile, plan'.forecast = plan.forecast
  PROVE  \A waste, packs : inventory(waste, packs)' = inventory(waste, packs)
BY DEF inventory

\* Every step keeps alerts, recommendation, check and scores of one shelf.
LEMMA NextShelf == ShelfInv /\ [NumbersNext]_numbers => ShelfInv'
<1> SUFFICES ASSUME ShelfInv, [NumbersNext]_numbers
             PROVE  ShelfInv'
  OBVIOUS
<1>1. CASE MarketIntel \/ MarketDown \/ MarketAssumptions
  <2>1. phase' \in {"assume", "profile"}
    BY <1>1 DEF MarketIntel, MarketDown, MarketAssumptions
  <2> QED
    BY <2>1 DEF ShelfInv
<1>2. ASSUME NEW date, NEW scenario, Preset(scenario, date)
      PROVE  ShelfInv'
  BY <1>2, ProfiledShelf DEF Preset
<1>3. ASSUME NEW date, Recommended(date) \/ derive_profile(date) \/ compose(date)
      PROVE  ShelfInv'
  <2>1. PICK id, window, mention : Profiled(id, window, mention, date)
    BY <1>3 DEF Recommended, derive_profile, compose
  <2> QED
    BY <2>1, ProfiledShelf
<1>4. CASE demand_forecast_node
  <2>1. PICK d \in Demands :
          LET raw == calculate_forecast(d.history, d.yhat, Missing)
              weather == IF d.weather = Missing THEN 100 ELSE demand_multiplier_of(d.weather[1], d.weather[2])
          IN  plan' = [forecast |-> _apply_signal_adjustments(raw, weather, profile.holiday)]
    BY <1>4 DEF demand_forecast_node
  <2> DEFINE weather == IF d.weather = Missing THEN 100 ELSE demand_multiplier_of(d.weather[1], d.weather[2])
             forecast == _apply_signal_adjustments(calculate_forecast(d.history, d.yhat, Missing),
                                                   weather, profile.holiday)
  <2>2. weather \in Nat
    BY DEF demand_multiplier_of
  <2>3. plan' = [forecast |-> forecast]
    BY <2>1
  <2> HIDE DEF weather
  <2>4. forecast.predicted \in Int /\ forecast.avg \in Int
    BY <2>2, ForecastNumbers
  <2> HIDE DEF forecast
  <2>5. phase = "forecast" /\ phase' = "agents" /\ profile' = profile
    BY <1>4 DEF demand_forecast_node
  <2>6. "forecast" \in DOMAIN plan' /\ plan'.forecast = forecast
    BY <2>3
  <2> QED
    BY <2>4, <2>5, <2>6 DEF ShelfInv
<1>5. CASE Agents
  <2>1. /\ phase = "agents" /\ phase' = "menu" /\ profile' = profile
        /\ {"forecast", "text", "packs", "inventory", "reservation"} \subseteq DOMAIN plan'
        /\ plan'.forecast = plan.forecast /\ plan'.text \in Texts
        /\ plan'.inventory = inventory(plan'.text.waste, plan'.packs)
    BY <1>5 DEF Agents
  <2> QED
    BY <2>1, SameInventory DEF ShelfInv
<1>6. CASE menu_intelligence_node
  <2>1. phase = "menu" /\ phase' = "critic" /\ profile' = profile
    BY <1>6 DEF menu_intelligence_node
  <2>2. PICK m \in {menu, Silent} :
          plan' = [f \in DOMAIN plan \cup {"menu"} |-> IF f = "menu" THEN m ELSE plan[f]]
    BY <1>6 DEF menu_intelligence_node
  <2>3. {"forecast", "text", "packs", "inventory", "reservation"} \subseteq DOMAIN plan
    BY <2>1 DEF ShelfInv
  <2>4. /\ {"forecast", "text", "packs", "inventory", "reservation"} \subseteq DOMAIN plan'
        /\ plan'.forecast = plan.forecast /\ plan'.text = plan.text
        /\ plan'.packs = plan.packs /\ plan'.inventory = plan.inventory
    BY <2>2, <2>3
  <2> QED
    BY <2>1, <2>4, SameInventory DEF ShelfInv
<1>7. CASE critic_node
  <2>1. /\ phase = "critic" /\ phase' = "done" /\ profile' = profile /\ plan' = plan /\ market' = market
        /\ report' = check_bundle
    BY <1>7 DEF critic_node
  <2>2. /\ check_bundle'.quantities = check_bundle.quantities
        /\ check_bundle'.cost = check_bundle.cost
    BY <2>1 DEF check_bundle, scores
  <2> QED
    BY <2>1, <2>2, SameInventory DEF ShelfInv
<1>8. CASE UNCHANGED numbers
  <2>1. phase' = phase /\ profile' = profile /\ plan' = plan /\ market' = market /\ report' = report
    BY <1>8 DEF numbers
  <2>2. /\ check_bundle'.quantities = check_bundle.quantities
        /\ check_bundle'.cost = check_bundle.cost
    BY <2>1 DEF check_bundle, scores
  <2> QED
    BY <2>1, <2>2, SameInventory DEF ShelfInv
<1> QED
  BY <1>1, <1>2, <1>3, <1>4, <1>5, <1>6, <1>7, <1>8 DEF NumbersNext

\* Numbers of one shelf exceed no cap, and are reported only for a reason.
LEMMA ErrorsHaveReasons == ShelfInv => QuantityErrorsExplained
<1> SUFFICES ASSUME ShelfInv, phase = "done"
             PROVE  QuantityErrorsExplained
  BY DEF QuantityErrorsExplained
<1> DEFINE shelf == profile.shelf
           ratio == demand_ratio(plan.forecast)
           alerts == plan.inventory.alerts
           lines == plan.inventory.recommendation
           own == plan.text.waste
           packs == plan.packs
<1>1. IsShelf(shelf)
  BY NumbersAssumption DEF ShelfInv, IsShelf
<1>2. IsRatio(ratio)
  <2>1. plan.forecast.predicted \in Int /\ plan.forecast.avg \in Int
    BY DEF ShelfInv
  <2> QED
    BY <2>1 DEF demand_ratio, IsRatio
<1>3. /\ alerts = compute_shortage_data(shelf, profile.id, ratio)
      /\ lines = merge_guardrailed_recommendation(alerts, own, packs)
      /\ report.quantities = _check_inventory_quantities(alerts, lines)
  BY DEF ShelfInv, inventory, check_bundle
<1> HIDE DEF shelf, ratio
<1>4. /\ \A a \in alerts.shortages : a.stock \in Nat /\ a.shortfall \in Nat \ {0}
      /\ \A a, b \in alerts.shortages : a.item = b.item => a = b
      /\ \A a \in alerts.shortages, o \in alerts.overstocks : a.item # o.item
  BY <1>1, <1>2, <1>3, AlertsFit
<1> HIDE DEF alerts, lines, own, packs
<1>5. ASSUME NEW l \in lines.restock
      PROVE  \E b \in alerts.shortages :
               /\ l.item = b.item /\ l.names = b.ingredient /\ l.qty = b.shortfall
               /\ l.quotes = {b.shortfall, b.stock} \cup {packs[n] : n \in {b.ingredient} \cap DOMAIN packs}
  <2>1. lines.restock = build_capped_restock_actions(alerts.shortages, packs)
    BY <1>3 DEF merge_guardrailed_recommendation
  <2>2. PICK b \in alerts.shortages :
          l = [item |-> b.item, names |-> b.ingredient, qty |-> restock_qty(b),
               quotes |-> {b.shortfall, b.stock} \cup {packs[n] : n \in {b.ingredient} \cap DOMAIN packs}]
    BY <2>1 DEF build_capped_restock_actions
  <2>3. restock_qty(b) = b.shortfall
    BY <1>4, OrderedIsMissing
  <2> QED
    BY <2>2, <2>3
<1>6. ASSUME NEW l \in lines.waste, l \notin own
      PROVE  \E o \in alerts.overstocks : l.item = o.item
  <2>1. lines.waste = own \cup {[item |-> o.item, names |-> o.ingredient, qty |-> o.excess, quotes |-> {}] :
                                  o \in alerts.overstocks}
    BY <1>3 DEF merge_guardrailed_recommendation
  <2> QED
    BY <1>6, <2>1
<1>7. ASSUME NEW l \in lines.restock, NEW a \in alerts.shortages, l.item = a.item
      PROVE  l.qty <= max_actionable_restock(a)
  <2>1. l.qty = a.shortfall
    BY <1>4, <1>5, <1>7
  <2> QED
    BY <1>4, <2>1, OrderedIsMissing
<1>8. ASSUME NEW a \in alerts.shortages, NEW e \in report.quantities, e[1] = a.item
      PROVE  \/ e[2] = a.stock /\ 4 * a.stock > 3 * (a.stock + a.shortfall)
             \/ a.ingredient \in DOMAIN packs /\ e[2] = packs[a.ingredient]
             \/ \E l \in lines.restock \cup (lines.waste \ own) :
                  l.item # a.item /\ mentions(l, a.ingredient) /\ e[2] \in quantities(l)
             \/ \E l \in own : mentions(l, a.ingredient) /\ e[2] \in quantities(l)
  <2>1. PICK b \in alerts.shortages :
          /\ e[1] = b.item /\ e[2] > max_actionable_restock(b)
          /\ e[2] \in _quantities_near_ingredient(lines.restock \cup lines.waste, b.ingredient)
    <3> DEFINE near(b) == _quantities_near_ingredient(lines.restock \cup lines.waste, b.ingredient)
    <3>1. report.quantities = UNION {{<<b.item, q>> : q \in {n \in near(b) : n > max_actionable_restock(b)}} :
                                       b \in alerts.shortages}
      BY <1>3 DEF _check_inventory_quantities
    <3> HIDE DEF near
    <3>2. PICK b \in alerts.shortages :
            e \in {<<b.item, q>> : q \in {n \in near(b) : n > max_actionable_restock(b)}}
      BY <3>1
    <3>3. PICK q \in {n \in near(b) : n > max_actionable_restock(b)} : e = <<b.item, q>>
      BY <3>2
    <3> QED
      BY <3>3 DEF near
  <2>2. b = a
    BY <1>4, <1>8, <2>1
  <2>3. PICK l \in lines.restock \cup lines.waste : mentions(l, a.ingredient) /\ e[2] \in quantities(l)
    BY <2>1, <2>2 DEF _quantities_near_ingredient
  <2>4. CASE l.item # a.item \/ l \in own
    BY <2>3, <2>4
  <2>5. CASE l.item = a.item /\ l \notin own
    <3>1. l \in lines.restock
      BY <1>4, <1>6, <2>3, <2>5
    <3>2. /\ l.qty = a.shortfall
          /\ l.quotes = {a.shortfall, a.stock} \cup {packs[n] : n \in {a.ingredient} \cap DOMAIN packs}
      BY <1>4, <1>5, <2>5, <3>1
    <3>3. \/ e[2] = a.shortfall \/ e[2] = a.stock
          \/ a.ingredient \in DOMAIN packs /\ e[2] = packs[a.ingredient]
      BY <2>3, <3>2 DEF quantities
    <3>4. a.stock \in Nat /\ a.shortfall \in Nat \ {0} /\ e[2] > 3 * a.shortfall
      BY <1>4, <2>1, <2>2 DEF max_actionable_restock
    <3>5. e[2] # a.shortfall
      BY <3>4
    <3>6. e[2] = a.stock => 4 * a.stock > 3 * (a.stock + a.shortfall)
      BY <3>4
    <3> QED
      BY <3>3, <3>5, <3>6
  <2> QED
    BY <2>4, <2>5
<1> QED
  BY <1>7, <1>8 DEF QuantityErrorsExplained, alerts, lines, own, packs

\* Whatever is on the shelf, is forecast and is offered: no order of the guarded
\* recommendation exceeds its cap, and a quantity the critic still reports is one
\* that a line only quotes, of a nearly sufficient stock, of a pack, of another
\* item of that name, or the model's own (inventory_service.py:234-336;
\* evaluation_sanity.py:373-416, 448-460).
THEOREM QuantityErrorsHaveReasons == NumbersSpec => []QuantityErrorsExplained
<1>1. NumbersSpec => []ShelfInv
  BY InitShelf, NextShelf, PTL DEF NumbersSpec
<1> QED
  BY <1>1, ErrorsHaveReasons, PTL

-----------------------------------------------------------------------------
(* The scores of fewer orders *)

\* Alerts of items that others are also of are not more than those.
LEMMA FewerItems ==
  ASSUME NEW A, NEW U, IsFiniteSet(U),
         \A a, b \in A : a.item = b.item => a = b,
         \A a \in A : \E b \in U : b.item = a.item
  PROVE  IsFiniteSet(A) /\ Cardinality(A) <= Cardinality(U)
<1> DEFINE f == [a \in A |-> CHOOSE b \in U : b.item = a.item]
<1>1. \A a \in A : f[a] \in U /\ f[a].item = a.item
  OBVIOUS
<1>2. f \in [A -> U]
  BY <1>1
<1>3. \A a, b \in A : f[a] = f[b] => a = b
  <2> HIDE DEF f
  <2> QED
    BY <1>1
<1> HIDE DEF f
<1> QED
  BY <1>2, <1>3, OneToOne

\* A service with fewer orders draws no more from the shelf.
LEMMA DrawsNoMore ==
  ASSUME NEW item, item.stock \in Nat, item.threshold \in Nat, NEW scenario,
         NEW ratio, IsRatio(ratio), ratio[1] <= ratio[2]
  PROVE  _projected_drawdown(item, scenario, ratio) <= _projected_drawdown(item, scenario, <<1, 1>>)
<1> DEFINE m == demand_multiplier(ratio)
           shortage == Max({item.threshold - item.stock, 0})
           r == rate(scenario, item.token)
           th == item.threshold
<1>1. m[1] \in Nat /\ m[2] \in Nat \ {0} /\ m[1] <= m[2]
  BY DEF demand_multiplier, IsRatio
<1>2. demand_multiplier(<<1, 1>>) = <<1, 1>>
  BY DEF demand_multiplier
<1>3. shortage \in Nat
  <2> DEFINE n == item.threshold - item.stock
  <2>1. n \in Int
    OBVIOUS
  <2> HIDE DEF n
  <2>2. Max({n, 0}) \in {n, 0} /\ Max({n, 0}) >= 0
    BY <2>1, AtLeastZero
  <2>3. Max({n, 0}) \in Nat
    BY <2>1, <2>2
  <2> QED
    BY <2>3 DEF n
<1>4. r \in Nat /\ th \in Nat
  BY RateNumber
<1>5. _projected_drawdown(item, scenario, ratio) =
        IF scenario = "low_stock_weekend" /\ shortage > 0
          THEN Rounded(25 * th * m[2] + 45 * shortage * m[1], 100 * m[2])
          ELSE Rounded(th * r * m[1], 100 * m[2])
  BY DEF _projected_drawdown
<1>6. _projected_drawdown(item, scenario, <<1, 1>>) =
        IF scenario = "low_stock_weekend" /\ shortage > 0
          THEN Rounded(25 * th * 1 + 45 * shortage * 1, 100 * 1)
          ELSE Rounded(th * r * 1, 100 * 1)
  BY <1>2 DEF _projected_drawdown
<1> HIDE DEF m, shortage, r, th
<1>7. \A k \in Nat : k * m[1] \in Nat /\ k * m[1] <= k * m[2] /\ k * m[2] \in Nat
  BY <1>1
<1>8. Rounded(25 * th * m[2] + 45 * shortage * m[1], 100 * m[2]) <= Rounded(25 * th * 1 + 45 * shortage * 1, 100 * 1)
  <2> DEFINE i == 25 * th
             j == 45 * shortage
  <2>1. i \in Nat /\ j \in Nat
    BY <1>3, <1>4
  <2> HIDE DEF i, j
  <2>2. i * m[2] + j * m[1] \in Nat /\ 100 * m[2] \in Nat \ {0} /\ i * 1 + j * 1 \in Nat /\ 100 * 1 \in Nat \ {0}
    BY <1>1, <1>7, <2>1
  <2>3. (i * m[2] + j * m[1]) * (100 * 1) <= (i * 1 + j * 1) * (100 * m[2])
    <3>1. (i * 1 + j * 1) * (100 * m[2]) = 100 * (i * m[2]) + 100 * (j * m[2])
      <4> DEFINE x == m[2]
      <4>1. x \in Nat
        BY <1>1
      <4> HIDE DEF x
      <4>2. (i + j) * x = i * x + j * x /\ i * x \in Nat /\ j * x \in Nat
        BY <2>1, <4>1
      <4>3. (i * 1 + j * 1) * (100 * x) = 100 * ((i + j) * x)
        BY <2>1, <4>1
      <4>4. (i * 1 + j * 1) * (100 * x) = 100 * (i * x) + 100 * (j * x)
        <5> DEFINE u == (i + j) * x
                   v == i * x
                   w == j * x
        <5>1. u = v + w /\ v \in Nat /\ w \in Nat
          BY <4>2
        <5> HIDE DEF u, v, w
        <5>2. 100 * u = 100 * v + 100 * w
          BY <5>1
        <5> QED
          BY <4>3, <5>2 DEF u, v, w
      <4> QED
        BY <4>4 DEF x
    <3>2. j * m[1] <= j * m[2] /\ j * m[1] \in Nat /\ j * m[2] \in Nat /\ i * m[2] \in Nat
      BY <1>7, <2>1
    <3> QED
      BY <3>1, <3>2
  <2>4. Rounded(i * m[2] + j * m[1], 100 * m[2]) <= Rounded(i * 1 + j * 1, 100 * 1)
    BY <2>2, <2>3, RoundedGrows
  <2> QED
    BY <2>4 DEF i, j
<1>9. Rounded(th * r * m[1], 100 * m[2]) <= Rounded(th * r * 1, 100 * 1)
  <2> DEFINE i == th * r
  <2>1. i \in Nat
    BY <1>4
  <2> HIDE DEF i
  <2>2. i * m[1] \in Nat /\ 100 * m[2] \in Nat \ {0} /\ i * 1 \in Nat /\ 100 * 1 \in Nat \ {0}
    <3>1. m[1] \in Nat /\ m[2] \in Nat \ {0}
      BY <1>1, <1>7
    <3>2. i * m[1] \in Nat
      BY <2>1, <3>1
    <3> QED
      BY <2>1, <3>1, <3>2
  <2>3. (i * m[1]) * (100 * 1) <= (i * 1) * (100 * m[2])
    <3>1. (i * 1) * (100 * m[2]) = 100 * (i * m[2])
      BY <1>1, <2>1
    <3> QED
      BY <1>7, <2>1, <3>1
  <2>4. Rounded(i * m[1], 100 * m[2]) <= Rounded(i * 1, 100 * 1)
    BY <2>2, <2>3, RoundedGrows
  <2> QED
    BY <2>4 DEF i
<1> QED
  BY <1>5, <1>6, <1>8, <1>9

\* And so fewer items are short, of either kind.
LEMMA FewerShortages ==
  ASSUME NEW shelf, IsFiniteSet(DOMAIN shelf), IsShelf(shelf), NEW scenario,
         NEW ratio, IsRatio(ratio), ratio[1] <= ratio[2]
  PROVE  LET short == compute_shortage_data(shelf, scenario, ratio).shortages
             usual == compute_shortage_data(shelf, scenario, <<1, 1>>).shortages
         IN  /\ IsFiniteSet(short) /\ IsFiniteSet(usual)
             /\ Cardinality({a \in short : a.critical}) <= Cardinality({a \in usual : a.critical})
             /\ Cardinality({a \in short : ~a.critical}) <= Cardinality({a \in usual : ~a.critical})
<1> DEFINE one == <<1, 1>>
           left == project_stock_for_scenario(shelf, scenario, ratio)
           rest == project_stock_for_scenario(shelf, scenario, one)
           short == compute_shortage_data(shelf, scenario, ratio).shortages
           usual == compute_shortage_data(shelf, scenario, one).shortages
           alert(some, i) == [item |-> i, ingredient |-> some[i].name, stock |-> some[i].stock,
                              shortfall |-> some[i].threshold - some[i].stock, critical |-> some[i].spoils]
<1>0. IsRatio(one)
  BY DEF IsRatio
<1>1. ~high_demand(ratio) /\ ~high_demand(one)
  <2>1. ratio[1] \in Int /\ ratio[2] \in Nat \ {0}
    BY DEF IsRatio
  <2> QED
    BY <2>1 DEF high_demand
<1>2. ASSUME NEW i \in DOMAIN shelf
      PROVE  /\ left[i].name = rest[i].name /\ left[i].spoils = rest[i].spoils
             /\ left[i].threshold = rest[i].threshold
             /\ left[i].stock < left[i].threshold => rest[i].stock < rest[i].threshold
  <2> DEFINE d == _projected_drawdown(shelf[i], scenario, ratio)
             e == _projected_drawdown(shelf[i], scenario, one)
             m == shelf[i].stock - d
             n == shelf[i].stock - e
  <2>1. /\ left[i].name = rest[i].name /\ left[i].spoils = rest[i].spoils
        /\ left[i].threshold = rest[i].threshold /\ left[i].threshold = shelf[i].threshold
        /\ left[i].stock = Max({m, 0}) /\ rest[i].stock = Max({n, 0})
    BY DEF project_stock_for_scenario
  <2>2. shelf[i].stock \in Nat /\ shelf[i].threshold \in Nat
    BY DEF IsShelf
  <2>3. d \in Int /\ e \in Int /\ d <= e
    <3>1. d \in Int
      BY <2>2, DrawdownNumber
    <3>2. e \in Int
      BY <1>0, <2>2, DrawdownNumber
    <3>3. d <= e
      BY <2>2, DrawsNoMore
    <3> QED
      BY <3>1, <3>2, <3>3
  <2> HIDE DEF d, e
  <2>4. m \in Int /\ n \in Int /\ m >= n
    BY <2>2, <2>3
  <2> HIDE DEF m, n
  <2>5. Max({m, 0}) \in {m, 0} /\ Max({m, 0}) >= m /\ Max({m, 0}) >= 0 /\ Max({n, 0}) \in {n, 0}
    <3>1. 0 \in Int
      OBVIOUS
    <3> QED
      BY <2>4, <3>1, OfTwo
  <2>6. Max({m, 0}) \in Int /\ Max({n, 0}) \in Int /\ Max({m, 0}) >= Max({n, 0})
    BY <2>4, <2>5
  <2> DEFINE x == Max({m, 0})
             y == Max({n, 0})
  <2> HIDE DEF x, y
  <2>7. x \in Int /\ y \in Int /\ x >= y /\ left[i].stock = x /\ rest[i].stock = y
    BY <2>1, <2>6 DEF x, y
  <2> HIDE DEF left, rest
  <2> QED
    BY <2>1, <2>2, <2>7
<1>3. DOMAIN left = DOMAIN shelf /\ DOMAIN rest = DOMAIN shelf
  BY DEF project_stock_for_scenario
<1>4. short = shortage_alerts(left, ratio) /\ usual = shortage_alerts(rest, one)
  BY DEF compute_shortage_data, compute_alerts
<1> HIDE DEF left, rest, short, usual, one
<1>5. ASSUME NEW a \in short
      PROVE  /\ a.item \in DOMAIN shelf /\ left[a.item].stock < left[a.item].threshold
             /\ a.critical = (high_demand(ratio) \/ left[a.item].spoils)
             /\ a = [item |-> a.item, ingredient |-> left[a.item].name, stock |-> left[a.item].stock,
                     shortfall |-> left[a.item].threshold - left[a.item].stock,
                     critical |-> high_demand(ratio) \/ left[a.item].spoils]
  <2>1. PICK i \in DOMAIN left :
          /\ left[i].stock < left[i].threshold
          /\ a = [item |-> i, ingredient |-> left[i].name, stock |-> left[i].stock,
                  shortfall |-> left[i].threshold - left[i].stock,
                  critical |-> high_demand(ratio) \/ left[i].spoils]
    BY <1>4 DEF shortage_alerts
  <2> QED
    BY <1>3, <2>1
<1>6. ASSUME NEW b \in usual
      PROVE  /\ b.item \in DOMAIN shelf
             /\ b = [item |-> b.item, ingredient |-> rest[b.item].name, stock |-> rest[b.item].stock,
                     shortfall |-> rest[b.item].threshold - rest[b.item].stock,
                     critical |-> high_demand(one) \/ rest[b.item].spoils]
  <2>1. PICK i \in DOMAIN rest :
          /\ b = [item |-> i, ingredient |-> rest[i].name, stock |-> rest[i].stock,
                  shortfall |-> rest[i].threshold - rest[i].stock,
                  critical |-> high_demand(one) \/ rest[i].spoils]
    BY <1>4 DEF shortage_alerts
  <2> QED
    BY <1>3, <2>1
<1>7. ASSUME NEW i \in DOMAIN shelf, rest[i].stock < rest[i].threshold
      PROVE  \E b \in usual : b.item = i /\ b.critical = (high_demand(one) \/ rest[i].spoils)
  <2> DEFINE b == [item |-> i, ingredient |-> rest[i].name, stock |-> rest[i].stock,
                   shortfall |-> rest[i].threshold - rest[i].stock,
                   critical |-> high_demand(one) \/ rest[i].spoils]
  <2>1. b \in usual
    BY <1>3, <1>4, <1>7 DEF shortage_alerts
  <2>2. b.item = i /\ b.critical = (high_demand(one) \/ rest[i].spoils)
    OBVIOUS
  <2> HIDE DEF b
  <2> QED
    BY <2>1, <2>2
<1>8. IsFiniteSet(usual)
  <2> DEFINE f == [b \in usual |-> b.item]
  <2>1. f \in [usual -> DOMAIN shelf] /\ \A a, b \in usual : f[a] = f[b] => a = b
    BY <1>6
  <2> HIDE DEF f
  <2> QED
    BY <2>1, OneToOne
<1>9. \A a, b \in short : a.item = b.item => a = b
  BY <1>5
<1>10. ASSUME NEW a \in short
       PROVE  \E b \in usual : b.item = a.item /\ (a.critical <=> b.critical)
  <2>1. rest[a.item].stock < rest[a.item].threshold /\ rest[a.item].spoils = left[a.item].spoils
    BY <1>2, <1>5
  <2>2. PICK b \in usual : b.item = a.item /\ b.critical = (high_demand(one) \/ rest[a.item].spoils)
    BY <1>5, <1>7, <2>1
  <2>3. a.critical = (high_demand(ratio) \/ left[a.item].spoils)
    BY <1>5
  <2> QED
    BY <1>1, <2>1, <2>2, <2>3
<1>11. IsFiniteSet(short)
  BY <1>8, <1>9, <1>10, FewerItems
<1>12. Cardinality({a \in short : a.critical}) <= Cardinality({a \in usual : a.critical})
  <2> DEFINE A == {a \in short : a.critical}
             U == {a \in usual : a.critical}
  <2>1. IsFiniteSet(U)
    BY <1>8, FS_Subset
  <2>2. \A a, b \in A : a.item = b.item => a = b
    BY <1>9
  <2>3. \A a \in A : \E b \in U : b.item = a.item
    BY <1>10
  <2> HIDE DEF A, U
  <2>4. Cardinality(A) <= Cardinality(U)
    BY <2>1, <2>2, <2>3, FewerItems
  <2> QED
    BY <2>4 DEF A, U
<1>13. Cardinality({a \in short : ~a.critical}) <= Cardinality({a \in usual : ~a.critical})
  <2> DEFINE A == {a \in short : ~a.critical}
             U == {a \in usual : ~a.critical}
  <2>1. IsFiniteSet(U)
    BY <1>8, FS_Subset
  <2>2. \A a, b \in A : a.item = b.item => a = b
    BY <1>9
  <2>3. \A a \in A : \E b \in U : b.item = a.item
    BY <1>10
  <2> HIDE DEF A, U
  <2>4. Cardinality(A) <= Cardinality(U)
    BY <2>1, <2>2, <2>3, FewerItems
  <2> QED
    BY <2>4 DEF A, U
<1> QED
  BY <1>8, <1>11, <1>12, <1>13 DEF short, usual, one

\* What is left over is of finitely many items.
LEMMA LeftOversFinite ==
  ASSUME NEW shelf, IsFiniteSet(DOMAIN shelf), NEW scenario, NEW ratio
  PROVE  IsFiniteSet(compute_shortage_data(shelf, scenario, ratio).overstocks)
<1> DEFINE left == project_stock_for_scenario(shelf, scenario, ratio)
           over == compute_shortage_data(shelf, scenario, ratio).overstocks
           f == [o \in over |-> o.item]
<1>1. DOMAIN left = DOMAIN shelf
  BY DEF project_stock_for_scenario
<1>2. over = overstock_alerts(left)
  BY DEF compute_shortage_data, compute_alerts
<1> HIDE DEF left, over
<1>3. ASSUME NEW o \in over
      PROVE  /\ o.item \in DOMAIN shelf
             /\ o = [item |-> o.item, ingredient |-> left[o.item].name,
                     excess |-> left[o.item].stock - 3 * left[o.item].threshold]
  BY <1>1, <1>2 DEF overstock_alerts
<1>4. f \in [over -> DOMAIN shelf] /\ \A a, b \in over : f[a] = f[b] => a = b
  BY <1>3
<1> HIDE DEF f
<1> QED
  BY <1>4, OneToOne DEF over

\* No more orders than average are no surplus.
LEMMA NoSurplus ==
  ASSUME NEW ratio, IsRatio(ratio), ratio[1] <= ratio[2]
  PROVE  surplus(ratio) = 0
<1> DEFINE n == 100 * ratio[1]
           d == ratio[2]
           q == n \div d
           r == n % d
           x == Rounded(n, d)
<1>1. n \in Int /\ d \in Nat \ {0} /\ n <= 100 * d
  BY DEF IsRatio
<1> HIDE DEF n, d
<1>2. q \in Int /\ r \in 0 .. d - 1 /\ n = d * q + r
  BY <1>1
<1>3. x = IF 2 * r > d \/ (2 * r = d /\ q % 2 = 1) THEN q + 1 ELSE q
  BY DEF Rounded
<1> HIDE DEF q, r, x
<1>4. x \in Int /\ x <= 100
  <2>1. CASE q <= 99
    BY <1>2, <1>3, <2>1
  <2>2. CASE q = 100
    BY <1>1, <1>2, <1>3, <2>2
  <2>3. CASE q >= 101
    <3>1. d * q >= 101 * d
      BY <1>1, <1>2, <2>3
    <3>2. d * q \in Int
      BY <1>1, <1>2
    <3> QED
      BY <1>1, <1>2, <3>1, <3>2
  <2> QED
    BY <1>2, <2>1, <2>2, <2>3
<1>5. Max({x - 100, 0}) = 0
  <2> DEFINE k == x - 100
  <2>1. k \in Int /\ k <= 0
    BY <1>4
  <2> HIDE DEF k
  <2>2. Max({k, 0}) \in {k, 0} /\ Max({k, 0}) >= 0
    BY <2>1, AtLeastZero
  <2>3. Max({k, 0}) = 0
    BY <2>1, <2>2
  <2> QED
    BY <2>3 DEF k
<1> QED
  BY <1>5 DEF surplus, x, n, d

\* Fewer alerts do not score a heavier plan.
LEMMA PressureGrows ==
  ASSUME NEW ratio, NEW one, surplus(ratio) = 0, surplus(one) = 0, NEW occupancy_pct \in Int,
         NEW waitlist \in Nat, NEW staff \in Nat, NEW complexity \in Nat,
         NEW c \in Nat, NEW w \in Nat, NEW o \in Nat, NEW cc \in Nat, NEW ww \in Nat, NEW oo \in Nat,
         c <= cc, w <= ww, o <= oo
  PROVE  evaluate_bundle(ratio, occupancy_pct, waitlist, c, w, o, staff, complexity).pressure
           <= evaluate_bundle(one, occupancy_pct, waitlist, cc, ww, oo, staff, complexity).pressure
<1> DEFINE cook == _clamp(100 * (25 + 2 * staff + 8 * complexity) + 60 * 0, 100)
           serve == _clamp(10 + 3 * staff + (IF occupancy_pct >= 900 THEN 15 ELSE 0), 1)
           seat == _clamp(75 * occupancy_pct + 5000 * Min({waitlist, 5}), 1000)
           risk == _clamp(10 + 12 * c + 5 * w + 3 * o, 1)
           usual == _clamp(10 + 12 * cc + 5 * ww + 3 * oo, 1)
<1>1. /\ evaluate_bundle(ratio, occupancy_pct, waitlist, c, w, o, staff, complexity).pressure
           = Rounded(cook + serve + risk + seat, 4)
      /\ evaluate_bundle(one, occupancy_pct, waitlist, cc, ww, oo, staff, complexity).pressure
           = Rounded(cook + serve + usual + seat, 4)
  BY DEF evaluate_bundle
<1>2. cook \in Nat
  <2>1. 100 * (25 + 2 * staff + 8 * complexity) + 60 * 0 \in Int /\ 100 \in Nat \ {0}
    OBVIOUS
  <2> QED
    BY <2>1, ClampNumber
<1>3. serve \in Nat
  <2>1. 10 + 3 * staff + (IF occupancy_pct >= 900 THEN 15 ELSE 0) \in Int /\ 1 \in Nat \ {0}
    OBVIOUS
  <2> QED
    BY <2>1, ClampNumber
<1>4. seat \in Nat
  <2>1. Min({waitlist, 5}) \in Int
    <3>1. 5 \in Int /\ waitlist \in Int
      OBVIOUS
    <3>2. Min({waitlist, 5}) \in {waitlist, 5}
      BY <3>1, OfTwo
    <3> QED
      BY <3>1, <3>2
  <2>2. 75 * occupancy_pct + 5000 * Min({waitlist, 5}) \in Int /\ 1000 \in Nat \ {0}
    BY <2>1
  <2> QED
    BY <2>2, ClampNumber
<1>5. risk \in Nat /\ usual \in Nat /\ risk <= usual
  <2> DEFINE i == 10 + 12 * c + 5 * w + 3 * o
             j == 10 + 12 * cc + 5 * ww + 3 * oo
  <2>1. i \in Nat /\ j \in Nat /\ i <= j
    OBVIOUS
  <2> HIDE DEF i, j
  <2>2. i \in Int /\ j \in Int /\ 1 \in Nat \ {0}
    BY <2>1
  <2>3. _clamp(i, 1) \in Nat /\ _clamp(j, 1) \in Nat /\ _clamp(i, 1) <= _clamp(j, 1)
    BY <2>1, <2>2, ClampNumber, ClampGrows
  <2> QED
    BY <2>3 DEF i, j
<1> HIDE DEF cook, serve, seat, risk, usual
<1>6. Rounded(cook + serve + risk + seat, 4) <= Rounded(cook + serve + usual + seat, 4)
  <2> DEFINE i == cook + serve + risk + seat
             j == cook + serve + usual + seat
  <2>1. i \in Nat /\ j \in Nat /\ i <= j
    BY <1>2, <1>3, <1>4, <1>5
  <2> HIDE DEF i, j
  <2>2. 4 \in Nat \ {0} /\ i * 4 <= j * 4
    BY <2>1
  <2>3. Rounded(i, 4) <= Rounded(j, 4)
    BY <2>1, <2>2, RoundedGrows
  <2> QED
    BY <2>3 DEF i, j
<1> QED
  BY <1>1, <1>6

\* How full the house is and how many wait are numbers.
LEMMA ReservationNumbers ==
  ASSUME HouseInv, phase = "done"
  PROVE  plan.reservation.occupancy_pct \in Int /\ plan.reservation.waitlist \in Nat
<1> DEFINE B == profile.house.bookings
           c == profile.house.capacity
           w == profile.window
           data == get_service_reservations(B, w, c)
           r == plan.reservation
<1>1. profile.house \in Houses /\ c \in Nat \ {0} /\ IsFiniteSet(B) /\ \A b \in B : b.guests \in Nat
  <2>1. profile.house \in Houses
    BY DEF HouseInv
  <2> QED
    BY <2>1, NumbersAssumption
<1>2. r \in reservation(plan.text.mention)
  BY DEF HouseInv
<1>3. \/ r.occupancy_pct = data.occupancy_pct /\ r.waitlist = data.waitlist
      \/ r.occupancy_pct = 0 /\ r.waitlist = 0
  BY <1>2 DEF reservation, Unknown
<1> HIDE DEF B, c, w, r
<1>4. IsFiniteSet(booked(B, w)) /\ booked(B, w) \subseteq B
  BY <1>1, FS_Subset DEF booked
<1>5. guests(booked(B, w)) \in Nat
  BY <1>1, <1>4, GuestsNumber
<1>6. data.occupancy_pct = Rounded(1000 * guests(booked(B, w)), c)
  BY DEF get_service_reservations
<1>7. data.waitlist = Cardinality({b \in booked(B, w) : b.waits})
  BY DEF get_service_reservations
<1> HIDE DEF data
<1>8. data.occupancy_pct \in Int
  <2> DEFINE n == guests(booked(B, w))
  <2>1. n \in Nat
    BY <1>5
  <2> HIDE DEF n
  <2>2. Rounded(1000 * n, c) \in Int
    <3>1. 1000 * n \in Int
      BY <2>1
    <3> QED
      BY <1>1, <3>1, RoundedWhole
  <2> QED
    BY <1>6, <2>2 DEF n
<1>9. data.waitlist \in Nat
  <2>1. IsFiniteSet({b \in booked(B, w) : b.waits})
    BY <1>4, FS_Subset
  <2> QED
    BY <1>7, <2>1, FS_CardinalityType
<1> QED
  BY <1>3, <1>8, <1>9 DEF r

\* Those that are not severe are the others.
LEMMA NotSevere ==
  ASSUME NEW S, IsFiniteSet(S)
  PROVE  /\ Cardinality({a \in S : a.critical}) \in Nat
         /\ Cardinality({a \in S : ~a.critical}) \in Nat
         /\ Cardinality(S) - Cardinality({a \in S : a.critical}) = Cardinality({a \in S : ~a.critical})
<1> DEFINE T == {a \in S : a.critical}
           U == {a \in S : ~a.critical}
<1>1. U = S \ T /\ S \cap T = T
  OBVIOUS
<1>2. IsFiniteSet(T) /\ IsFiniteSet(U)
  BY FS_Subset
<1> HIDE DEF T, U
<1>3. Cardinality(U) = Cardinality(S) - Cardinality(T)
  <2>1. Cardinality(S \ T) = Cardinality(S) - Cardinality(S \cap T)
    BY FS_Difference
  <2> QED
    BY <1>1, <2>1
<1> QED
  BY <1>2, <1>3, FS_CardinalityType DEF T, U

\* Scores of one shelf and one forecast are not heavier for fewer orders.
LEMMA QuietIsNotHeavier == HouseInv /\ ShelfInv => OffPeakExplained
<1> SUFFICES ASSUME HouseInv, ShelfInv, phase = "done", plan.forecast.predicted < plan.forecast.avg
             PROVE  OffPeakExplained
  BY DEF OffPeakExplained
<1> DEFINE shelf == profile.shelf
           ratio == demand_ratio(plan.forecast)
           one == <<1, 1>>
           alerts == plan.inventory.alerts
           usual == compute_shortage_data(shelf, profile.id, one)
           staff == plan.text.staff
           complexity == plan.text.complexity
           pct == plan.reservation.occupancy_pct
           wait == plan.reservation.waitlist
           bad(S) == {a \in S : a.critical}
<1>1. profile.shelf \in Shelves /\ plan.text \in Texts
  BY DEF ShelfInv
<1>2. IsFiniteSet(DOMAIN shelf) /\ IsShelf(shelf) /\ staff \in Nat /\ complexity \in Nat
  BY <1>1, NumbersAssumption DEF IsShelf
<1>3. IsRatio(ratio) /\ ratio[1] <= ratio[2] /\ IsRatio(one) /\ one[1] <= one[2]
  <2>1. plan.forecast.predicted \in Int /\ plan.forecast.avg \in Int
    BY DEF ShelfInv
  <2> QED
    BY <2>1 DEF demand_ratio, IsRatio
<1>4. alerts = compute_shortage_data(shelf, profile.id, ratio)
  BY DEF ShelfInv, inventory
<1>5. pct \in Int /\ wait \in Nat
  BY ReservationNumbers
<1>6. /\ report.cost = scores(ratio, alerts, staff, complexity)
  BY DEF ShelfInv, check_bundle
<1> HIDE DEF shelf, ratio, one, alerts, usual, staff, complexity, pct, wait
<1>7. surplus(ratio) = 0 /\ surplus(one) = 0
  BY <1>3, NoSurplus
<1>8. /\ IsFiniteSet(alerts.shortages) /\ IsFiniteSet(usual.shortages)
      /\ Cardinality(bad(alerts.shortages)) <= Cardinality(bad(usual.shortages))
      /\ Cardinality({a \in alerts.shortages : ~a.critical}) <= Cardinality({a \in usual.shortages : ~a.critical})
  BY <1>2, <1>3, <1>4, FewerShortages DEF usual, one
<1>9. Cardinality(alerts.overstocks) \in Nat /\ Cardinality(usual.overstocks) \in Nat
  BY <1>2, <1>4, LeftOversFinite, FS_CardinalityType DEF usual
<1>10. \A some : IsFiniteSet(some.shortages) =>
         /\ Cardinality(bad(some.shortages)) \in Nat
         /\ Cardinality(some.shortages) - Cardinality(severe(some)) \in Nat
         /\ Cardinality(some.shortages) - Cardinality(severe(some))
              = Cardinality({a \in some.shortages : ~a.critical})
         /\ severe(some) = bad(some.shortages)
  BY NotSevere DEF severe
<1>11. CASE Cardinality(alerts.overstocks) <= Cardinality(usual.overstocks)
  <2> DEFINE c == Cardinality(severe(alerts))
             cc == Cardinality(severe(usual))
             w == Cardinality(alerts.shortages) - Cardinality(severe(alerts))
             ww == Cardinality(usual.shortages) - Cardinality(severe(usual))
             o == Cardinality(alerts.overstocks)
             oo == Cardinality(usual.overstocks)
  <2>1. /\ c \in Nat /\ cc \in Nat /\ w \in Nat /\ ww \in Nat /\ o \in Nat /\ oo \in Nat
        /\ c <= cc /\ w <= ww /\ o <= oo
    BY <1>8, <1>9, <1>10, <1>11
  <2>2. /\ scores(ratio, alerts, staff, complexity) = evaluate_bundle(ratio, pct, wait, c, w, o, staff, complexity)
        /\ scores(one, usual, staff, complexity) = evaluate_bundle(one, pct, wait, cc, ww, oo, staff, complexity)
    BY DEF scores, pct, wait
  <2> HIDE DEF c, cc, w, ww, o, oo
  <2>3. evaluate_bundle(ratio, pct, wait, c, w, o, staff, complexity).pressure
          <= evaluate_bundle(one, pct, wait, cc, ww, oo, staff, complexity).pressure
    BY <1>2, <1>5, <1>7, <2>1, PressureGrows
  <2> QED
    BY <1>6, <2>2, <2>3 DEF OffPeakExplained, usual, one, staff, complexity, shelf
<1>12. CASE Cardinality(alerts.overstocks) > Cardinality(usual.overstocks)
  BY <1>12 DEF OffPeakExplained, usual, one, alerts, shelf
<1> QED
  BY <1>9, <1>11, <1>12

\* Whatever is on the shelf and is asked of the kitchen, a service with fewer orders
\* than average is scored as heavier than at the average only for what it leaves
\* over (cost_aware_scoring.py:24-28; inventory_service.py:138-174).
THEOREM QuietServicesScoreLight == NumbersSpec => []OffPeakExplained
<1>1. NumbersSpec => []HouseInv
  BY InitHouse, NextHouse, PTL DEF NumbersSpec
<1>2. NumbersSpec => []ShelfInv
  BY InitShelf, NextShelf, PTL DEF NumbersSpec
<1> QED
  BY <1>1, <1>2, QuietIsNotHeavier, PTL

-----------------------------------------------------------------------------
(* The market: ranks, averages and the chart of open tables *)

IsOurs(f, ours, X) == f = [s \in X |-> IF s = {} THEN 0 ELSE ours[picked(s)].price + f[s \ {picked(s)}]]
IsTheirs(f, X) == f = [s \in X |-> IF s = {} THEN 0 ELSE Price(picked(s)) + f[s \ {picked(s)}]]
IsOffers(f, X) == f = [s \in X |-> IF s = {} THEN 0 ELSE Cardinality(open_times(picked(s))) + f[s \ {picked(s)}]]

\* How the sum of the prices nearby is made.
LEMMA TheirsCounted == \A B : MapThenSumSet(Price, B) = (CHOOSE f : IsTheirs(f, SUBSET B))[B]
BY DEF MapThenSumSet, MapThenFoldSet, IsTheirs, picked

\* How the sum of open tables is made.
LEMMA OffersCounted ==
  \A B : LET offers(r) == Cardinality(open_times(r))
         IN  MapThenSumSet(offers, B) = (CHOOSE f : IsOffers(f, SUBSET B))[B]
BY DEF MapThenSumSet, MapThenFoldSet, IsOffers, picked

\* The sum of our own prices is a number.
LEMMA OursSum ==
  ASSUME NEW ours, NEW B, IsFiniteSet(B), \A i \in B : ours[i].price \in Nat
  PROVE  (CHOOSE f : IsOurs(f, ours, SUBSET B))[B] \in Nat
<1> DEFINE h == [i \in B |-> ours[i].price]
           f == CHOOSE g : IsOurs(g, ours, SUBSET B)
<1>1. ASSUME NEW g
      PROVE  IsOurs(g, ours, SUBSET B) <=> IsSum(g, h, SUBSET B)
  <2>1. \A s \in SUBSET B : s # {} => h[picked(s)] = ours[picked(s)].price
    BY DEF picked
  <2> HIDE DEF h
  <2> QED
    BY <2>1 DEF IsOurs, IsSum
<1>2. \A i \in B : h[i] \in Nat
  OBVIOUS
<1> HIDE DEF h
<1>3. IsOurs(f, ours, SUBSET B)
  <2>1. \E g : IsOurs(g, ours, SUBSET B)
    BY <1>1, AllSums
  <2> QED
    BY <2>1
<1> HIDE DEF f
<1>4. f[B] \in Nat
  BY <1>1, <1>2, <1>3, SumNumber
<1> QED
  BY <1>4 DEF f

\* The sum of prices nearby is a number, not less than how many they are.
LEMMA TheirsSum ==
  ASSUME NEW B, IsFiniteSet(B), \A d \in B : Price(d) \in Nat \ {0}
  PROVE  MapThenSumSet(Price, B) \in Nat /\ MapThenSumSet(Price, B) >= Cardinality(B)
<1> DEFINE h == [d \in B |-> Price(d)]
           f == CHOOSE g : IsTheirs(g, SUBSET B)
<1>1. ASSUME NEW g
      PROVE  IsTheirs(g, SUBSET B) <=> IsSum(g, h, SUBSET B)
  <2>1. \A s \in SUBSET B : s # {} => h[picked(s)] = Price(picked(s))
    BY DEF picked
  <2> HIDE DEF h
  <2> QED
    BY <2>1 DEF IsTheirs, IsSum
<1>2. \A d \in B : h[d] \in Nat /\ h[d] > 0
  OBVIOUS
<1> HIDE DEF h
<1>3. IsTheirs(f, SUBSET B)
  <2>1. \E g : IsTheirs(g, SUBSET B)
    BY <1>1, AllSums
  <2> QED
    BY <2>1
<1> HIDE DEF f
<1>4. f[B] \in Nat /\ f[B] >= Cardinality(B)
  <2>1. IsSum(f, h, SUBSET B)
    BY <1>1, <1>3
  <2> QED
    BY <1>2, <2>1, SumNumber
<1> QED
  BY <1>4, TheirsCounted DEF f

Pairs(R, U) == {p \in R \X U : p[2] \in open_times(p[1])}

\* The tables of all neighbours are as many as the pairs of one and its time.
LEMMA OffersSum ==
  ASSUME NEW B, IsFiniteSet(B)
  PROVE  LET offers(r) == Cardinality(open_times(r))
         IN  MapThenSumSet(offers, B) = Cardinality(Pairs(B, DinnerTimes))
<1> DEFINE h == [r \in B |-> Cardinality(open_times(r))]
           f == CHOOSE g : IsOffers(g, SUBSET B)
<1>1. ASSUME NEW g
      PROVE  IsOffers(g, SUBSET B) <=> IsSum(g, h, SUBSET B)
  <2>1. \A s \in SUBSET B : s # {} => h[picked(s)] = Cardinality(open_times(picked(s)))
    BY DEF picked
  <2> HIDE DEF h
  <2> QED
    BY <2>1 DEF IsOffers, IsSum
<1>2. IsOffers(f, SUBSET B)
  <2> HIDE DEF h
  <2>1. \E g : IsOffers(g, SUBSET B)
    BY <1>1, AllSums
  <2> QED
    BY <2>1
<1> HIDE DEF f, h
<1>3. \A s \in SUBSET B : f[s] = IF s = {} THEN 0 ELSE Cardinality(open_times(picked(s))) + f[s \ {picked(s)}]
  BY <1>2 DEF IsOffers
<1> DEFINE D == DinnerTimes
           S == {s \in SUBSET B : f[s] = Cardinality(Pairs(s, D))}
<1>4. \A s \in SUBSET B : IsFiniteSet(Pairs(s, D))
  <2> SUFFICES ASSUME NEW s \in SUBSET B
               PROVE  IsFiniteSet(Pairs(s, D))
    OBVIOUS
  <2>1. IsFiniteSet(s \X D)
    BY AreaAssumption, FS_Subset, FS_Product
  <2> QED
    BY <2>1, FS_Subset DEF Pairs
<1>5. {} \in S
  <2>1. f[{}] = 0 /\ Pairs({}, D) = {}
    BY <1>3 DEF Pairs
  <2> QED
    BY <2>1, FS_EmptySet
<1>6. ASSUME NEW s \in SUBSET B, s # {}, s \ {picked(s)} \in S
      PROVE  s \in S
  <2> DEFINE x == picked(s)
             r == s \ {x}
             one == {x} \X open_times(x)
  <2>1. x \in s /\ r \in SUBSET B
    BY <1>6 DEF picked
  <2>2. f[s] = Cardinality(open_times(x)) + Cardinality(Pairs(r, D))
    BY <1>3, <1>6
  <2> HIDE DEF x
  <2>3. open_times(x) \subseteq D /\ IsFiniteSet(open_times(x))
    <3>1. open_times(x) \subseteq D
      BY DEF open_times
    <3> QED
      BY <3>1, AreaAssumption, FS_Subset
  <2>4. IsFiniteSet(one) /\ Cardinality(one) = Cardinality(open_times(x))
    <3>1. IsFiniteSet({x}) /\ Cardinality({x}) = 1
      BY FS_Singleton
    <3>2. IsFiniteSet(one) /\ Cardinality(one) = 1 * Cardinality(open_times(x))
      BY <2>3, <3>1, FS_Product
    <3>3. Cardinality(open_times(x)) \in Nat
      BY <2>3, FS_CardinalityType
    <3> QED
      BY <3>2, <3>3
  <2>5. Pairs(s, D) = Pairs(r, D) \cup one /\ Pairs(r, D) \cap one = {}
    BY <2>1, <2>3 DEF Pairs
  <2> HIDE DEF one, r
  <2>6. Cardinality(Pairs(s, D)) = Cardinality(Pairs(r, D)) + Cardinality(one)
    <3>1. IsFiniteSet(Pairs(r, D))
      BY <1>4, <2>1
    <3>2. Cardinality(Pairs(r, D)) \in Nat /\ Cardinality(one) \in Nat /\ Cardinality({}) = 0
      BY <2>4, <3>1, FS_CardinalityType, FS_EmptySet
    <3>3. Cardinality(Pairs(r, D) \cup one) = Cardinality(Pairs(r, D)) + Cardinality(one) - Cardinality(Pairs(r, D) \cap one)
      BY <2>4, <3>1, FS_Union
    <3>4. Cardinality(Pairs(r, D) \cap one) = 0
      BY <2>5, FS_EmptySet
    <3>5. Cardinality(Pairs(s, D)) = Cardinality(Pairs(r, D) \cup one)
      BY <2>5
    <3> QED
      BY <3>2, <3>3, <3>4, <3>5
  <2>7. Cardinality(Pairs(r, D)) \in Nat /\ Cardinality(one) \in Nat
    BY <1>4, <2>1, <2>4, FS_CardinalityType
  <2> QED
    BY <2>2, <2>4, <2>6, <2>7 DEF S
<1> HIDE DEF S
<1>7. SUBSET B \subseteq S
  BY <1>5, <1>6, PickInduction
<1>8. f[B] = Cardinality(Pairs(B, D))
  BY <1>7 DEF S
<1> QED
  BY <1>8, OffersCounted DEF f

\* When as many neighbours offer each time, that bounds the tables of all times.
LEMMA TimesBound ==
  ASSUME NEW R, IsFiniteSet(R), NEW lo \in Nat, NEW hi \in Nat, NEW U \in SUBSET DinnerTimes,
         \A t \in U : LET n == Cardinality({r \in R : t \in open_times(r)}) IN lo <= 100 * n /\ 100 * n <= hi
  PROVE  LET n == Cardinality(Pairs(R, U)) IN lo * Cardinality(U) <= 100 * n /\ 100 * n <= hi * Cardinality(U)
<1> DEFINE at(t) == {r \in R : t \in open_times(r)}
           S == {V \in SUBSET U : /\ lo * Cardinality(V) <= 100 * Cardinality(Pairs(R, V))
                                  /\ 100 * Cardinality(Pairs(R, V)) <= hi * Cardinality(V)}
<1>1. IsFiniteSet(U)
  BY AreaAssumption, FS_Subset
<1>2. \A V \in SUBSET U : IsFiniteSet(V) /\ IsFiniteSet(Pairs(R, V))
  <2> SUFFICES ASSUME NEW V \in SUBSET U
               PROVE  IsFiniteSet(V) /\ IsFiniteSet(Pairs(R, V))
    OBVIOUS
  <2>1. IsFiniteSet(V)
    BY <1>1, FS_Subset
  <2>2. IsFiniteSet(R \X V)
    BY <2>1, FS_Product
  <2> QED
    BY <2>1, <2>2, FS_Subset DEF Pairs
<1>3. {} \in S
  <2>1. Pairs(R, {}) = {}
    BY DEF Pairs
  <2> QED
    BY <2>1, FS_EmptySet
<1>4. ASSUME NEW V \in SUBSET U, NEW t \in U, V \in S, t \notin V
      PROVE  V \cup {t} \in S
  <2> DEFINE one == at(t) \X {t}
             n == Cardinality(at(t))
             k == Cardinality(V)
             m == Cardinality(Pairs(R, V))
  <2>1. IsFiniteSet(at(t)) /\ n \in Nat /\ lo <= 100 * n /\ 100 * n <= hi
    <3>1. IsFiniteSet(at(t))
      BY FS_Subset
    <3> QED
      BY <3>1, FS_CardinalityType
  <2>2. IsFiniteSet(one) /\ Cardinality(one) = n
    <3>1. IsFiniteSet({t}) /\ Cardinality({t}) = 1
      BY FS_Singleton
    <3>2. IsFiniteSet(one) /\ Cardinality(one) = n * 1
      BY <2>1, <3>1, FS_Product
    <3> HIDE DEF n, one
    <3> QED
      BY <2>1, <3>2
  <2>3. Pairs(R, V \cup {t}) = Pairs(R, V) \cup one /\ Pairs(R, V) \cap one = {}
    BY <1>4 DEF Pairs
  <2>4. k \in Nat /\ m \in Nat /\ Cardinality(V \cup {t}) = k + 1
    BY <1>2, <1>4, FS_AddElement, FS_CardinalityType
  <2>5. Cardinality(Pairs(R, V \cup {t})) = m + n
    <3> HIDE DEF one, n
    <3>1. Cardinality(Pairs(R, V) \cup one) = m + Cardinality(one) - Cardinality(Pairs(R, V) \cap one)
      BY <1>2, <2>2, FS_Union
    <3>2. Cardinality(Pairs(R, V) \cap one) = 0
      BY <2>3, FS_EmptySet
    <3>3. Cardinality(Pairs(R, V \cup {t})) = Cardinality(Pairs(R, V) \cup one)
      BY <2>3
    <3>4. m \in Nat /\ n \in Nat /\ Cardinality(one) = n
      BY <2>1, <2>2, <2>4
    <3> HIDE DEF m
    <3> QED
      BY <3>1, <3>2, <3>3, <3>4
  <2>6. lo * k <= 100 * m /\ 100 * m <= hi * k
    BY <1>4
  <2> HIDE DEF n, k, m, one
  <2>7. lo * (k + 1) <= 100 * (m + n) /\ 100 * (m + n) <= hi * (k + 1)
    <3>1. lo * (k + 1) = lo * k + lo /\ hi * (k + 1) = hi * k + hi /\ lo * k \in Nat /\ hi * k \in Nat
      BY <2>4
    <3> QED
      BY <2>1, <2>4, <2>6, <3>1
  <2> QED
    BY <2>4, <2>5, <2>7
<1> HIDE DEF S
<1>5. SUBSET U \subseteq S
  BY <1>1, <1>3, <1>4, SubsetInduction
<1>6. U \in S
  BY <1>5
<1> QED
  BY <1>6 DEF S

\* The badge of how full the area is goes with a chart that says the same for
\* every time.
LEMMA BadgeAgrees ==
  ASSUME NEW asked \in (SUBSET DOMAIN Area) \ {{}}
  PROVE  LET chart == _aggregate_slot_availability_by_time(asked)
             all(signal) == \A t \in DOMAIN chart : chart[t].signal = signal
         IN  /\ all("HIGH") => occupancy_signal(asked) # "LOW"
             /\ all("LOW") /\ DOMAIN chart = DinnerTimes => occupancy_signal(asked) = "LOW"
<1> DEFINE chart == _aggregate_slot_availability_by_time(asked)
           n == Cardinality(asked)
           U == DOMAIN chart
           count(t) == Cardinality({r \in asked : t \in open_times(r)})
           total == Cardinality(Pairs(asked, DinnerTimes))
<1>1. IsFiniteSet(asked) /\ n \in Nat \ {0}
  <2>1. IsFiniteSet(asked)
    BY AreaAssumption, FS_Subset
  <2> QED
    BY <2>1, FS_CardinalityType, FS_EmptySet
<1>2. U = UNION {open_times(r) : r \in asked} /\ U \subseteq DinnerTimes
  BY DEF _aggregate_slot_availability_by_time, open_times
<1>3. \A t \in U : chart[t].signal = _compute_time_bucket_signal(count(t), n)
  BY <1>2 DEF _aggregate_slot_availability_by_time
<1>4. \A t : count(t) \in Nat /\ count(t) <= n
  <2> SUFFICES ASSUME NEW t
               PROVE  count(t) \in Nat /\ count(t) <= n
    OBVIOUS
  <2>1. IsFiniteSet({r \in asked : t \in open_times(r)}) /\ count(t) <= n
    BY <1>1, FS_Subset
  <2> QED
    BY <2>1, FS_CardinalityType
<1>5. Pairs(asked, U) = Pairs(asked, DinnerTimes)
  BY <1>2 DEF Pairs
<1>6. total \in Nat
  <2>1. IsFiniteSet(asked \X DinnerTimes)
    BY <1>1, AreaAssumption, FS_Product
  <2>2. IsFiniteSet(Pairs(asked, DinnerTimes))
    BY <2>1, FS_Subset DEF Pairs
  <2> QED
    BY <2>2, FS_CardinalityType
<1>7. occupancy_signal(asked) = _compute_signal(total, n)
  BY <1>1, OffersSum DEF occupancy_signal
<1>8. Cardinality(U) \in Nat /\ Cardinality(U) <= 6
  BY <1>2, AreaAssumption, FS_Subset, FS_CardinalityType
<1> HIDE DEF chart, n, U, count, total
<1>9. ASSUME \A t \in U : chart[t].signal = "HIGH"
      PROVE  occupancy_signal(asked) # "LOW"
  <2>1. \A t \in U : 0 <= 100 * count(t) /\ 100 * count(t) <= 34 * n
    BY <1>1, <1>3, <1>4, <1>9 DEF _compute_time_bucket_signal
  <2> DEFINE hi == 34 * n
             lo == 0
  <2>2. hi \in Nat /\ lo \in Nat
    BY <1>1
  <2>3. \A t \in U : lo <= 100 * count(t) /\ 100 * count(t) <= hi
    BY <2>1
  <2> HIDE DEF lo
  <2>4. 100 * total <= hi * Cardinality(U)
    <3> HIDE DEF hi
    <3> QED
      BY <1>1, <1>2, <1>5, <2>2, <2>3, TimesBound DEF count, total
  <2>5. hi * Cardinality(U) <= 204 * n
    <3> DEFINE k == Cardinality(U)
    <3>1. k \in Nat /\ k <= 6
      BY <1>8
    <3> HIDE DEF k
    <3>2. n * k <= n * 6
      BY <1>1, <3>1
    <3>3. hi * k = 34 * (n * k) /\ n * k \in Nat
      BY <1>1, <3>1
    <3> QED
      BY <1>1, <3>2, <3>3 DEF k
  <2>6. hi * Cardinality(U) \in Nat
    BY <1>8, <2>2
  <2>7. ~(total > 4 * n)
    <3> HIDE DEF hi
    <3> QED
      BY <1>1, <1>6, <2>4, <2>5, <2>6
  <2> QED
    BY <1>1, <1>6, <1>7, <2>7 DEF _compute_signal
<1>10. ASSUME \A t \in U : chart[t].signal = "LOW", U = DinnerTimes
       PROVE  occupancy_signal(asked) = "LOW"
  <2>1. \A t \in U : 67 * n <= 100 * count(t) /\ 100 * count(t) <= 100 * n
    BY <1>1, <1>3, <1>4, <1>10 DEF _compute_time_bucket_signal
  <2> DEFINE hi == 100 * n
             lo == 67 * n
  <2>2. hi \in Nat /\ lo \in Nat
    BY <1>1
  <2>3. \A t \in U : lo <= 100 * count(t) /\ 100 * count(t) <= hi
    BY <2>1
  <2>4. lo * Cardinality(U) <= 100 * total
    <3> HIDE DEF hi, lo
    <3> QED
      BY <1>1, <1>2, <1>5, <2>2, <2>3, TimesBound DEF count, total
  <2>5. Cardinality(U) = 6
    BY <1>10, AreaAssumption
  <2>6. total > 4 * n
    BY <1>1, <1>6, <2>4, <2>5
  <2> QED
    BY <1>1, <1>6, <1>7, <2>6 DEF _compute_signal
<1> QED
  BY <1>9, <1>10 DEF chart, U

\* The rank leaves room for the dearer neighbours, and is first exactly if none is
\* cheaper.
LEMMA RanksLeaveRoom ==
  ASSUME NEW ours, IsFiniteSet(DOMAIN ours), \A i \in DOMAIN ours : ours[i].price \in Nat
  PROVE  LET mine == _compute_positioning(DOMAIN Area, ours)
             area == _compute_landscape_summary(DOMAIN Area)
         IN  mine.total > 0 =>
               /\ mine.rank + mine.cheaper_than <= mine.total
               /\ mine.rank = 1 <=> mine.your_cost_for_two_estimate <= area.cost_for_two_min
<1> DEFINE near == DOMAIN Area
           price(i) == ours[i].price
           priced == {i \in DOMAIN ours : price(i) > 0}
           for_two == Rounded(2 * MapThenSumSet(price, priced), Cardinality(priced))
           below == {r \in near : Area[r].cost_for_two < for_two}
           above == {r \in near : Area[r].cost_for_two > for_two}
           costs == {Area[r].cost_for_two : r \in near}
           mine == _compute_positioning(near, ours)
           area == _compute_landscape_summary(near)
<1>1. CASE near = {} \/ priced = {}
  <2>1. mine.total = 0
    BY <1>1 DEF _compute_positioning
  <2> QED
    BY <2>1
<1>2. CASE near # {} /\ priced # {}
  <2>1. /\ mine = [total |-> Cardinality(near) + 1, your_cost_for_two_estimate |-> for_two,
                   rank |-> Cardinality(below) + 1, cheaper_than |-> Cardinality(above)]
        /\ area.cost_for_two_min = Min(costs)
    BY <1>2 DEF _compute_positioning, _compute_landscape_summary
  <2>2. for_two \in Int
    <3> DEFINE sum == MapThenSumSet(price, priced)
    <3>1. IsFiniteSet(priced) /\ \A i \in priced : ours[i].price \in Nat
      BY FS_Subset
    <3>2. sum \in Nat
      <4> HIDE DEF priced
      <4>1. (CHOOSE f : IsOurs(f, ours, SUBSET priced))[priced] \in Nat
        BY <3>1, OursSum
      <4>2. sum = (CHOOSE f : IsOurs(f, ours, SUBSET priced))[priced]
        BY DEF MapThenSumSet, MapThenFoldSet, IsOurs, picked
      <4> QED
        BY <4>1, <4>2
    <3>3. Cardinality(priced) \in Nat \ {0}
      BY <1>2, <3>1, FS_CardinalityType, FS_EmptySet
    <3> HIDE DEF sum, priced
    <3>4. 2 * sum \in Int
      BY <3>2
    <3>5. Rounded(2 * sum, Cardinality(priced)) \in Int
      BY <3>3, <3>4, RoundedWhole
    <3> QED
      BY <3>5 DEF sum
  <2> HIDE DEF for_two, price, priced
  <2>3. /\ IsFiniteSet(near) /\ IsFiniteSet(below) /\ IsFiniteSet(above)
        /\ Cardinality(near) \in Nat /\ Cardinality(below) \in Nat /\ Cardinality(above) \in Nat
    <3>1. IsFiniteSet(near) /\ IsFiniteSet(below) /\ IsFiniteSet(above)
      BY AreaAssumption, FS_Subset
    <3> QED
      BY <3>1, FS_CardinalityType
  <2>4. \A r \in near : Area[r].cost_for_two \in Int
    BY AreaAssumption
  <2>5. Cardinality(below) + Cardinality(above) <= Cardinality(near)
    <3>1. below \cap above = {}
      BY <2>2, <2>4
    <3>2. Cardinality(below \cup above) <= Cardinality(near)
      <4>1. below \cup above \subseteq near
        OBVIOUS
      <4> HIDE DEF below, above
      <4> QED
        BY <2>3, <4>1, FS_Subset
    <3> HIDE DEF below, above
    <3>3. Cardinality(below \cup above) = Cardinality(below) + Cardinality(above) - Cardinality(below \cap above)
      BY <2>3, FS_Union
    <3>4. Cardinality(below \cap above) = 0
      BY <3>1, FS_EmptySet
    <3> QED
      BY <2>3, <3>2, <3>3, <3>4
  <2>6. Cardinality(below) = 0 <=> for_two <= Min(costs)
    <3>1. IsFiniteSet(costs)
      <4> DEFINE f == [r \in near |-> Area[r].cost_for_two]
      <4>1. f \in Surjection(near, costs)
        BY DEF Surjection
      <4> HIDE DEF f, costs
      <4> QED
        BY <2>3, <4>1, FS_Surjection
    <3>2. costs \subseteq Int /\ costs # {}
      BY <1>2, <2>4
    <3>3. Min(costs) \in costs /\ \A y \in costs : Min(costs) <= y
      <4> HIDE DEF costs
      <4> QED
        BY <3>1, <3>2, Extremes
    <3>4. Cardinality(below) = 0 <=> below = {}
      BY <2>3, FS_EmptySet
    <3>5. below = {} <=> \A y \in costs : for_two <= y
      BY <2>2, <2>4
    <3>6. (\A y \in costs : for_two <= y) <=> for_two <= Min(costs)
      <4> DEFINE k == Min(costs)
      <4>1. k \in costs /\ k \in Int /\ \A y \in costs : k <= y /\ y \in Int
        BY <3>2, <3>3
      <4> HIDE DEF costs, k
      <4>2. (\A y \in costs : for_two <= y) <=> for_two <= k
        BY <2>2, <4>1
      <4> QED
        BY <4>2 DEF k
    <3> QED
      BY <3>4, <3>5, <3>6
  <2> HIDE DEF below, above, costs, near
  <2>7. mine.rank = Cardinality(below) + 1 /\ mine.cheaper_than = Cardinality(above)
        /\ mine.total = Cardinality(near) + 1 /\ mine.your_cost_for_two_estimate = for_two
    BY <2>1
  <2> HIDE DEF mine, area
  <2>8. mine.rank + mine.cheaper_than <= mine.total
    BY <2>3, <2>5, <2>7
  <2>9. mine.rank = 1 <=> mine.your_cost_for_two_estimate <= area.cost_for_two_min
    BY <2>1, <2>3, <2>6, <2>7
  <2> QED
    BY <2>8, <2>9 DEF mine, area, near
<1> QED
  BY <1>1, <1>2

\* Finitely many dishes are read.
LEMMA DishesFinite ==
  ASSUME NEW menus \in SUBSET DOMAIN Area
  PROVE  IsFiniteSet(dishes(menus))
<1> DEFINE lengths == {Len(Area[r].dishes) : r \in menus}
           all == {0} \cup lengths
           last == Max(all)
<1>1. IsFiniteSet(menus)
  BY AreaAssumption, FS_Subset
<1>2. IsFiniteSet(lengths)
  <2> DEFINE f == [r \in menus |-> Len(Area[r].dishes)]
  <2>1. f \in Surjection(menus, lengths)
    BY DEF Surjection
  <2> HIDE DEF f, lengths
  <2> QED
    BY <1>1, <2>1, FS_Surjection
<1>3. IsFiniteSet(all) /\ all \subseteq Int /\ all # {}
  <2>1. lengths \subseteq Nat
    BY AreaAssumption
  <2>2. IsFiniteSet({0})
    BY FS_Singleton
  <2> HIDE DEF lengths
  <2>3. IsFiniteSet({0} \cup lengths)
    BY <1>2, <2>2, FS_Union
  <2>4. {0} \cup lengths \subseteq Int /\ {0} \cup lengths # {}
    BY <2>1
  <2> QED
    BY <2>3, <2>4
<1> HIDE DEF all
<1>4. last \in Int
  BY <1>3, Extremes
<1> HIDE DEF last
<1>5. IsFiniteSet(1 .. last)
  BY <1>4, FS_Interval
<1>6. IsFiniteSet(menus \X (1 .. last))
  BY <1>1, <1>5, FS_Product
<1>7. dishes(menus) \subseteq menus \X (1 .. last)
  BY DEF dishes, last, all
<1> QED
  BY <1>6, <1>7, FS_Subset

\* The average of a dish is a price.
LEMMA AveragesPositive ==
  ASSUME NEW menus \in SUBSET DOMAIN Area, NEW name \in DOMAIN area_avg(menus)
  PROVE  area_avg(menus)[name] \in Nat \ {0}
<1> DEFINE ds == called(menus, name)
<1>1. area_avg(menus)[name] = average(ds) /\ name \in {Dish(d).name : d \in dishes(menus)}
  BY DEF area_avg
<1>2. IsFiniteSet(ds) /\ ds # {}
  <2>1. ds \subseteq dishes(menus)
    BY DEF called
  <2>2. ds # {}
    BY <1>1 DEF called
  <2> HIDE DEF ds
  <2> QED
    BY <2>1, <2>2, DishesFinite, FS_Subset
<1>3. \A d \in ds : Price(d) \in Nat \ {0}
  BY AreaAssumption DEF called, dishes, Price, Dish
<1> HIDE DEF ds
<1> DEFINE sum == MapThenSumSet(Price, ds)
           n == Cardinality(ds)
<1>4. sum \in Nat /\ sum >= n /\ n \in Nat \ {0}
  BY <1>2, <1>3, TheirsSum, FS_CardinalityType, FS_EmptySet
<1> HIDE DEF sum, n
<1>5. Rounded(100 * sum, n) \in Nat \ {0}
  <2> DEFINE x == Rounded(100 * sum, n)
  <2>1. 100 * sum \in Nat
    BY <1>4
  <2>2. x \in Nat /\ 2 * (100 * sum) <= 2 * (n * x) + n
    BY <1>4, <2>1, RoundedNear
  <2> HIDE DEF x
  <2>3. x # 0
    <3>1. x = 0 => n * x = 0
      BY <1>4
    <3> QED
      BY <1>4, <2>2, <3>1
  <2> QED
    BY <2>2, <2>3 DEF x
<1> QED
  BY <1>1, <1>5 DEF average, sum, n

\* Of the items off their averages, one is farther than another or the other is.
LEMMA FlaggedIsPriced ==
  ASSUME NEW avg, NEW ours, IsFiniteSet(DOMAIN ours), DOMAIN ours \subseteq Nat,
         \A j \in DOMAIN ours : ours[j].price \in Nat,
         \A name \in DOMAIN avg : avg[name] \in Nat \ {0},
         NEW i \in _generate_alerts(avg, ours)
  PROVE  LET top == _compute_pricing_impact(avg, ours)
         IN  i \in top \/ Cardinality(top) = 5
<1> DEFINE off == {j \in comparable(avg, ours) : 20 * Magnitude(gap(avg, ours[j])) >= avg[ours[j].name]}
           ahead == [j \in off |-> {k \in off : farther(avg, ours, k, j)}]
           m(j) == Magnitude(gap(avg, ours[j]))
           a(j) == avg[ours[j].name]
<1>1. \A j \in comparable(avg, ours) :
        /\ j \in DOMAIN ours /\ j \in Nat /\ a(j) \in Nat \ {0}
        /\ gap(avg, ours[j]) \in Int
  <2> SUFFICES ASSUME NEW j \in comparable(avg, ours)
               PROVE  /\ j \in DOMAIN ours /\ j \in Nat /\ a(j) \in Nat \ {0}
                      /\ gap(avg, ours[j]) \in Int
    OBVIOUS
  <2>1. j \in DOMAIN ours /\ j \in Nat /\ a(j) \in Nat \ {0} /\ ours[j].price \in Nat
    BY DEF comparable
  <2> HIDE DEF a
  <2>2. gap(avg, ours[j]) = 100 * ours[j].price - a(j)
    BY DEF gap, a
  <2> QED
    BY <2>1, <2>2
<1>2. \A j \in comparable(avg, ours) : m(j) \in Nat /\ m(j) >= gap(avg, ours[j])
  BY <1>1 DEF Magnitude
<1>3. i \in off
  <2>1. i \in comparable(avg, ours) /\ 10 * gap(avg, ours[i]) > a(i)
    BY DEF _generate_alerts
  <2> DEFINE g == gap(avg, ours[i])
  <2>2. g \in Int /\ a(i) \in Nat \ {0} /\ m(i) \in Nat /\ m(i) >= g /\ 10 * g > a(i)
    BY <1>1, <1>2, <2>1
  <2>3. 20 * m(i) >= a(i)
    <3> HIDE DEF a, m, g
    <3> QED
      BY <2>2
  <2> QED
    BY <2>1, <2>3
<1>4. IsFiniteSet(off)
  <2>1. off \subseteq DOMAIN ours
    BY <1>1
  <2> QED
    BY <2>1, FS_Subset
<1>5. \A j \in off : j \in Nat /\ a(j) \in Nat \ {0} /\ m(j) \in Nat
  BY <1>1, <1>2
<1>6. \A j, k \in off : j \in ahead[k] <=> m(j) * a(k) > m(k) * a(j) \/ (m(j) * a(k) = m(k) * a(j) /\ j < k)
  BY DEF farther
<1>7. \A j \in off : ahead[j] = {k \in off : farther(avg, ours, k, j)}
  OBVIOUS
<1>8. _compute_pricing_impact(avg, ours) = {j \in off : Cardinality(ahead[j]) < 5}
  BY <1>7 DEF _compute_pricing_impact
<1>9. ahead \in [off -> SUBSET off]
  OBVIOUS
<1> HIDE DEF off, ahead, m, a
<1>10. \A j, k \in off : m(j) * a(k) \in Int
  BY <1>5
<1>11. \A j \in off : j \notin ahead[j]
  BY <1>5, <1>6, <1>10
<1>12. \A j, k \in off : j # k => j \in ahead[k] \/ k \in ahead[j]
  <2> SUFFICES ASSUME NEW j \in off, NEW k \in off, j # k
               PROVE  j \in ahead[k] \/ k \in ahead[j]
    OBVIOUS
  <2> DEFINE x == m(j) * a(k)
             y == m(k) * a(j)
  <2>1. x \in Int /\ y \in Int /\ j \in Nat /\ k \in Nat
    BY <1>5, <1>10
  <2>2. /\ j \in ahead[k] <=> x > y \/ (x = y /\ j < k)
        /\ k \in ahead[j] <=> y > x \/ (y = x /\ k < j)
    BY <1>6
  <2> HIDE DEF x, y
  <2> QED
    BY <2>1, <2>2
<1>13. \A j, k, l \in off : j \in ahead[k] /\ k \in ahead[l] => j \in ahead[l]
  <2> SUFFICES ASSUME NEW j \in off, NEW k \in off, NEW l \in off, j \in ahead[k], k \in ahead[l]
               PROVE  j \in ahead[l]
    OBVIOUS
  <2> DEFINE jk == m(j) * a(k)
             kj == m(k) * a(j)
             kl == m(k) * a(l)
             lk == m(l) * a(k)
             jl == m(j) * a(l)
             lj == m(l) * a(j)
  <2>1. jk \in Int /\ kj \in Int /\ kl \in Int /\ lk \in Int /\ jl \in Int /\ lj \in Int
        /\ j \in Nat /\ k \in Nat /\ l \in Nat
    BY <1>5, <1>10
  <2>2. /\ jk > kj \/ (jk = kj /\ j < k)
        /\ kl > lk \/ (kl = lk /\ k < l)
        /\ j \in ahead[l] <=> jl > lj \/ (jl = lj /\ j < l)
    BY <1>6
  <2>3. jk >= kj /\ kl >= lk
    <3> HIDE DEF jk, kj, kl, lk, jl, lj
    <3> QED
      BY <2>1, <2>2
  <2>4. m(j) \in Int /\ m(k) \in Int /\ m(l) \in Int /\ a(j) \in Nat \ {0} /\ a(k) \in Nat \ {0} /\ a(l) \in Nat \ {0}
    BY <1>5
  <2>5. jl >= lj /\ (jl = lj => jk = kj /\ kl = lk)
    <3> DEFINE x == m(j)
               y == m(k)
               z == m(l)
               b == a(j)
               c == a(k)
               d == a(l)
    <3>1. /\ x \in Int /\ y \in Int /\ z \in Int
          /\ b \in Nat \ {0} /\ c \in Nat \ {0} /\ d \in Nat \ {0}
          /\ x * c >= y * b /\ y * d >= z * c
      BY <2>3, <2>4
    <3> HIDE DEF x, y, z, b, c, d
    <3>2. x * d >= z * b /\ (x * d = z * b => x * c = y * b /\ y * d = z * c)
      BY <3>1, FractionsInOrder
    <3> QED
      BY <3>2 DEF x, y, z, b, c, d
  <2> HIDE DEF jk, kj, kl, lk, jl, lj
  <2> QED
    BY <2>1, <2>2, <2>5
<1>14. \A j, k \in off : j \in ahead[k] => ahead[j] \subseteq ahead[k]
  BY <1>13, <1>9
<1>15. Cardinality(ahead[i]) < 5 \/ Cardinality({j \in off : Cardinality(ahead[j]) < 5}) = 5
  BY <1>3, <1>4, <1>11, <1>12, <1>14, <1>9, FirstFive
<1> QED
  BY <1>3, <1>8, <1>15

\* It is above the average on the market page, unless a later item has its name.
LEMMA FlaggedIsAbove ==
  ASSUME NEW avg, NEW ours, IsFiniteSet(DOMAIN ours), DOMAIN ours \subseteq Nat,
         \A j \in DOMAIN ours : ours[j].price \in Nat,
         \A name \in DOMAIN avg : avg[name] \in Nat \ {0},
         NEW i \in _generate_alerts(avg, ours)
  PROVE  \/ comparisons(avg, ours)[ours[i].name] = "above"
         \/ \E j \in DOMAIN ours : j > i /\ ours[j].name = ours[i].name
<1> DEFINE name == ours[i].name
           twins == {j \in DOMAIN ours : ours[j].name = name}
           g == gap(avg, ours[i])
<1>1. i \in DOMAIN ours /\ name \in DOMAIN avg /\ 10 * g > avg[name]
  BY DEF _generate_alerts, comparable
<1>2. IsFiniteSet(twins) /\ twins \subseteq Int /\ i \in twins
  BY <1>1, FS_Subset
<1>3. Max(twins) \in twins /\ \A j \in twins : Max(twins) >= j
  <2>1. twins # {}
    BY <1>2
  <2> HIDE DEF twins
  <2> QED
    BY <1>2, <2>1, Extremes
<1>4. comparisons(avg, ours)[name] = IF gap(avg, ours[Max(twins)]) >= 0 THEN "above" ELSE "below"
  BY <1>1, <1>2 DEF comparisons
<1>5. CASE Max(twins) = i
  <2>1. g >= 0
    <3>1. g = 100 * ours[i].price - avg[name] /\ ours[i].price \in Nat /\ avg[name] \in Nat
      BY <1>1 DEF gap
    <3> HIDE DEF g, name
    <3> QED
      BY <1>1, <3>1
  <2> QED
    BY <1>4, <1>5, <2>1
<1>6. CASE Max(twins) # i
  <2>1. Max(twins) \in Int /\ i \in Int /\ Max(twins) >= i
    BY <1>2, <1>3
  <2>2. Max(twins) > i
    BY <1>6, <2>1
  <2> QED
    BY <1>3, <2>2
<1> QED
  BY <1>5, <1>6

\* Every step keeps the market's numbers of one area and one menu.
LEMMA MarketStaysTrue == MarketInv /\ [NumbersNext]_numbers => MarketInv'
<1> SUFFICES ASSUME MarketInv, [NumbersNext]_numbers, phase' = "assume"
             PROVE  MarketInv'
  BY DEF MarketInv
<1>1. CASE MarketIntel
  <2>1. PICK menus \in (SUBSET DOMAIN Area) \ {{}}, asked \in (SUBSET DOMAIN Area) \ {{}}, ours \in Menus :
          market' = [menus |-> menus, asked |-> asked, ours |-> ours,
                     competitor |-> competitor_context(menus, ours),
                     occupancy |-> occupancy_context(asked)]
    BY <1>1 DEF MarketIntel
  <2>2. /\ market'.ours = ours
        /\ market'.competitor = competitor_context(menus, ours)
        /\ market'.occupancy = occupancy_context(asked)
    BY <2>1
  <2> QED
    BY <2>2 DEF MarketInv
<1>2. CASE UNCHANGED numbers
  BY <1>2 DEF numbers, MarketInv, competitor_context, occupancy_context
<1>3. CASE NumbersNext /\ ~MarketIntel
  BY <1>3 DEF NumbersNext, MarketDown, MarketAssumptions, Preset, Recommended, derive_profile, compose,
    Profiled, demand_forecast_node, Agents, menu_intelligence_node, critic_node
<1> QED
  BY <1>1, <1>2, <1>3

\* Numbers of one area and one menu tell one story.
LEMMA MarketIsOfOneArea == MarketInv => MarketAgrees
<1> SUFFICES ASSUME MarketInv, phase = "assume"
             PROVE  MarketAgrees
  BY DEF MarketAgrees
<1>1. PICK menus \in (SUBSET DOMAIN Area) \ {{}}, asked \in (SUBSET DOMAIN Area) \ {{}}, ours \in Menus :
        /\ market.ours = ours
        /\ market.competitor = competitor_context(menus, ours)
        /\ market.occupancy = occupancy_context(asked)
  BY DEF MarketInv
<1> DEFINE avg == area_avg(menus)
           mine == market.competitor
<1>2. /\ mine.alerts = _generate_alerts(avg, ours) /\ mine.pricing_impact = _compute_pricing_impact(avg, ours)
      /\ mine.comparisons = comparisons(avg, ours)
      /\ mine.landscape = _compute_landscape_summary(DOMAIN Area)
      /\ mine.positioning = _compute_positioning(DOMAIN Area, ours)
      /\ market.occupancy.signal = occupancy_signal(asked)
      /\ market.occupancy.chart = _aggregate_slot_availability_by_time(asked)
  BY <1>1 DEF competitor_context, occupancy_context
<1>3. /\ IsFiniteSet(DOMAIN ours) /\ DOMAIN ours \subseteq Nat
      /\ \A i \in DOMAIN ours : ours[i].price \in Nat
  BY NumbersAssumption
<1>4. \A name \in DOMAIN avg : avg[name] \in Nat \ {0}
  BY AveragesPositive
<1> HIDE DEF avg, mine
<1>5. mine.positioning.total > 0 =>
        /\ mine.positioning.rank + mine.positioning.cheaper_than <= mine.positioning.total
        /\ mine.positioning.rank = 1 <=>
             mine.positioning.your_cost_for_two_estimate <= mine.landscape.cost_for_two_min
  BY <1>2, <1>3, RanksLeaveRoom
<1>6. ASSUME NEW i \in mine.alerts
      PROVE  /\ i \in mine.pricing_impact \/ Cardinality(mine.pricing_impact) = 5
             /\ \/ mine.comparisons[market.ours[i].name] = "above"
                \/ \E j \in DOMAIN market.ours : j > i /\ market.ours[j].name = market.ours[i].name
  <2>1. i \in _generate_alerts(avg, ours)
    BY <1>2
  <2>2. i \in mine.pricing_impact \/ Cardinality(mine.pricing_impact) = 5
    BY <1>2, <1>3, <1>4, <2>1, FlaggedIsPriced
  <2>3. \/ mine.comparisons[ours[i].name] = "above"
        \/ \E j \in DOMAIN ours : j > i /\ ours[j].name = ours[i].name
    BY <1>2, <1>3, <1>4, <2>1, FlaggedIsAbove
  <2> QED
    BY <1>1, <2>2, <2>3
<1>7. LET chart == market.occupancy.chart
          all(signal) == \A t \in DOMAIN chart : chart[t].signal = signal
      IN  /\ all("HIGH") => market.occupancy.signal # "LOW"
          /\ all("LOW") /\ DOMAIN chart = DinnerTimes => market.occupancy.signal = "LOW"
  BY <1>2, BadgeAgrees
<1> QED
  BY <1>5, <1>6, <1>7 DEF MarketAgrees, mine

\* The market's numbers tell one story, whatever the area and our menu: our rank
\* fits the neighbours that are cheaper and dearer, an item flagged as dear is
\* among the five farthest from their averages or five others are, and is above
\* on the market page, and the badge of how full the area is goes with its chart
\* (competitor.py:274-293, 447-483, 544-574, 641-658; market.py:295-324;
\* occupancy.py:463-473, 502-511).
THEOREM MarketTellsOneStory == NumbersSpec => []MarketAgrees
<1>1. NumbersInit => MarketInv
  BY DEF NumbersInit, MarketInv
<1> QED
  BY <1>1, MarketStaysTrue, MarketIsOfOneArea, PTL DEF NumbersSpec
=============================================================================
