--------------------------- MODULE SwiggyEnrichers ---------------------------
(* The three enrichers that read the market from Swiggy for a plan, for the  *)
(* market page and for the chat: competitor prices, how full the area is,    *)
(* and prices of ingredients that run short.  Each looks in Redis first,     *)
(* then makes a series of tool calls, any of which may fail, and stores what *)
(* it makes of them.  What it computes is in MarketRules.  An enrichment     *)
(* awaits every call, so several run interleaved.                            *)
EXTENDS MarketRules

CONSTANTS
  Enrichments,       \* calls of enrich(), each made once
  Contexts,          \* what they may be asked: kind, org, cuisine, our items, shortages
  Pages,             \* [cuisine -> the two pages of restaurants of a search]
  MaxMenus,          \* _MAX_MENU_CALLS
  MaxCoupons,        \* _MAX_COUPON_CALLS
  MaxSlotCalls,      \* _MAX_SLOT_CALLS
  MaxSearchCalls,    \* _MAX_SEARCH_CALLS
  TTL,               \* _CACHE_TTL, in ticks
  Patience,          \* the most ticks an enrichment takes
  MaxClock,          \* bound of the model on the clock
  None

Restaurants == DOMAIN Area

ASSUME EnricherAssumption ==
  /\ {MaxMenus, MaxCoupons, MaxSlotCalls, MaxSearchCalls, TTL, Patience, MaxClock} \subseteq Nat
  /\ TTL > 0
  /\ \A c \in DOMAIN Pages : \A p \in 1 .. 2 : Pages[c][p] \in Seq(Restaurants)
  /\ \A x \in Contexts : /\ x.kind \in {"competitor", "occupancy", "procurement"}
                         /\ x.cuisine \in DOMAIN Pages

VARIABLES
  clock,
  job,     \* job[e]: where enrichment e has got to, NoJob before it starts
  cache    \* entries in Redis, one per key

vars == <<clock, job, cache>>

NoJob == [at |-> "idle"]
Running(e) == job[e].at \notin {"idle", "done"}

(* The key names neither the cuisine, nor the items, nor the shortages.      *)
\* As cache_key, the organization left out.
cache_key_shared(ctx) == <<ctx.kind>>
cache_key(ctx) == <<ctx.kind, ctx.org>>

_cache_get(ctx) == {x \in cache : x.key = cache_key(ctx) /\ clock < x.until}

\* The enrichment is over, with a result, or None.
Return(e, result, fetched) ==
  job' = [job EXCEPT ![e] = [@ EXCEPT !.at = "done", !.todo = <<>>, !.found = <<>>, !.read = {}, !.menus = {},
            !.result = result, !.fetched = fetched, !.calls = 0]]

Start(e) ==
  /\ job[e].at = "idle"
  /\ \E ctx \in Contexts :
       LET begun == [at |-> ctx.kind, ctx |-> ctx, since |-> clock, todo |-> <<>>,
                     found |-> <<>>, read |-> {}, menus |-> {}, calls |-> 0,
                     result |-> None, fetched |-> FALSE]
       IN  \/ job' = [job EXCEPT ![e] = begun]  \* a miss, or Redis fails
           \/ \E x \in _cache_get(ctx) :
                job' = [job EXCEPT ![e] = [begun EXCEPT !.at = "done", !.result = x.result]]
  /\ UNCHANGED <<clock, cache>>

\* The stage of e is over: on to the next, with the calls it is to make.
Proceed(e, stage, todo) ==
  job' = [job EXCEPT ![e].at = stage, ![e].todo = todo, ![e].calls = 0]

\* One tool call, of the first item to do, that yields something or fails.
Called(e, item, ok) ==
  [job[e] EXCEPT !.todo = Tail(@), !.calls = @ + 1,
                 !.read = IF ok THEN @ \cup {item} ELSE @]

\* The result is stored, unless Redis fails, and returned.
_cache_set(e, result) ==
  \/ UNCHANGED cache
  \/ cache' = {x \in cache : x.key # cache_key(job[e].ctx)} \cup
       {[key |-> cache_key(job[e].ctx), until |-> clock + TTL, result |-> result]}

Store(e, result) == _cache_set(e, result) /\ Return(e, result, TRUE)

Giveup(e) == Return(e, None, TRUE) /\ UNCHANGED cache

-----------------------------------------------------------------------------
(* Competitors: open and not sponsored, each once, from the first page, and  *)
(* from the second when the first has fewer than five.                       *)
Unsponsored == {r \in Restaurants : ~Area[r].sponsored}
Rivals == {r \in Unsponsored : Area[r].open}

\* As organic, repeated ones kept.
organic_repeated(found, page) == found \o SelectSeq(page, LAMBDA r : r \in Rivals)

\* One restaurant of the page after the other.
organic(found, page) ==
  LET after[k \in 0 .. Len(page)] ==
        IF k = 0 THEN found
        ELSE IF page[k] \in Rivals /\ page[k] \notin Range(after[k - 1])
        THEN Append(after[k - 1], page[k])
        ELSE after[k - 1]
  IN  after[Len(page)]

_get_open_competitors(e) ==
  /\ job[e].at = "competitor"
  /\ LET j == job[e]
         page == Pages[j.ctx.cuisine][j.calls + 1]
         now == organic(j.found, page)
     IN  \/ job' = [job EXCEPT ![e] =     \* the page is there
                      [j EXCEPT !.found = now, !.calls = @ + 1,
                       !.at = IF j.calls = 1 \/ Len(now) >= 5 \/ page = <<>> THEN "found" ELSE @]]
         \/ job' = [job EXCEPT ![e] = [j EXCEPT !.at = "found"]]
  /\ UNCHANGED <<clock, cache>>

Found(e) ==
  /\ job[e].at = "found"
  /\ IF job[e].found = <<>> THEN Giveup(e)
     ELSE Proceed(e, "menus", job[e].found) /\ UNCHANGED cache
  /\ UNCHANGED clock

(* Menus, one restaurant after the other, until enough of them are read.     *)
enough(j) == Cardinality(j.read) >= MaxMenus

_fetch_menus(e) ==
  /\ job[e].at = "menus" /\ job[e].todo # <<>> /\ ~enough(job[e])
  /\ \E ok \in BOOLEAN : job' = [job EXCEPT ![e] = Called(e, Head(job[e].todo), ok)]
  /\ UNCHANGED <<clock, cache>>

\* The first few restaurants are asked for their coupons.
coupon_calls(found) == SubSeq(found, 1, Min({MaxCoupons, Len(found)}))

MenusRead(e) ==
  /\ job[e].at = "menus"
  /\ job[e].todo = <<>> \/ enough(job[e])
  /\ IF job[e].read = {} THEN Giveup(e)
     ELSE /\ job' = [job EXCEPT ![e] =
               [@ EXCEPT !.at = "coupons", !.calls = 0, !.todo = coupon_calls(job[e].found),
                         !.menus = job[e].read, !.read = {}]]
          /\ UNCHANGED cache
  /\ UNCHANGED clock

competitor_result(j) ==
  [kind |-> "competitor", ctx |-> j.ctx, at |-> clock, from |-> Range(j.found),
   menus |-> j.menus, dealing |-> {r \in j.read : Area[r].coupons > 0}]

_fetch_competitor_deals(e) ==
  /\ job[e].at = "coupons" /\ job[e].todo # <<>>
  /\ \E ok \in BOOLEAN : job' = [job EXCEPT ![e] = Called(e, Head(job[e].todo), ok)]
  /\ UNCHANGED <<clock, cache>>

CompetitorDone(e) ==
  /\ job[e].at = "coupons" /\ job[e].todo = <<>>
  /\ Store(e, competitor_result(job[e]))
  /\ UNCHANGED clock

-----------------------------------------------------------------------------
(* Occupancy: a saved location, a search and its rendering, then the slots   *)
(* of the first few neighbours and their offers.  A call that fails before   *)
(* the slots ends the enrichment; none of the slots, too.                    *)
\* The restaurants of the page that are in S, in its order.
listed(page, S) ==
  LET after[k \in 0 .. Len(page)] ==
        IF k = 0 THEN <<>>
        ELSE IF page[k] \in S THEN Append(after[k - 1], page[k])
        ELSE after[k - 1]
  IN  after[Len(page)]

\* The sponsored are left out, the closed are not; which of the others are
\* rendered is Dineout's choice.
_get_competitors(e) ==
  /\ job[e].at = "occupancy"
  /\ LET page == Pages[job[e].ctx.cuisine][1]
     IN  \/ \E rendered \in SUBSET (Unsponsored \cap Range(page)) \ {{}} :
              LET near == listed(page, rendered)
                  asked == SubSeq(near, 1, Min({MaxSlotCalls, Len(near)}))
              IN  /\ job' = [job EXCEPT ![e] = [@ EXCEPT !.at = "slots", !.todo = asked,
                                                        !.found = asked]]
                  /\ UNCHANGED cache
         \/ Giveup(e)
  /\ UNCHANGED clock

_fetch_slot_counts(e) ==
  /\ job[e].at = "slots" /\ job[e].todo # <<>>
  /\ \E ok \in BOOLEAN : job' = [job EXCEPT ![e] = Called(e, Head(job[e].todo), ok)]
  /\ UNCHANGED <<clock, cache>>

occupancy_result(j, offering) ==
  [kind |-> "occupancy", ctx |-> j.ctx, at |-> clock, from |-> j.read, dealing |-> offering]

\* The offers are asked of the same neighbours, whether or not their slots came;
\* any of the calls may fail.
OccupancyDone(e) ==
  /\ job[e].at = "slots" /\ job[e].todo = <<>>
  /\ IF job[e].read = {} THEN Giveup(e)
     ELSE \E told \in SUBSET Range(job[e].found) :
            Store(e, occupancy_result(job[e], {r \in told : Area[r].offers}))
  /\ UNCHANGED clock

-----------------------------------------------------------------------------
(* Procurement: the ingredients that run short, as many as the budget allows.*)
_search_shortage_items(e) ==
  /\ job[e].at = "procurement"
  /\ LET short == job[e].ctx.shortages
     IN  Proceed(e, "searching", SubSeq(short, 1, Min({MaxSearchCalls, Len(short)})))
  /\ UNCHANGED <<clock, cache>>

Search(e) ==
  /\ job[e].at = "searching" /\ job[e].todo # <<>>
  /\ \E ok \in BOOLEAN : job' = [job EXCEPT ![e] = Called(e, Head(job[e].todo), ok)]
  /\ UNCHANGED <<clock, cache>>

ProcurementDone(e) ==
  /\ job[e].at = "searching" /\ job[e].todo = <<>>
  /\ IF job[e].read = {} THEN Giveup(e)
     ELSE Store(e, [kind |-> "procurement", ctx |-> job[e].ctx, at |-> clock,
                    options |-> job[e].read])
  /\ UNCHANGED clock

Tick ==
  /\ clock < MaxClock
  /\ \A e \in Enrichments : Running(e) => clock - job[e].since < Patience
  /\ clock' = clock + 1
  /\ UNCHANGED <<job, cache>>

-----------------------------------------------------------------------------
Init == clock = 0 /\ job = [e \in Enrichments |-> NoJob] /\ cache = {}

enrich(e) ==
  \/ Start(e)
  \/ _get_open_competitors(e)
  \/ Found(e)
  \/ _fetch_menus(e)
  \/ MenusRead(e)
  \/ _fetch_competitor_deals(e)
  \/ CompetitorDone(e)
  \/ _get_competitors(e)
  \/ _fetch_slot_counts(e)
  \/ OccupancyDone(e)
  \/ _search_shortage_items(e)
  \/ Search(e)
  \/ ProcurementDone(e)

Next == Tick \/ \E e \in Enrichments : enrich(e)

Spec == Init /\ [][Next]_vars
=============================================================================
