----------------------------- MODULE PlanNumbers -----------------------------
(* The numbers of one plan, in the order the graph computes them: the market *)
(* and what is assumed of it, the profile of the service, the forecast, then *)
(* what each agent makes of the same house and the same shelf, and what the  *)
(* critic's checks and scores make of the agents.  PlanningGraph has the     *)
(* interleavings of the agents; none of them reads another's numbers here    *)
(* before it is done.                                                        *)
EXTENDS MarketRules, StockRules, ReviewRules

CONSTANTS
  Menus,       \* our own menus
  Houses,      \* the capacity, the bookings of the day, whether our own dinner slots are low
  Shelves,     \* the items in stock
  Demands,     \* four weekdays of orders, Prophet's answer, the evening's weather
  Texts,       \* what the model adds: waste lines, guests it mentions, in the reservations' own
               \* advice and elsewhere in the plan, staff and prep it asks for
  Packs,       \* Instamart's offers: [ingredient -> quantity of a pack]
  Windows,     \* service windows the model answers with
  Missing

\* A house has seats, and some bookings of some guests each; a window is two
\* numbers, for it is not checked that a day has such hours.  Stocks and numbers
\* of orders, staff and steps are not negative; Prophet's answer may be, if there
\* is one.
ASSUME NumbersAssumption ==
  /\ \A house \in Houses : /\ house.capacity \in Nat \ {0} /\ IsFiniteSet(house.bookings)
                          /\ \A b \in house.bookings : b.guests \in Nat
  /\ Windows \subseteq Nat \X Nat
  /\ \A ours \in Menus : /\ IsFiniteSet(DOMAIN ours) /\ DOMAIN ours \subseteq Nat
                         /\ \A i \in DOMAIN ours : ours[i].price \in Nat
  /\ \A shelf \in Shelves :
       /\ IsFiniteSet(DOMAIN shelf)
       /\ \A i \in DOMAIN shelf : shelf[i].stock \in Nat /\ shelf[i].threshold \in Nat
  /\ \A t \in Texts : t.staff \in Nat /\ t.complexity \in Nat
  /\ \A d \in Demands : d.history \in [1 .. 4 -> Nat] /\ (d.yhat # Missing => d.yhat \in Int)

VARIABLES
  phase,       \* the step of the plan that comes next
  market,      \* the market's numbers, then what the plan assumes of them
  profile,     \* scenario_profile
  plan,        \* the agents' outputs
  report       \* the critic's checks and scores

numbers == <<phase, market, profile, plan, report>>

Down == [available |-> FALSE, alerts |-> 0, busy |-> FALSE, deals |-> 0]
NoPlan == <<>>

-----------------------------------------------------------------------------
(* The market: of some neighbours the menu was read, of some the dinner      *)
(* times and the offers.                                                     *)
competitor_context(menus, ours) ==
  LET avg == area_avg(menus)
  IN  [alerts |-> _generate_alerts(avg, ours),
       pricing_impact |-> _compute_pricing_impact(avg, ours),
       category_pricing |-> _compute_category_pricing(menus, ours),
       comparisons |-> comparisons(avg, ours),
       landscape |-> _compute_landscape_summary(DOMAIN Area),
       positioning |-> _compute_positioning(DOMAIN Area, ours),
       menu_breadth |-> _compute_menu_breadth(menus),
       veg_mix |-> _compute_veg_mix(DOMAIN Area)]

occupancy_context(asked) ==
  [signal |-> occupancy_signal(asked),
   chart |-> _aggregate_slot_availability_by_time(asked),
   deals |-> Cardinality({r \in asked : Area[r].offers})]

MarketIntel ==
  /\ phase = "market"
  /\ \E menus \in (SUBSET DOMAIN Area) \ {{}}, asked \in (SUBSET DOMAIN Area) \ {{}}, ours \in Menus :
       market' = [menus |-> menus, asked |-> asked, ours |-> ours,
                  competitor |-> competitor_context(menus, ours),
                  occupancy |-> occupancy_context(asked)]
  /\ phase' = "assume"
  /\ UNCHANGED <<profile, plan, report>>

\* What market_intel_node writes for the critic's diffs.
MarketAssumptions ==
  /\ phase = "assume"
  /\ market' = [available |-> TRUE, alerts |-> Cardinality(market.competitor.alerts),
                busy |-> market.occupancy.signal = "HIGH", deals |-> market.occupancy.deals]
  /\ phase' = "profile"
  /\ UNCHANGED <<profile, plan, report>>

MarketDown ==
  /\ phase = "market"
  /\ market' = Down
  /\ phase' = "profile"
  /\ UNCHANGED <<profile, plan, report>>

-----------------------------------------------------------------------------
(* The profile: a preset, the recommended one, one derived from the owner's  *)
(* words, or one composed for the rest of today.                             *)
Profiled(id, window, mention, date) ==
  \E house \in Houses, shelf \in Shelves :
    /\ profile' = [id |-> id, window |-> window, mention |-> mention,
                   holiday |-> date = "holiday", house |-> house, shelf |-> shelf]
    /\ phase' = "forecast"
    /\ UNCHANGED <<market, plan, report>>

Preset(scenario, date) ==
  phase = "profile" /\ Profiled(scenario, SCENARIO_DEFINITIONS[scenario], 0, date)

\* The shortages "right now", of a rush on an average Friday.
shortage_count(shelf) == Cardinality(compute_shortage_data(shelf, "friday_rush", <<1, 1>>).shortages)

Recommended(date) ==
  /\ phase = "profile"
  /\ \E scenario \in {recommend_fallback(date, shortage_count(shelf)) : shelf \in Shelves} :
       Profiled(scenario, SCENARIO_DEFINITIONS[scenario], 0, date)

\* The owner's words are the focus when the model's answer is malformed; the
\* window is checked to be two times of two digits each.
derive_profile(date) ==
  /\ phase = "profile"
  /\ \E window \in Windows \cup {<<18, 22>>}, t \in Texts : Profiled("custom", window, t.mention, date)

compose(date) ==
  /\ phase = "profile"
  /\ \E window \in Windows \cup {compose_fallback(hour) : hour \in 0 .. 23} :
       Profiled("live-composed", window, 0, date)

-----------------------------------------------------------------------------
demand_forecast_node ==
  /\ phase = "forecast"
  /\ \E d \in Demands :
       LET raw == calculate_forecast(d.history, d.yhat, Missing)
           weather == IF d.weather = Missing THEN 100 ELSE demand_multiplier_of(d.weather[1], d.weather[2])
       IN  plan' = [forecast |-> _apply_signal_adjustments(raw, weather, profile.holiday)]
  /\ phase' = "agents"
  /\ UNCHANGED <<market, profile, report>>

\* Of a node that fails nothing is known.
Unknown == [known |-> FALSE, occupancy_pct |-> 0, waitlist |-> 0, mention |-> 0]

(* What the node may write.  It fails when the model does or a query, and on *)
(* an hour that is none of the day.                                          *)
reservation(mention) ==
  LET house == profile.house
      data == get_service_reservations(house.bookings, profile.window, house.capacity)
      answer == [known |-> TRUE, occupancy_pct |-> data.occupancy_pct, waitlist |-> data.waitlist,
                 overbooking_risk |-> data.overbooking_risk,
                 mention |-> _sanitize_guest_language(mention, house.capacity, data.total)]
  IN  IF profile.window[1] > 23 \/ profile.window[2] > 23 THEN {Unknown} ELSE {Unknown, answer}

inventory(waste, packs) ==
  LET alerts == compute_shortage_data(profile.shelf, profile.id, demand_ratio(plan.forecast))
  IN  [alerts |-> alerts,
       recommendation |-> merge_guardrailed_recommendation(alerts, waste, packs)]

complaint(negative_pct) == [negative_pct |-> negative_pct, high_volume |-> negative_pct > 300]

Agents ==
  /\ phase = "agents"
  /\ \E t \in Texts, packs \in Packs, negative_pct \in {270, 350} :
       \E house \in reservation(t.mention) :
         plan' = [forecast |-> plan.forecast, text |-> t, packs |-> packs,
                  reservation |-> house,
                  inventory |-> inventory(t.waste, packs),
                  complaint |-> complaint(negative_pct),
                  dineout |-> [checked |-> market.available, low |-> profile.house.slots <= 2]]
  /\ phase' = "menu"
  /\ UNCHANGED <<market, profile, report>>

\* The menu reads the reservations' figure; without one it takes it there is room.
\* As menu, every house taken to have room.
menu_assuming_room == [covers_within_capacity |-> TRUE, items_available |-> TRUE]
menu ==
  [covers_within_capacity |->
     ~(plan.reservation.known /\ capacity_constrained(plan.reservation.occupancy_pct)),
   items_available |-> TRUE]

\* A menu node that fails assumes nothing.
Silent == [covers_within_capacity |-> FALSE, items_available |-> FALSE]

menu_intelligence_node ==
  /\ phase = "menu"
  /\ \E m \in {menu, Silent} :
       plan' = [f \in DOMAIN plan \cup {"menu"} |-> IF f = "menu" THEN m ELSE plan[f]]
  /\ phase' = "critic"
  /\ UNCHANGED <<market, profile, report>>

-----------------------------------------------------------------------------
severe(alerts) == {a \in alerts.shortages : a.critical}

scores(ratio, alerts, staff, complexity) ==
  evaluate_bundle(ratio, plan.reservation.occupancy_pct, plan.reservation.waitlist,
                  Cardinality(severe(alerts)), Cardinality(alerts.shortages) - Cardinality(severe(alerts)),
                  Cardinality(alerts.overstocks), staff, complexity)

\* Guests are looked for in the whole bundle, the owner's words and every agent's.
guests_mentioned == {profile.mention, plan.reservation.mention} \cup plan.text.elsewhere

check_bundle ==
  [quantities |-> _check_inventory_quantities(plan.inventory.alerts, plan.inventory.recommendation),
   policy |-> _check_capacity_and_staffing(guests_mentioned, profile.house.capacity, plan.text.staff),
   stale_assumptions |-> _diff_assumptions(plan.menu, plan.reservation, plan.complaint, market, plan.dineout),
   cost |-> scores(demand_ratio(plan.forecast), plan.inventory.alerts, plan.text.staff, plan.text.complexity)]

critic_node ==
  /\ phase = "critic"
  /\ report' = check_bundle
  /\ phase' = "done"
  /\ UNCHANGED <<market, profile, plan>>

-----------------------------------------------------------------------------
NumbersInit ==
  phase = "market" /\ market = Down /\ profile = Missing /\ plan = NoPlan /\ report = Missing

NumbersNext ==
  \/ MarketIntel
  \/ MarketDown
  \/ MarketAssumptions
  \/ \E date \in {"weekday", "weekend", "holiday"} :
       \/ \E scenario \in DOMAIN SCENARIO_DEFINITIONS : Preset(scenario, date)
       \/ Recommended(date)
       \/ derive_profile(date)
       \/ compose(date)
  \/ demand_forecast_node
  \/ Agents
  \/ menu_intelligence_node
  \/ critic_node

NumbersSpec == NumbersInit /\ [][NumbersNext]_numbers
=============================================================================
