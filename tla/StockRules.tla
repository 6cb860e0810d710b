----------------------------- MODULE StockRules -----------------------------
(* What InventoryService makes of the shelf: the stock a service will leave, *)
(* the alerts, the restock actions it puts in place of the model's, and the  *)
(* check of the quantities of a recommendation that the critic makes.  An    *)
(* item is a record of its name, the token its name is matched by, its stock *)
(* and threshold in hundredths of its unit, and whether it spoils.  A line   *)
(* of a recommendation is the ingredient it names and the quantities in it.  *)
EXTENDS Rounding

CONSTANT Within  \* pairs of names, the first of which occurs in the second

\* <<predicted orders, average orders>>; never below 0.85.
demand_multiplier(ratio) == IF 100 * ratio[1] >= 85 * ratio[2] THEN ratio ELSE <<85, 100>>
high_demand(ratio) == 100 * ratio[1] >= 115 * ratio[2]

(* Per cent of the threshold a service of a scenario draws.                  *)
rate(scenario, token) ==
  CASE scenario = "weekday_lunch" ->
         IF token \in {"buns", "cola", "sauce"} THEN 18 ELSE IF token = "pizza" THEN 8 ELSE 5
    [] scenario = "holiday_spike" ->
         IF token \in {"pizza", "sauce"} THEN 45
         ELSE IF token \in {"buns", "cola", "chicken", "paneer"} THEN 32 ELSE 16
    [] scenario = "low_stock_weekend" -> IF token \in {"pizza", "garlic"} THEN 22 ELSE 10
    [] OTHER ->
         IF token \in {"pizza", "garlic"} THEN 18
         ELSE IF token \in {"buns", "cola", "chicken"} THEN 12 ELSE 6

_projected_drawdown(item, scenario, ratio) ==
  LET m == demand_multiplier(ratio)
      shortage == Max({item.threshold - item.stock, 0})
  IN  IF scenario = "low_stock_weekend" /\ shortage > 0
        THEN Rounded(25 * item.threshold * m[2] + 45 * shortage * m[1], 100 * m[2])
        ELSE Rounded(item.threshold * rate(scenario, item.token) * m[1], 100 * m[2])

project_stock_for_scenario(items, scenario, ratio) ==
  [i \in DOMAIN items |->
     [name |-> items[i].name, threshold |-> items[i].threshold, spoils |-> items[i].spoils,
      stock |-> Max({items[i].stock - _projected_drawdown(items[i], scenario, ratio), 0})]]

(* Below the threshold an item is short, above three times it is overstock.  *)
(* Two items may have one name: an alert knows which of them it is about.    *)
shortage_alerts(items, ratio) ==
  {[item |-> i, ingredient |-> items[i].name, stock |-> items[i].stock,
    shortfall |-> items[i].threshold - items[i].stock,
    critical |-> high_demand(ratio) \/ items[i].spoils] :
     i \in {k \in DOMAIN items : items[k].stock < items[k].threshold}}

overstock_alerts(items) ==
  {[item |-> i, ingredient |-> items[i].name, excess |-> items[i].stock - 3 * items[i].threshold] :
     i \in {k \in DOMAIN items : items[k].stock > 3 * items[k].threshold}}

compute_alerts(items, ratio) ==
  [shortages |-> shortage_alerts(items, ratio), overstocks |-> overstock_alerts(items),
   high |-> high_demand(ratio)]

\* What is projected for the scenario, with its alerts.
compute_shortage_data(items, scenario, ratio) ==
  compute_alerts(project_stock_for_scenario(items, scenario, ratio), ratio)

max_actionable_restock(alert) == 3 * alert.shortfall

\* As restock_qty, the cap ordered instead of what is missing, and half again.
restock_qty_generous(alert) == Rounded(3 * max_actionable_restock(alert), 2)
restock_qty(alert) == Min({alert.shortfall, max_actionable_restock(alert)})

(* A line quotes the order, the shortfall, the stock, and the pack an offer  *)
(* was found for: packs[ingredient].  That the critical ones are first is    *)
(* layout.                                                                   *)
build_capped_restock_actions(shortages, packs) ==
  {[item |-> a.item, names |-> a.ingredient, qty |-> restock_qty(a),
    quotes |-> {a.shortfall, a.stock} \cup {packs[n] : n \in {a.ingredient} \cap DOMAIN packs}] :
     a \in shortages}

(* The model's own waste lines are kept, one more for each overstock.        *)
merge_guardrailed_recommendation(alerts, llm_waste, packs) ==
  [restock |-> build_capped_restock_actions(alerts.shortages, packs),
   waste |-> llm_waste \cup {[item |-> o.item, names |-> o.ingredient, qty |-> o.excess, quotes |-> {}] :
                               o \in alerts.overstocks}]

(* Of each line that mentions the ingredient, all quantities count.          *)
mentions(line, ingredient) == line.names = ingredient \/ <<ingredient, line.names>> \in Within
quantities(line) == {line.qty} \cup line.quotes

_quantities_near_ingredient(lines, ingredient) ==
  UNION {quantities(l) : l \in {x \in lines : mentions(x, ingredient)}}

\* An issue is of an alert and a quantity.
_check_inventory_quantities(alerts, recommendation) ==
  UNION {{<<a.item, q>> : q \in {n \in _quantities_near_ingredient(recommendation.restock \cup recommendation.waste,
                                                                   a.ingredient) :
                                   n > max_actionable_restock(a)}} :
           a \in alerts.shortages}
=============================================================================
