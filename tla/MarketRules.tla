----------------------------- MODULE MarketRules -----------------------------
(* What the enrichers compute from Swiggy's answers: prices compared with    *)
(* the area, the position among the neighbours, how full the area is.  A     *)
(* dish is a record of its name, the category its name is classified under   *)
(* and its price in rupees; averages are in paise, percentages in tenths.    *)
EXTENDS Rounding, Sequences, FiniteSets

CONSTANTS
  Area,         \* the neighbours: what Swiggy's tools answer about each
  DinnerTimes   \* _DINNER_HOURS

\* Finitely many neighbours, whose amounts are not negative; six times.
ASSUME AreaAssumption ==
  /\ IsFiniteSet(DOMAIN Area)
  /\ \A r \in DOMAIN Area :
       /\ Area[r].cost_for_two \in Nat /\ Len(Area[r].dishes) \in Nat
       /\ \A i \in DOMAIN Area[r].dishes : Area[r].dishes[i].price \in Nat
  /\ IsFiniteSet(DinnerTimes) /\ Cardinality(DinnerTimes) = 6

-----------------------------------------------------------------------------
(* The dishes of the menus that were read, a dish without a price left out.  *)
Dish(d) == Area[d[1]].dishes[d[2]]
Price(d) == Dish(d).price
dishes(menus) ==
  {d \in menus \X (1 .. Max({0} \cup {Len(Area[r].dishes) : r \in menus})) :
     d[2] \in DOMAIN Area[d[1]].dishes /\ Price(d) > 0}
average(ds) == Rounded(100 * MapThenSumSet(Price, ds), Cardinality(ds))

called(menus, name) == {d \in dishes(menus) : Dish(d).name = name}

\* {dish name: area average}
area_avg(menus) ==
  [name \in {Dish(d).name : d \in dishes(menus)} |-> average(called(menus, name))]

(* Our items with a namesake nearby, and how far from its average they are.  *)
comparable(avg, ours) == {i \in DOMAIN ours : ours[i].name \in DOMAIN avg /\ ours[i].price > 0}
gap(avg, item) == 100 * item.price - avg[item.name]

\* More than a tenth above the average.
_generate_alerts(avg, ours) ==
  {i \in comparable(avg, ours) : 10 * gap(avg, ours[i]) > avg[ours[i].name]}

(* At least a twentieth off, the five farthest first; a loss or a gain of    *)
(* revenue in proportion to the gap.                                         *)
farther(avg, ours, i, j) ==
  LET left == Magnitude(gap(avg, ours[i])) * avg[ours[j].name]
      right == Magnitude(gap(avg, ours[j])) * avg[ours[i].name]
  IN  left > right \/ (left = right /\ i < j)

_compute_pricing_impact(avg, ours) ==
  LET off == {i \in comparable(avg, ours) : 20 * Magnitude(gap(avg, ours[i])) >= avg[ours[i].name]}
  IN  {i \in off : Cardinality({j \in off : farther(avg, ours, j, i)}) < 5}

(* Our categories against all dishes nearby of the same category.            *)
diff_pct(your_avg, their_avg) == Rounded(1000 * (your_avg - their_avg), their_avg)
verdict(diff) == IF diff > 50 THEN "above" ELSE IF diff < -50 THEN "below" ELSE "in line"

_compute_category_pricing(menus, ours) ==
  LET mine(c) == {i \in DOMAIN ours : ours[i].category = c /\ ours[i].price > 0}
      theirs(c) == {d \in dishes(menus) : Dish(d).category = c}
      price(i) == ours[i].price
      your_avg(c) == Rounded(100 * MapThenSumSet(price, mine(c)), Cardinality(mine(c)))
  IN  [c \in {ours[i].category : i \in DOMAIN ours} \cap {Dish(d).category : d \in dishes(menus)} |->
         IF mine(c) = {} THEN "none" ELSE verdict(diff_pct(your_avg(c), average(theirs(c))))]

(* The market page: each dish found nearby, and on which side of its average *)
(* our item of that name is, the last of them if there are several.          *)
comparisons(avg, ours) ==
  LET namesakes(dish) == {i \in DOMAIN ours : ours[i].name = dish}
      direction(item) == IF gap(avg, item) >= 0 THEN "above" ELSE "below"
  IN  [dish \in DOMAIN avg |->
         IF namesakes(dish) = {} THEN "none" ELSE direction(ours[Max(namesakes(dish))])]

\* At most fifteen neighbours are looked at; an instance has fewer.
_compute_landscape_summary(near) ==
  LET costs == {Area[r].cost_for_two : r \in near}
  IN  IF near = {} THEN [count |-> 0]
      ELSE [count |-> Cardinality(near), cost_for_two_min |-> Min(costs), cost_for_two_max |-> Max(costs),
            offers_count |-> Cardinality({r \in near : Area[r].offers})]

(* Our rank by the price of a meal for two, twice our average price.         *)
_compute_positioning(near, ours) ==
  LET price(i) == ours[i].price
      priced == {i \in DOMAIN ours : price(i) > 0}
      for_two == Rounded(2 * MapThenSumSet(price, priced), Cardinality(priced))
  IN  IF near = {} \/ priced = {} THEN [total |-> 0]
      ELSE [total |-> Cardinality(near) + 1, your_cost_for_two_estimate |-> for_two,
            rank |-> Cardinality({r \in near : Area[r].cost_for_two < for_two}) + 1,
            cheaper_than |-> Cardinality({r \in near : Area[r].cost_for_two > for_two})]

_compute_menu_breadth(menus) ==
  LET size(r) == Len(Area[r].dishes)   full == {r \in menus : size(r) > 0}
  IN  IF full = {} THEN 0 ELSE Rounded(10 * MapThenSumSet(size, full), Cardinality(full))

_compute_veg_mix(near) == <<Cardinality({r \in near : Area[r].veg}), Cardinality(near)>>

-----------------------------------------------------------------------------
(* Occupancy: of each neighbour asked, the dinner times it still offers.     *)
open_times(r) == Area[r].open_times \cap DinnerTimes

\* As _compute_signal, the average against the thresholds the other way round.
_compute_signal_inverted(total, n) ==
  IF total > 4 * n THEN "HIGH" ELSE IF total > 2 * n THEN "MEDIUM" ELSE "LOW"
_compute_signal(total, n) ==
  IF total <= 2 * n THEN "HIGH" ELSE IF total <= 4 * n THEN "MEDIUM" ELSE "LOW"

_compute_time_bucket_signal(count, n) ==
  IF n <= 0 THEN "MEDIUM"
  ELSE IF 100 * count <= 34 * n THEN "HIGH"
  ELSE IF 100 * count <= 67 * n THEN "MEDIUM" ELSE "LOW"

\* The chart: each time some neighbour offers, with how many do.
_aggregate_slot_availability_by_time(asked) ==
  LET offering(t) == Cardinality({r \in asked : t \in open_times(r)})
  IN  [t \in UNION {open_times(r) : r \in asked} |->
         [open |-> offering(t), signal |-> _compute_time_bucket_signal(offering(t), Cardinality(asked))]]

occupancy_signal(asked) ==
  LET offers(r) == Cardinality(open_times(r))
  IN  _compute_signal(MapThenSumSet(offers, asked), Cardinality(asked))
=============================================================================
