------------------------ MODULE PlanNumbersProperties ------------------------
(* What the numbers of one plan must have to do with each other.             *)
EXTENDS PlanNumbers

(* The market's numbers tell one story.  Our rank and the neighbours that    *)
(* are dearer leave room for each other, and we are first exactly if nobody  *)
(* in the landscape is cheaper; an item flagged as dear is among the priced  *)
(* impacts unless five others are, and is above on the market page unless    *)
(* that shows a later item of ours of the same name; and the badge of how    *)
(* full the area is never contradicts its chart when every time says the     *)
(* same (competitor.py:274-293, 447-483, 544-574, 641-658;                   *)
(* market.py:295-324; occupancy.py:463-473, 502-511).                        *)
MarketAgrees ==
  phase = "assume" =>
    LET mine == market.competitor   chart == market.occupancy.chart
        all(signal) == \A t \in DOMAIN chart : chart[t].signal = signal
    IN  /\ mine.positioning.total > 0 =>
             /\ mine.positioning.rank + mine.positioning.cheaper_than <= mine.positioning.total
             /\ mine.positioning.rank = 1 <=>
                  mine.positioning.your_cost_for_two_estimate <= mine.landscape.cost_for_two_min
        /\ \A i \in mine.alerts :
             /\ i \in mine.pricing_impact \/ Cardinality(mine.pricing_impact) = 5
             /\ \/ mine.comparisons[market.ours[i].name] = "above"
                \/ \E j \in DOMAIN market.ours : j > i /\ market.ours[j].name = market.ours[i].name
        /\ all("HIGH") => market.occupancy.signal # "LOW"
        /\ all("LOW") /\ DOMAIN chart = DinnerTimes => market.occupancy.signal = "LOW"

(* No order of the guarded recommendation is larger than its cap, and when   *)
(* the critic still reports a quantity it is one the line only quotes: the   *)
(* stock of an item that is nearly sufficient, the pack of the offer, or a   *)
(* quantity of a line on another item whose name is or contains this one's,  *)
(* short or left over, or of a waste line of the model's own                 *)
(* (inventory_service.py:234-336; evaluation_sanity.py:373-416, 448-460).    *)
QuantityErrorsExplained ==
  phase = "done" =>
    LET alerts == plan.inventory.alerts
        lines == plan.inventory.recommendation
    IN  /\ \A l \in lines.restock, a \in alerts.shortages :
             l.item = a.item => l.qty <= max_actionable_restock(a)
        /\ \A a \in alerts.shortages, e \in report.quantities : e[1] = a.item =>
             \/ e[2] = a.stock /\ 4 * a.stock > 3 * (a.stock + a.shortfall)
             \/ a.ingredient \in DOMAIN plan.packs /\ e[2] = plan.packs[a.ingredient]
             \/ \E l \in lines.restock \cup (lines.waste \ plan.text.waste) :
                  l.item # a.item /\ mentions(l, a.ingredient) /\ e[2] \in quantities(l)
             \/ \E l \in plan.text.waste : mentions(l, a.ingredient) /\ e[2] \in quantities(l)

(* A house booked beyond nine tenths of its seats is one to the menu too,    *)
(* unless the reservations node failed, after which every house is taken to  *)
(* have room, or the window crosses midnight, whose bookings are then not    *)
(* counted; so the critic never finds the two at odds, and finds nothing     *)
(* after that failure.  The flag of overbooking, rounded another way,        *)
(* differs from it only within half a guest of nine tenths of the seats, or  *)
(* in a large house within half a tenth of a per cent of them.  And the plan *)
(* is refused for a number of guests only when the owner gave it, when       *)
(* another text of the bundle did, or when the reservations' advice did of a *)
(* house not booked beyond capacity (reservation_service.py:27-85, 142-170;  *)
(* nodes/reservation.py:65-75; menu_service.py:108-112;                      *)
(* evaluation_sanity.py:125-142, 312-358).                                   *)
FullHouseAgrees ==
  phase = "done" =>
    LET w == profile.window   c == profile.house.capacity
        within == {b \in profile.house.bookings :
                     IF w[1] <= w[2] THEN b.hour \in w[1] .. w[2] ELSE b.hour >= w[1] \/ b.hour <= w[2]}
        seats == guests(within)
    IN  /\ 1000 * seats >= 901 * c =>
             ~plan.reservation.known \/ w[1] > w[2] \/ ~plan.menu.covers_within_capacity
        /\ 2 \notin report.stale_assumptions
        /\ plan.reservation.known /\ w[1] <= w[2]
             /\ plan.reservation.overbooking_risk # (plan.reservation.occupancy_pct > 900) =>
               LET off == Magnitude(10 * seats - 9 * c) IN off <= 5 \/ 200 * off <= c
        /\ "capacity_limit" \in report.policy =>
             \/ profile.mention > c
             \/ \E n \in plan.text.elsewhere : n > c
             \/ plan.reservation.known /\ plan.text.mention > c /\ (seats <= c \/ w[1] > w[2])

(* A service with fewer orders than average is not scored as a heavier one   *)
(* than at the average, but for what it leaves over on the shelf: less is    *)
(* drawn, so more is overstock (cost_aware_scoring.py:24-28; inventory_      *)
(* service.py:138-174).                                                      *)
OffPeakExplained ==
  phase = "done" /\ plan.forecast.predicted < plan.forecast.avg =>
    LET usual == compute_shortage_data(profile.shelf, profile.id, <<1, 1>>)
        cost == scores(<<1, 1>>, usual, plan.text.staff, plan.text.complexity)
    IN  \/ report.cost.pressure <= cost.pressure
        \/ Cardinality(plan.inventory.alerts.overstocks) > Cardinality(usual.overstocks)

(* What inventory_service.py:239 says of the guarded actions: they "cannot   *)
(* exceed sanity caps", so without a waste line of the model's own the       *)
(* critic's check finds nothing in them.                                     *)
GuardedActionsPass ==
  phase = "done" /\ plan.text.waste = {} => report.quantities = {}

-----------------------------------------------------------------------------
(* What is behind FullHouseAgrees: whose house a plan is of, and that menu   *)
(* and critic worked with the figures the reservation node made of it.       *)
HouseInv ==
  /\ phase \in {"forecast", "agents", "menu", "critic", "done"} =>
       profile.house \in Houses /\ profile.window \in Nat \X Nat
  /\ phase \in {"menu", "critic", "done"} =>
       /\ {"text", "reservation"} \subseteq DOMAIN plan
       /\ plan.reservation \in reservation(plan.text.mention)
  /\ phase \in {"critic", "done"} => plan.menu \in {menu, Silent}
  /\ phase = "done" =>
       /\ report.policy = check_bundle.policy
       /\ report.stale_assumptions = check_bundle.stale_assumptions

(* What is behind QuantityErrorsExplained and OffPeakExplained: of which     *)
(* shelf the alerts are, and that they, the recommendation, the check and    *)
(* the scores are of one shelf and one forecast.                             *)
ShelfInv ==
  /\ phase \in {"forecast", "agents", "menu", "critic", "done"} => profile.shelf \in Shelves
  /\ phase \in {"agents", "menu", "critic", "done"} =>
       "forecast" \in DOMAIN plan /\ plan.forecast.predicted \in Int /\ plan.forecast.avg \in Int
  /\ phase \in {"menu", "critic", "done"} =>
       /\ {"text", "packs", "inventory", "reservation"} \subseteq DOMAIN plan
       /\ plan.text \in Texts
       /\ plan.inventory = inventory(plan.text.waste, plan.packs)
  /\ phase = "done" => report.quantities = check_bundle.quantities /\ report.cost = check_bundle.cost

(* What is behind MarketAgrees: that the market's numbers are all of one     *)
(* choice of menus read, of neighbours asked and of a menu of ours.          *)
MarketInv ==
  phase = "assume" =>
    \E menus \in (SUBSET DOMAIN Area) \ {{}}, asked \in (SUBSET DOMAIN Area) \ {{}}, ours \in Menus :
      /\ market.ours = ours
      /\ market.competitor = competitor_context(menus, ours)
      /\ market.occupancy = occupancy_context(asked)
=============================================================================
