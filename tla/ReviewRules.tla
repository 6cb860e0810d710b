---------------------------- MODULE ReviewRules ----------------------------
(* The numbers of a plan beside its stock: when the service is, how many     *)
(* orders are expected, how full the house will be, what the critic's own    *)
(* checks find and how it scores the plan.  Orders and percentages are in    *)
(* tenths, scores and ratios in hundredths, hours are those of the day.      *)
EXTENDS Rounding, Sequences, FiniteSets

SCENARIO_DEFINITIONS ==
  [friday_rush |-> <<18, 22>>, weekday_lunch |-> <<12, 15>>,
   holiday_spike |-> <<17, 22>>, low_stock_weekend |-> <<18, 22>>]

\* The recommender's choice when the model gives none it knows.
recommend_fallback(date, shortages) ==
  IF date = "holiday" THEN "holiday_spike"
  ELSE IF shortages >= 3 THEN "low_stock_weekend"
  ELSE IF date = "weekend" THEN "friday_rush" ELSE "weekday_lunch"

\* The composer's window for the rest of today.
compose_fallback(hour) ==
  IF hour < 11 THEN <<11, 22>> ELSE IF hour < 16 THEN <<12, 15>> ELSE <<18, 22>>

-----------------------------------------------------------------------------
(* Forecast: the mean of four such weekdays, five per cent more expected,    *)
(* or what Prophet predicts; a holiday and the weather multiply it.          *)
calculate_baseline_forecast(history) ==
  LET total == history[1] + history[2] + history[3] + history[4]
  IN  [avg |-> Rounded(10 * total, 4), predicted |-> Rounded(1050 * total, 400)]

calculate_forecast(history, yhat, None) ==
  IF yhat = None THEN calculate_baseline_forecast(history)
  ELSE [calculate_baseline_forecast(history) EXCEPT !.predicted = yhat]

\* Per cent: the chance of rain and the temperature of the evening.
demand_multiplier_of(rain, temperature) ==
  IF rain >= 60 THEN 110 ELSE IF rain >= 30 THEN 105 ELSE IF temperature >= 35 THEN 103 ELSE 100

_apply_signal_adjustments(forecast, weather, holiday) ==
  [forecast EXCEPT !.predicted = Rounded(@ * weather * (IF holiday THEN 14 ELSE 10), 1000)]

demand_ratio(forecast) == IF forecast.avg > 0 THEN <<forecast.predicted, forecast.avg>> ELSE <<1, 1>>

-----------------------------------------------------------------------------
(* Reservations of the hours of the window, both included.                   *)
booked(bookings, window) == {b \in bookings : b.hour \in window[1] .. window[2]}

guests(bookings) == LET count(b) == b.guests IN MapThenSumSet(count, bookings)

get_service_reservations(bookings, window, capacity) ==
  LET in == booked(bookings, window)
  IN  [total |-> guests(in),
       occupancy_pct |-> Rounded(1000 * guests(in), capacity),
       overbooking_risk |-> guests(in) > Rounded(9 * capacity, 10),
       waitlist |-> Cardinality({b \in in : b.waits})]

(* A number of guests above the capacity is reworded, in a house that is     *)
(* booked beyond it; 0 is no number.                                         *)
_sanitize_guest_language(mention, capacity, total) ==
  IF total > capacity /\ mention > capacity THEN 0 ELSE mention

capacity_constrained(occupancy_pct) == occupancy_pct > 900

-----------------------------------------------------------------------------
(* What the critic finds contradictory in what the agents assumed.           *)
_diff_assumptions(menu, reservation, complaint, market, dineout) ==
  {d \in 2 .. 7 :
     CASE d = 2 -> reservation.known /\ menu.covers_within_capacity /\ reservation.occupancy_pct > 900
       [] d = 3 -> FALSE  \* no forecast carries a low confidence
       [] d = 4 -> complaint.negative_pct > 250 /\ ~complaint.high_volume
       [] d = 5 -> market.available /\ market.alerts > 0 /\ menu.items_available
       [] d = 6 -> dineout.checked /\ dineout.low /\ reservation.known /\ reservation.occupancy_pct > 800
       [] d = 7 -> market.available /\ market.busy /\ market.deals >= 2}

\* A number of guests above the capacity, or more than twenty more staff, in
\* the plan's text.
_check_capacity_and_staffing(mentions, capacity, staff) ==
  {rule \in {"capacity_limit", "staffing_limit"} :
     IF rule = "capacity_limit" THEN \E n \in mentions : n > capacity ELSE staff > 20}

-----------------------------------------------------------------------------
(* Scores: a mean of pressures, a mean of benefits, one against the other.   *)
_clamp(n, d) == Max({0, Min({Rounded(n, d), 100})})

\* As surplus, fewer orders counted like more.
surplus_any(ratio) == Magnitude(Rounded(100 * ratio[1], ratio[2]) - 100)
\* Orders beyond the average; a quieter service has none.
surplus(ratio) == Max({Rounded(100 * ratio[1], ratio[2]) - 100, 0})

evaluate_bundle(ratio, occupancy_pct, waitlist, critical, warning, overstocked, staff, complexity) ==
  LET stock_risk == _clamp(10 + 12 * critical + 5 * warning + 3 * overstocked, 1)
      pressure == Rounded(_clamp(100 * (25 + 2 * staff + 8 * complexity) + 60 * surplus(ratio), 100)
                          + _clamp(10 + 3 * staff + (IF occupancy_pct >= 900 THEN 15 ELSE 0), 1)
                          + stock_risk
                          + _clamp(75 * occupancy_pct + 5000 * Min({waitlist, 5}), 1000), 4)
      benefit == Rounded(_clamp(3500 + 55 * surplus(ratio), 100)
                         + _clamp(35 + 10 * Min({critical, 5}), 1)
                         + _clamp(55 * occupancy_pct + 6000 * Min({waitlist, 4}), 1000), 3)
  IN  [pressure |-> pressure,
       tradeoff |-> _clamp(benefit - pressure + 45, 1)]

weak(scores) == scores.tradeoff < 20 /\ scores.pressure >= 90
=============================================================================
