------------------------- MODULE MCPlanningService -------------------------
EXTENDS PlanningServiceProperties, TLC
CONSTANTS r1, r2, r3, o1, o2

Ask(route, org, date, restaurant, flags) ==
  [route |-> route, org |-> org, scenario |-> "friday_rush", date |-> date,
   restaurant |-> restaurant, flags |-> flags]

MCWeekday == [friday_rush |-> 4, weekday_lunch |-> 1]
MCBodies ==
  {Ask("run", o1, None, 1, {}), Ask("run", o2, None, 1, {}), Ask("stream", o1, 0, 2, {}),
   [Ask("run", o1, None, 1, {"debug"}) EXCEPT !.scenario = "weekday_lunch"],
   Ask("friday_rush", o1, None, 1, {"forced"}), Ask("run", o1, None, 1, {"forced"})}
Symmetry == Permutations({r1, r2, r3})
=============================================================================
