\* The instance of PlanNumbers.cfg, for what inventory_service.py:239 promises.
CONSTANTS
  Missing = Missing
  Area <- MCArea
  DinnerTimes <- MCDinnerTimes
  Within <- MCWithin
  Menus <- MCMenus
  Houses <- MCHouses
  Shelves <- MCShelves
  Demands <- MCDemands
  Texts <- MCTexts
  Packs <- MCPacks
  Windows <- MCWindows
SPECIFICATION NumbersSpec
CHECK_DEADLOCK FALSE
INVARIANTS
  GuardedActionsPass
