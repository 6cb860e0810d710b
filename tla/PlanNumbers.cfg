\* Every choice of four neighbours read and asked, four menus; then five houses,
\* four shelves, three demands and three texts for every profile of the service.
CONSTANTS
  Missing = Missing
  Area <- MCArea
  DinnerTimes <- MCDinnerTimes
  Within <- MCWithin
  Menus <- MCMenus
  Houses <- MCHouses
  Shelves <- MCShelves
  Demands <- MCDemands
  Texts <- MCTexts
  Packs <- MCPacks
  Windows <- MCWindows
SPECIFICATION NumbersSpec
CHECK_DEADLOCK FALSE
INVARIANTS
  MarketAgrees
  QuantityErrorsExplained
  FullHouseAgrees
  OffPeakExplained
