\* A user who does not act inside a handler.
SPECIFICATION Spec
CONSTANTS
  Menus <- MCMenus
  Values <- MCValues
  Tsrc = "tsrc"
  VdivOf <- MCVdivOf
  ExtScale = 3
  Arrows <- MCArrows
  UnitOf <- MCUnitOf
  Guarded <- MCGuarded
  Level = "tlvl"
  MaxPos = 2
  Exact = 10
  InitialQueries <- MCQueries
  Settings <- MCSettings
  MaxActs = 2
  Hasty = FALSE
INVARIANTS
  InSync
  LastWish
  ClicksCount
PROPERTIES
  Settles
CHECK_DEADLOCK FALSE
