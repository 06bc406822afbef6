CONSTANTS
  Handle = {h1, h2, h3, h4, h5}
  Cap = 2
  Client = {one, other}
  Forged = forged
  None = None
SPECIFICATION ServerSpec
CHECK_DEADLOCK FALSE
INVARIANTS EditsLandWhereNamed CallsSayOneThing GrepIsExact
PROPERTIES RoomCostsNoWork ClientsKeepTheirWorkspaces
