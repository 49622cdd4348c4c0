SPECIFICATION WsSpec
CONSTANTS
  Devices = {1, 2}
  Fresh = {2}
  Tabs = {t}
  Globals = {g}
  Docs = {"x"}
  MaxEdits = 2
  MaxSyncs = 1
  MaxDrops = 1
  MaxRestarts = 1
  MaxSealFailures = 1
  MaxEvents = 3
  
PROPERTIES LocalTabsAreOurs WsSettles
CHECK_DEADLOCK FALSE
