SPECIFICATION VoyageSpec
CONSTANTS
  Missions = {m1, m2}
  Files <- MCFiles
  Unresolved = Unresolved
  None = None
  MaxWaypoints = 3
  Speeds = {1, 2}
  Grain = 4
  StepsPerSecond = 2
  SyncEvery = 2
  MaxRate = 3
SYMMETRY Symmetry
INVARIANTS
  EndsAreSynced
  EngineOfListedMission
  WaypointIsLastReached
PROPERTIES
  SyncOnTime
  NextGoesForward
