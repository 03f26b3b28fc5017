CONSTANTS
  MaxTasks = 3
  Units = 2
  Capacity = 2
  MaxIterations = 2
SPECIFICATION FairSpec
INVARIANTS RunningIsStack StartOrder LiveTasksKept CancelledNeverDone StatsAccount
PROPERTIES TrimDropsOldest SettledIsFinal EveryTaskSettles
