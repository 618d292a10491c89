SPECIFICATION FairSpec
CONSTANTS
  NoSchedule = NoSchedule
  NoSpec = NoSpec
  NoJob = NoJob
  NoApp = NoApp
  Apps = {a1, a2}
  ImageSpecs <- TurnSpecs
  DefaultSchedule = "six fields"
  ValidSchedules = {"hourly"}
  Workloads = 1
  Hooked = {}
  Budget <- LifeBudget
CHECK_DEADLOCK FALSE
INVARIANTS NoLeakedJobs
PROPERTIES SchedulesFollow CachePruned
