SPECIFICATION FairSpec
CONSTANTS
  NoSchedule = NoSchedule
  NoSpec = NoSpec
  NoJob = NoJob
  NoApp = NoApp
  Apps = {a1}
  ImageSpecs <- TurnSpecs
  DefaultSchedule = "daily"
  ValidSchedules = {"hourly", "daily"}
  Workloads = 2
  Hooked = {"web"}
  Budget <- UpdateBudget
CHECK_DEADLOCK FALSE
INVARIANTS TypeOK NoLeakedJobs
PROPERTIES AutoUpdate SchedulesFollow
