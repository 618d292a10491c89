SPECIFICATION FairSpec
CONSTANTS
  NoSchedule = NoSchedule
  NoSpec = NoSpec
  NoJob = NoJob
  NoApp = NoApp
  Apps = {a1}
  ImageSpecs <- WrongSpecs
  DefaultSchedule = "daily"
  ValidSchedules = {"hourly", "daily"}
  Workloads = 1
  Hooked = {}
  Budget <- WrongBudget
CHECK_DEADLOCK FALSE
PROPERTIES SchedulesFollow
