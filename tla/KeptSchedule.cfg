SPECIFICATION FairSpec
CONSTANTS
  NoSchedule = NoSchedule
  NoSpec = NoSpec
  NoJob = NoJob
  NoApp = NoApp
  Apps = {a1}
  ImageSpecs <- KeptSpecs
  DefaultSchedule = "daily"
  ValidSchedules = {"hourly", "daily"}
  Workloads = 1
  Hooked = {"web"}
  Budget <- KeptBudget
CHECK_DEADLOCK FALSE
PROPERTIES AutoUpdate
