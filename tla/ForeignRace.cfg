SPECIFICATION Spec
CONSTANTS
  NoApp = NoApp
  NoObj = NoObj
  NotClusterRole = NotClusterRole
  Stages <- GrantStages
  Objects <- GrantObjects
  Specs <- GrantSpecs
  Meddled <- GrantObjects
  LaggingKinds = {}
  Budget <- ForeignBudget
CHECK_DEADLOCK FALSE
PROPERTIES ForeignUntouched
