SPECIFICATION Spec
CONSTANTS
  NoApp = NoApp
  NoObj = NoObj
  NotClusterRole = NotClusterRole
  Stages <- GrantStages
  Objects <- GrantObjects
  Specs <- RoleSpecs
  Meddled = {}
  LaggingKinds = {}
  Budget <- RoleBudget
CHECK_DEADLOCK FALSE
INVARIANTS RevokedGrants
