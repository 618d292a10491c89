SPECIFICATION Spec
CONSTANTS
  NoApp = NoApp
  NoObj = NoObj
  NotClusterRole = NotClusterRole
  Stages <- GrantStages
  Objects <- GrantObjects
  Specs <- GrantSpecs
  Meddled = {}
  LaggingKinds = {"ClusterRoleBinding"}
  Budget <- LagBudget
CHECK_DEADLOCK FALSE
INVARIANTS NoOrphanedGrants
