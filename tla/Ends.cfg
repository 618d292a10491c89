SPECIFICATION FairSpec
CONSTANTS
  NoApp = NoApp
  NoObj = NoObj
  NotClusterRole = NotClusterRole
  Stages <- GrantStages
  Objects <- EndsObjects
  Specs <- EndsSpecs
  Meddled <- EndsObjects
  LaggingKinds = {"ClusterRoleBinding", "Deployment"}
  Budget <- EndsBudget
CHECK_DEADLOCK FALSE
PROPERTIES Converges DeletionCompletes
