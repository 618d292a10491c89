SPECIFICATION Spec
CONSTANTS
  NoApp = NoApp
  NoObj = NoObj
  NotClusterRole = NotClusterRole
  Stages <- DriftStages
  Objects <- DriftObjects
  Specs <- DriftSpecs
  Meddled <- DriftMeddled
  LaggingKinds = {"RoleBinding", "Deployment"}
  Budget <- DriftBudget
CHECK_DEADLOCK FALSE
INVARIANTS AtRestMeansSettled
