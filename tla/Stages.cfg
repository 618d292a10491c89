SPECIFICATION Spec
CONSTANTS
  NoApp = NoApp
  NoObj = NoObj
  NotClusterRole = NotClusterRole
  Stages <- StageStages
  Objects <- StageObjects
  Specs <- StageSpecs
  Meddled = {}
  LaggingKinds = {"Deployment"}
  Budget <- StageBudget
CHECK_DEADLOCK FALSE
INVARIANTS TypeOK NoOrphanedGrants AtRestMeansSettled
PROPERTIES AccessBeforeWorkload WritesOnlyUnderFinalizer GrantsFollowProtocol
