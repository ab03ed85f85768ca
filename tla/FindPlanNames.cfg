SPECIFICATION DeploymentSpec
CONSTANTS
  Number <- NumberOf
  parseInt <- ParseIntOf
  Environments <- AllEnvironments
  Databases <- DatabasesOf
  Commands <- CommandsOf
  Versions <- VersionsOf
  Clicks = {k1, k2}
  PLAN_CATALOG <- Plans
  CATALOG <- Catalog
  STAFF <- Staff
  Ids = {1, 2, 3, 4, 5, 6, 7, 8}
  OtherName = "other"
  MaxEdits = 2
CHECK_DEADLOCK FALSE
INVARIANT PlanNamesLand
