SPECIFICATION ContextSpec
CONSTANTS
  Deployments <- MCDeployments
  DeploymentOrder <- MCOrder
  ServiceIdOf <- MCServiceIdOf
  FilesOf <- MCFilesOf
  Contents = {v1, v2}
  Runs = {r1, r2}
  MaxEdits = 2
SYMMETRY ContextSymmetry
INVARIANTS
  TasksFindTheirContext
  ContextsAreCurrent
  EveryServiceIsOptimized
CHECK_DEADLOCK FALSE
