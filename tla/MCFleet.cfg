SPECIFICATION FairSpec
CONSTANTS
  n1 = n1
  n2 = n2
  web = web
  batch = batch
  app = app
  Nodes = {n1, n2}
  EnvCount = 2
  Stacks = {web, batch}
  Projects = {app}
  Proxy = proxy
  Nobody = nobody
  Layouts <- MovingLayouts
  Broken <- BrokenBatch
  MaxOperator = 2
  MaxFaults = 1
INVARIANT TypeOK
PROPERTY DeploysOnlyDesired
PROPERTY PruneSpares
PROPERTY PlacedUnitsRun
PROPERTY ControllerReportsDone
