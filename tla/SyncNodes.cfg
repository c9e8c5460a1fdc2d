CONSTANTS
  h1 = h1
  h2 = h2
  h3 = h3
  task = task
  project = project
  path = path
  Hosts = {h1, h2}
  Tasks = {task}
  Nodes = {project, path}
  Below <- MCBelow
  Racing = TRUE
  MaxStamp = 2
  MaxPushes = 1
  MaxCrashes = 0
SPECIFICATION Spec
INVARIANTS OneVersion
SYMMETRY HostSymmetry
