CONSTANTS
  h1 = h1
  h2 = h2
  h3 = h3
  task = task
  project = project
  path = path
  Hosts = {h1, h2}
  Tasks = {}
  Nodes = {project, path}
  Below <- MCBelow
  Racing = FALSE
  MaxStamp = 3
  MaxPushes = 1
  MaxCrashes = 0
SPECIFICATION Spec
PROPERTIES NodeNeverOlder
