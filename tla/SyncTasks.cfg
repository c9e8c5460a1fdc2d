CONSTANTS
  h1 = h1
  h2 = h2
  h3 = h3
  task = task
  project = project
  path = path
  Hosts = {h1, h2}
  Tasks = {task}
  Nodes = {}
  Below <- MCBelow
  Racing = FALSE
  MaxStamp = 3
  MaxPushes = 1
  MaxCrashes = 1
SPECIFICATION FairSpec
INVARIANTS TypeOK
PROPERTIES TaskNeverOlder TasksAgree
