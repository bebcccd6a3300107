CONSTANTS
  c1 = c1  c2 = c2  s = s  main = main  feat = feat  u = u  v = v  w = w
  None = None
  Client <- TwoClients
  Server = s
  Commit = {u, v, w}
  Parents <- Fork
  Author <- ForkBy
  Root = u
  Branch <- TwoBranches
  Trunk = main
  Cut = FALSE
  MaxJobs = 2
  MaxFaults = 1
SPECIFICATION Spec
INVARIANTS FetchClosed
CHECK_DEADLOCK FALSE
