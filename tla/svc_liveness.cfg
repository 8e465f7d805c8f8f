SPECIFICATION FairSpec
CONSTANTS
  Containers = {c1}
  Jobs = {j1}
  None = None
  Faults = {"unready", "dies", "rm_down", "timeout"}
  DriftTo = {"exited", "paused"}
  Clients = {u1, u2}
  TaskIds = {t1}
PROPERTIES
  EveryRequestEnds
  RepairedByPolling
