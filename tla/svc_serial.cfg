SPECIFICATION Spec
CONSTANTS
  Containers = {c1, c2}
  Jobs = {j1, j2}
  None = None
  Faults = {"docker", "host", "unready", "dies", "rm_crash", "rm_down"}
  DriftTo = {}
  Clients = {u1, u2}
  TaskIds = {t1, t2}
SYMMETRY Symmetry
INVARIANTS
  BindingMatchesHost
  UnwantedRunningIsReported
  OneRuntimePerUser
