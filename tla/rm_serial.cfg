SPECIFICATION SerialSpec
CONSTANTS
  Containers = {c1, c2}
  Jobs = {j1, j2}
  None = None
  Faults = {"docker", "host", "unready", "dies", "rm_crash"}
  DriftTo = {"exited", "paused", "restarting", "dead"}
SYMMETRY Symmetry
INVARIANTS
  EnsureDelivers
  StopDelivers
  DeleteDelivers
