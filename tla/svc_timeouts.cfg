SPECIFICATION Spec
CONSTANTS
  Containers = {c1}
  Jobs = {j1}
  None = None
  Faults = {"timeout", "api_crash", "db", "docker", "host", "unready", "dies", "rm_crash", "rm_down"}
  DriftTo = {"exited"}
  Clients = {u1}
  TaskIds = {t1, t2}
SYMMETRY Symmetry
INVARIANTS
  SingleFlight
PROPERTIES
  LifecycleRefined
