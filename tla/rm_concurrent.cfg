SPECIFICATION RMSpec
CONSTANTS
  Containers = {c1, c2, c3, c4}
  Jobs = {j1, j2, j3}
  None = None
  Faults = {"host", "unready", "dies"}
  DriftTo = {"exited", "paused"}
SYMMETRY Symmetry
INVARIANTS
  ContainersBounded
