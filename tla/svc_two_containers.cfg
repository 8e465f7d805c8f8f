SPECIFICATION Spec
CONSTANTS
  Containers = {c1, c2, c3}
  Jobs = {j1, j2}
  None = None
  Faults = {"timeout"}
  DriftTo = {}
  Clients = {u1}
  TaskIds = {t1, t2}
SYMMETRY Symmetry
INVARIANTS
  OneRuntimePerUser
