SPECIFICATION Spec
CONSTANTS
  Links = {i1}
  Names = {admin, ann, bob}
  Admin = admin
  None = None
  Seeded = Seeded
  Aborts = TRUE
INVARIANTS
  OneAccountPerLink
