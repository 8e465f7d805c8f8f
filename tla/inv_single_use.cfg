SPECIFICATION FairSpec
CONSTANTS
  Links = {i1, i2}
  Names = {admin, ann, bob}
  Admin = admin
  None = None
  Seeded = Seeded
  Aborts = FALSE
INVARIANTS
  OneAccountPerLink
PROPERTIES
  LinkRefined
  NamedPersonGetsIn
