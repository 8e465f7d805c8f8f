SPECIFICATION Spec
CONSTANTS
  Links = {i1, i2}
  Names = {admin, ann, bob}
  Admin = admin
  None = None
  Seeded = Seeded
  Aborts = TRUE
INVARIANTS
  SessionBelongsToConsumer
  RecordStillCurrent
  AdminIsSeeded
PROPERTIES
  RevokedStaysUnused
