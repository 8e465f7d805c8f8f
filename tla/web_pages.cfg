SPECIFICATION PagesSpec
CONSTANTS
  Chains = {k1, k2}
  NoChain = NoChain
  MaxStarts = 3
  Deadline = 2
  Acts = {a1, a2}
  Refreshes = {r1}
  AtOnce = 2
  Items = {i1, i2}
  Ops = {o1, o2}
  Reads = {l1}
  MaxTogether = 2
  Nothing = Nothing
  Demo = Demo
  Dirs = {"top", "sub"}
  Files = {"a", "b"}
  DirOf <- MCDirOf
  Requests = {q1, q2}
  Absent = Absent
  Usernames = {ann, bob}
  Nobody = Nobody
  Limit <- MCLimit
  FileLimit = 1
  MaxFile = 2
  TrimTarget = 1
  BeaconLimit = 2
  BeaconKeeps = 1
  Reports = {p1, p2}
  MaxEntries = 2
  MaxPending = 3
INVARIANTS
  OneTabPerStart
  NobodyLeftWaiting
  LeavingStopsPolling
  OneActionAtATime
  SettledStatusIsFresh
  QuietPageIsFresh
  OneActionOnDetails
  OwnTextOnly
  ListingIsCurrent
  BuffersBounded
  EntriesAreKept
  OncePerEntry
  KeyEndsOnlyItsComposition
PROPERTIES
  PollingEnds
  LockIsReleased
  BusyEnds
  OwnAcceptanceIsNotRefused
CHECK_DEADLOCK FALSE
