SPECIFICATION FairSpec
CONSTANTS
  Accounts = {adm, ann}
  Admins = {adm}
  Calls = {b1, b2}
  None = None
  MaxTrouble = 1
INVARIANTS
  ForcedChangeComesFirst
  RedirectsEnd
  LogoutIsFinal
PROPERTIES
  BootScreenGoesAway
