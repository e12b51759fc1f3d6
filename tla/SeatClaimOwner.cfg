\* The seat is handed on, and the account presses claim again.
CONSTANTS
  op = op
  sp = sp
  w1 = w1
  w2 = w2
  Addresses <- MCAddresses
  Opener = op
  Sponsor = sp
  Refusing = {w2}
  Vaults = {v1}
  Timelock = 2
  Nobody = Nobody
  Calls = {c1}
  Collectors = {s1}
  Dead = Dead
  Unread = Unread
SPECIFICATION Spec
INVARIANTS
  OwnerWasNamed
