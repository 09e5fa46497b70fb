\* Two tabs use links and edit or block the account at once.
SPECIFICATION Spec
CONSTANTS
  one = one
  two = two
  home = home
  work = work
  Client = {one, two}
  Address = {home, work}
  NoOne = NoOne
  NoAddress = NoAddress
  MaxLinks = 2
  MaxPasswords = 3
SYMMETRY Interchangeable
INVARIANT TypeOK VerifiedMeansProven ResetUsedOnce

\* An account that cannot get its link verified comes to rest.
CHECK_DEADLOCK FALSE
