\* A profile is saved while its password is reset.
SPECIFICATION Spec
CONSTANTS
  one = one
  two = two
  home = home
  work = work
  Client = {one, two}
  Address = {home, work}
  NoOne = NoOne
  NoAddress = NoAddress
  MaxLinks = 2
  MaxPasswords = 3
SYMMETRY Interchangeable
INVARIANT NewPasswordStays

\* An account that cannot get its link verified comes to rest.
CHECK_DEADLOCK FALSE
