------------------------------- MODULE MCAccounts -------------------------------
(* Model checking of Accounts: two tabs, of the customer or of the owner.  *)
EXTENDS Accounts, TLC

CONSTANTS one, two, home, work

\* Clients and addresses can be exchanged.
Interchangeable == Permutations({one, two}) \cup Permutations({home, work})
================================================================================
