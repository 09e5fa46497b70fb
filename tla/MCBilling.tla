------------------------------- MODULE MCBilling -------------------------------
(* Model checking of Billing: the owner uses one or two tabs.              *)
EXTENDS Billing

CONSTANTS one, two
================================================================================
