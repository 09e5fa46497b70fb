-------------------------------- MODULE MCOutbox --------------------------------
(* Model checking of Outbox: its bounds are given by the configuration.    *)
EXTENDS Outbox
================================================================================
