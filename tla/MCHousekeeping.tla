-------------------------- MODULE MCHousekeeping --------------------------
(* Housekeeping for TLC: the collector and the service task.               *)
EXTENDS Housekeeping

CONSTANTS collector, service
MCTask == {collector, service}
=============================================================================
