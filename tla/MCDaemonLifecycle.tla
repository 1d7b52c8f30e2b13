-------------------------- MODULE MCDaemonLifecycle --------------------------
EXTENDS DaemonLifecycle

(* Every property speaks of the time before. *)
MCUntilCrossed == ~crossed
=============================================================================
