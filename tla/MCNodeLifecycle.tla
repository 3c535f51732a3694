-------------------------- MODULE MCNodeLifecycle ---------------------------
(* Instances of NodeLifecycle for TLC: one node, and who is at work on it.   *)
EXTENDS NodeLifecycle

\* Everyone but drain, cancel-drain and the automatic recovery.
Operation == {"watchdog", "heartbeat", "registrar", "cleaner", "manual", "provisioner"}

\* An administrator drains the node and changes his mind.
Draining == {"heartbeat", "registrar", "cleaner", "drainer", "cancel", "late"}

\* He does so while the node is still being created.
Hasty == {"heartbeat", "registrar", "cleaner", "cancel", "provisioner"}

\* The watchdog starts the recovery, as services.ts wires it.
Recovery == {"watchdog", "heartbeat", "registrar", "cleaner", "auto"}

MCTeams == {Operation, Draining, Hasty, Recovery}
OnlyRecovery == {Recovery}
=============================================================================
