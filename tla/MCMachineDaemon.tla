-------------------------- MODULE MCMachineDaemon --------------------------
(* A finite instance of MachineDaemon: one repository, two targets.         *)
EXTENDS MachineDaemon

CONSTANTS repo1, docs, notes, first, second
=============================================================================
