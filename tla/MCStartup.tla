----------------------------- MODULE MCStartup ------------------------------
(* Small instances of Startup for TLC.                                     *)
EXTENDS Startup, TLC

CONSTANTS p1, p2, m, goods, services

\* A server as it is deployed and one that leaves migrating to the command.
MCRunMigrations == (p1 :> TRUE) @@ (p2 :> FALSE)

\* Rows deleted by hand, one of them or all.
MCEdits == {{goods}, {}}

=============================================================================
