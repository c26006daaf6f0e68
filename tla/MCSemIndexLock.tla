--------------------------- MODULE MCSemIndexLock ---------------------------
(* A TLC instance of SemIndexLock: the application and the command line.    *)
EXTENDS SemIndexLock

CONSTANTS app, cli

MCProcesses == {app, cli}
=============================================================================
