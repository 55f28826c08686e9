---------------------------- MODULE MCUpdaterLoop ----------------------------
(* TLC instances of UpdaterLoop: the constants are all in the .cfg files.     *)
EXTENDS UpdaterLoop
=============================================================================
