---------------------------- MODULE MCDurableFile ----------------------------
(* TLC instance of DurableFile: the constants are all in the .cfg file.       *)
EXTENDS DurableFile
=============================================================================
