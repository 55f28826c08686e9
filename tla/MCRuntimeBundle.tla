---------------------------- MODULE MCRuntimeBundle ----------------------------
(* Two cycles of the daemon and one of a one-shot command. *)
EXTENDS RuntimeBundle

MCMaxCycles == [a \in Appenders |-> IF a = Self THEN 2 ELSE 1]
=============================================================================
