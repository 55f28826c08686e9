------------------------------- MODULE MCDaemon -------------------------------
(* Accounts files: two accounts, one of which has a standby; the standby alone; and *)
(* one that is refused, because its two accounts share a state file.                *)
EXTENDS Daemon

Account(id, stateFile) ==
    [id |-> id, role |-> "primary", failover |-> {}, hosts |-> {"h"}, disabled |-> {},
     stateFile |-> stateFile, historyFile |-> Unset, valid |-> TRUE]

Home == Account("home", Unset)
Work == Account("work", Unset)
Spare == [Account("spare", Unset) EXCEPT !.role = "failover"]

MCFiles ==
    {<<[Home EXCEPT !.failover = {"spare"}], Work, Spare>>,
     <<Spare>>,
     <<Home, Account("work", ".uddns-state-home.json")>>}

MCProcessEnv == [stateFile |-> ".uddns-state.json", historyFile |-> Unset]
=============================================================================
