------------------------------- MODULE Accounts -------------------------------
(***************************************************************************)
(* The accounts file (lib/config-file.ts): which lists of accounts are     *)
(* loaded, and what the files and roles of the loaded accounts are.        *)
(*                                                                         *)
(* An account as written has an id, a role, the ids of its failover        *)
(* accounts, hosts of which some are disabled, and the names of its state  *)
(* and history files: Unset when the file does not say, "" to have none.   *)
(* `valid`: loadConfig accepts its settings (module ProviderConfig).       *)
(***************************************************************************)
EXTENDS Naturals, Sequences, FiniteSets

Unset == "unset"
NoFile == ""

\* The settings of the process that a file's accounts may inherit: the data directory,
\* never the name of a state or history file.
Managed == {"stateFile", "historyFile"}
ScrubManagedEnv(env) == [k \in DOMAIN env |-> IF k \in Managed THEN Unset ELSE env[k]]

Setting(account, env, key) ==
    IF account[key] # Unset THEN account[key] ELSE ScrubManagedEnv(env)[key]

DefaultFile(key, id) ==
    (IF key = "stateFile" THEN ".uddns-state-" ELSE ".uddns-history-") \o id \o ".json"

FileOf(account, env, key) ==
    IF Setting(account, env, key) = Unset THEN DefaultFile(key, account.id)
                                          ELSE Setting(account, env, key)

Loaded(account, env) ==
    [id        |-> account.id,
     role      |-> account.role,
     failover  |-> account.failover,
     enabled   |-> account.hosts \ account.disabled,
     stateFile   |-> FileOf(account, env, "stateFile"),
     historyFile |-> FileOf(account, env, "historyFile")]

LoadedAccounts(list, env) == {Loaded(list[i], env) : i \in DOMAIN list}

UniqueIds(list) == \A i, j \in DOMAIN list : list[i].id = list[j].id => i = j

\* A path belongs to one account; a state file and a history file are not compared.
UniquePathsUnchecked(accounts) == TRUE
UniquePaths(accounts) ==
    \A a, b \in accounts, key \in Managed : a # b /\ a[key] = b[key] => a[key] = NoFile

\* Standbys have no failover accounts; those of a primary account exist, are standbys
\* and serve an enabled host of its own.
FailoverGraph(accounts) ==
    \A a \in accounts :
        IF a.role = "failover"
          THEN a.failover = {}
          ELSE \A id \in a.failover :
                  \E t \in accounts : t.id = id /\ t.role = "failover" /\ t.enabled \cap a.enabled # {}

\* loadAccountsFromFile returns; otherwise it throws.
Loads(list, env) ==
    /\ list # <<>>
    /\ UniqueIds(list)
    /\ \A i \in DOMAIN list :
        /\ list[i].valid
        /\ list[i].disabled \subseteq list[i].hosts /\ list[i].disabled # list[i].hosts
    /\ UniquePaths(LoadedAccounts(list, env))
    /\ FailoverGraph(LoadedAccounts(list, env))

RunnableAccounts(accounts) == {a \in accounts : a.role # "failover"}
=============================================================================
