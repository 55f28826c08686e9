----------------------------- MODULE ProviderCall -----------------------------
(***************************************************************************)
(* What an updater cycle relies on when it calls a provider, whichever     *)
(* provider it is (Provider in lib/schemas/provider.ts): while a call is   *)
(* under way the records of the host move, family by family, towards the   *)
(* addresses asked for, each at most once and never away from them, and a  *)
(* call that reports success has recorded every family it carried.  A      *)
(* failed call may have recorded some of them.                             *)
(***************************************************************************)
CONSTANTS Families, Values, NoValue

VARIABLES
    held,        \* the values the host's records hold, by family
    want,        \* the addresses of the call; NoValue for a family it does not carry
    busy,        \* is a call under way?
    report,      \* what the last call reported: "none", "success" or "failure"
    disturbed    \* has somebody else written to the zone during this call?

vars == <<held, want, busy, report, disturbed>>

Recorded(holds) == \A f \in Families : want[f] # NoValue => want[f] \in holds[f]

Init ==
    /\ held \in [Families -> SUBSET Values]
    /\ want = [f \in Families |-> NoValue]
    /\ busy = FALSE
    /\ report = "none"
    /\ disturbed \in BOOLEAN

\* A call may be refused before its first request.
Begin ==
    /\ ~busy
    /\ want' \in [Families -> Values \cup {NoValue}]
    /\ disturbed' \in BOOLEAN
    /\ \/ busy' = TRUE /\ report' = "none"
       \/ busy' = FALSE /\ report' = "failure"
    /\ UNCHANGED held

\* Each family stays as it is or gains the value wanted, alone or beside others.
Moves ==
    \A f \in Families :
        \/ held'[f] = held[f]
        \/ want[f] # NoValue /\ want[f] \in held'[f] /\ held'[f] \subseteq held[f] \cup {want[f]}

Work ==
    /\ busy
    /\ Moves
    /\ UNCHANGED <<want, busy, report, disturbed>>

\* The last request may both write and end the call.
End ==
    /\ busy
    /\ Moves
    /\ busy' = FALSE
    /\ report' \in {"success", "failure"}
    /\ report' = "success" => disturbed \/ Recorded(held')
    /\ UNCHANGED <<want, disturbed>>

\* Somebody else, a person or a second process, changes the zone.
Disturb ==
    /\ disturbed' = TRUE
    /\ held' \in [Families -> SUBSET Values]
    /\ UNCHANGED <<want, busy, report>>

Next == Begin \/ Work \/ End \/ Disturb

Spec == Init /\ [][Next]_vars
=============================================================================
