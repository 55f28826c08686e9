------------------------------- MODULE Session -------------------------------
(***************************************************************************)
(* What an updater session promises those who start and stop it            *)
(* (createUpdater in lib/updater.ts): one cycle at a time; an interval     *)
(* only while it is not stopping; a stop that lasts as long as the cycle   *)
(* it found; and no start between the two.                                 *)
(***************************************************************************)
VARIABLES
    armed,       \* is an interval scheduled?
    cycle,       \* is a cycle running?
    stopping,    \* has the latest start or stop been a stop?
    halting,     \* has a stop() not returned yet?
    draining     \* does it wait for the cycle?

vars == <<armed, cycle, stopping, halting, draining>>

Init == ~armed /\ ~cycle /\ ~stopping /\ ~halting /\ ~draining

\* A cycle may begin at any time, whoever asks for it, but not during another.
Begin ==
    /\ ~cycle /\ cycle' = TRUE
    /\ UNCHANGED <<armed, stopping, halting, draining>>

\* A start() takes the session out of a stop that is over.
Start ==
    /\ ~halting
    /\ stopping' = FALSE
    /\ UNCHANGED <<armed, cycle, halting, draining>>

Schedules == UNCHANGED armed \/ (~stopping /\ armed' = TRUE)
Arm == Schedules /\ UNCHANGED <<cycle, stopping, halting, draining>>

\* A stop() drops the interval and waits for the cycle it finds.
Stop ==
    /\ ~halting
    /\ stopping' = TRUE
    /\ armed' = FALSE
    /\ halting' = cycle
    /\ draining' = cycle
    /\ UNCHANGED cycle

\* The stop() returns; a start() that has waited for it goes on.
Returns == halting' = FALSE /\ stopping' \in {stopping, FALSE}
Return ==
    /\ halting /\ ~draining
    /\ Returns
    /\ UNCHANGED <<armed, cycle, draining>>

\* The cycle ends.  Who has waited for it may go on at once.
Settle ==
    /\ cycle /\ cycle' = FALSE
    /\ draining' = FALSE
    /\ UNCHANGED <<halting, stopping>> \/ (halting /\ Returns)
    /\ Schedules

Next == Begin \/ Start \/ Arm \/ Stop \/ Return \/ Settle

Spec == Init /\ [][Next]_vars
=============================================================================
