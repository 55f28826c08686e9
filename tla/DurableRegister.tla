--------------------------- MODULE DurableRegister ---------------------------
(***************************************************************************)
(* What replaceFileDurably promises the state store and the history: one   *)
(* register that is always whole.  A version is the number of its          *)
(* publication; 0 stands for no file.  `survivors` are the versions a      *)
(* power loss may bring back: once a replacement has been reported as done *)
(* they hold nothing older.                                                *)
(***************************************************************************)
EXTENDS Naturals

VARIABLES visible, survivors
vars == <<visible, survivors>>

Init ==
    /\ visible = 0
    /\ survivors = {0}

\* A replacement becomes visible, all of it at once.
Publish ==
    /\ visible' > visible
    /\ \A v \in survivors : visible' > v
    /\ survivors' = survivors \cup {visible'}

\* The replacement that is visible can no longer be lost.
Harden ==
    /\ survivors' = {visible}
    /\ UNCHANGED visible

PowerLoss ==
    /\ visible' \in survivors
    /\ survivors' = {visible'}

Next == Publish \/ Harden \/ PowerLoss

Spec == Init /\ [][Next]_vars
=============================================================================
