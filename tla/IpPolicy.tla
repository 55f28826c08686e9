------------------------------- MODULE IpPolicy -------------------------------
(***************************************************************************)
(* The address arithmetic of an update cycle (lib/ip-policy.ts, lib/ip.ts).*)
(*                                                                         *)
(* A PublicIP maps each family to an address or to NoAddr (null).  Code    *)
(* that names v4 and v6 in turn is one quantified definition here.         *)
(***************************************************************************)
CONSTANTS
    Families,   \* {"v4", "v6"}, or one of them
    Addresses,
    NoAddr

ASSUME AddressAssumption == NoAddr \notin Addresses

PublicIPs == [Families -> Addresses \cup {NoAddr}]
NoIP == [f \in Families |-> NoAddr]

\* The families a policy lets through: all for "dual", else the one it names.
Wanted(policy) == {f \in Families : policy.family \in {"dual", f}}

\* applyIpPolicy: drop the families not wanted; "keep" fills a wanted family that
\* was not discovered with the previous address.
ApplyIpPolicy(discovered, previous, policy) ==
    [f \in Families |->
        IF f \notin Wanted(policy) THEN NoAddr
        ELSE IF policy.missing = "keep" /\ discovered[f] = NoAddr THEN previous[f]
        ELSE discovered[f]]

\* ipChanged: a missing family of `next` is left out of the update, not a change.
IpChanged(next, previous) ==
    \E f \in Families : next[f] # NoAddr /\ next[f] # previous[f]

\* mergePresentFamilies: `next` where it has an address, else `previous`.
MergePresentFamilies(previous, next) ==
    [f \in Families |-> IF next[f] # NoAddr THEN next[f] ELSE previous[f]]
=============================================================================
