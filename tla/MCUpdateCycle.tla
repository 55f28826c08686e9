---------------------------- MODULE MCUpdateCycle ----------------------------
(* TLC instance of UpdateCycle: two hosts, one standby that covers one of them. *)
EXTENDS UpdateCycle

CONSTANTS h1, h2, s1

MCHosts    == {h1, h2}
OneHost    == {h1}
MCStandbys == <<s1>>
MCCovers   == [t \in {s1} |-> {h1}]
DualKeep   == [family |-> "dual", missing |-> "keep"]
V6Clear    == [family |-> "v6", missing |-> "clear"]
MCPolicies == {DualKeep, V6Clear}
ClearOnly  == {V6Clear}
\* The network assigns a new IPv6 address, and never gives one back.
Upwards    == {<<f, a, b>> \in {"v6"} \X Addresses \X Addresses : b = a + 1}
\* ... or goes back to the one before.
BackAndForth == {<<f, a, b>> \in {"v6"} \X Addresses \X Addresses : a # b}
Bindable   == {}
\* h2 is a name such as vpn.home.example.com, and NAMECHEAP_DOMAIN is not set.
FourLabels == {Primary, s1} \X {h2}
=============================================================================
