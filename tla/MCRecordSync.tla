----------------------------- MODULE MCRecordSync -----------------------------
(***************************************************************************)
(* An instance of RecordSync: all fifteen providers, a host below the apex *)
(* and at the apex, right and wrong zones, missing settings, old, new,     *)
(* duplicate and absent records.                                           *)
(***************************************************************************)
EXTENDS RecordSync

Apex   == <<"ex", "tld">>
Home   == <<"home">> \o Apex
Www    == <<"www">> \o Apex
Few == <<"few">>
Deep   == <<"a">> \o Home
Elsewhere == <<"no", "tld">>
MCSuffixes == {<<"co", "uk">>}
MCZoneName == <<Apex, Elsewhere>>
MCValues   == {1, 2}
MCWants    == {[A |-> 1, AAAA |-> 0], [A |-> 1, AAAA |-> 1], [A |-> 0, AAAA |-> 1]}
MCMaxForeign == [k \in {Home, Apex, Few} |-> IF k = Home THEN 1 ELSE 0]

(***************************************************************************)
(* Accounts                                                                *)
(***************************************************************************)

AllSet(p) == [k \in Keys(p) |-> "set"]
Account(p, h, name, id, s, contents) ==
    [provider |-> p, host |-> h, zoneName |-> name, zoneId |-> id, settings |-> s,
     contents |-> contents, pinned |-> NoPin, create |-> TRUE, depth |-> 1, style |-> "absolute",
     completes |-> TRUE]

\* The zone settings each provider reads.
NameChoices(p) == IF p \in ReadsZoneName THEN {NoDomain, Apex, Elsewhere} ELSE {NoDomain}
IdChoices(p) == IF p \in ReadsZoneId THEN {0, 1, 2} ELSE {0}

\* The right zone.
RightName(p) == IF p \in ReadsZoneName THEN Apex ELSE NoDomain
RightId(p)   == IF p \in {"route53", "linode", "bunny"} THEN 1 ELSE 0
Rightly(p, h, contents) == Account(p, h, RightName(p), RightId(p), AllSet(p), contents)

Providers == RecordApis \cup QueryProviders

Working == {Rightly(p, h, h) : p \in Providers, h \in {Home, Apex}}
\* A bare label, which the name of the zone completes, given or found by its id.
Labels == {Rightly(p, <<"home">>, Few) : p \in RecordApis \cup {"namecheap"}}
            \cup {Account(p, <<"home">>, NoDomain, 1, AllSet(p), Few) : p \in {"cloudflare", "hetzner"}}
            \cup {[Rightly("cloudflare", <<"home">>, Few) EXCEPT !.pinned = i, !.completes = FALSE] : i \in {NoPin, 1}}
Pins == {[Rightly("cloudflare", Home, Home) EXCEPT !.pinned = i] : i \in {1, 9}}
NoCreates == {[Rightly(p, Home, Home) EXCEPT !.create = FALSE] : p \in {"cloudflare", "route53"}}
Deeps == {[Rightly("hetzner", Home, Home) EXCEPT !.depth = d] : d \in {2, 3}}
Styles == {[Rightly(p, h, h) EXCEPT !.style = "relative"] :
              p \in {"digitalocean", "contabo"}, h \in {Home, Apex}}
Zoned == {Account(p, h, n, i, AllSet(p), Few) :
              p \in RecordApis, h \in {Home, Deep}, n \in {NoDomain, Apex, Elsewhere}, i \in {0, 1, 2}}
Misconfigured == {a \in Zoned : a.zoneName \in NameChoices(a.provider) /\ a.zoneId \in IdChoices(a.provider)}
Suffixed == {Account(p, h, NoDomain, 0, AllSet(p), Few) :
                p \in DerivesDomain, h \in {<<"ex", "co", "uk">>, <<"home">>, Home, Apex, Deep}}
Unset == UNION {{Account(p, Home, RightName(p), RightId(p), [AllSet(p) EXCEPT ![k] = v], Few) :
                    k \in Keys(p), v \in {"absent", "empty"}} : p \in Providers}

MCAccounts == Working \cup Labels \cup Pins \cup NoCreates \cup Deeps \cup Styles
                \cup Misconfigured \cup Suffixed \cup Unset

(***************************************************************************)
(* What the zones hold                                                     *)
(***************************************************************************)

Rec(id, z, n, f, v, t) ==
    [id |-> id, zone |-> z, name |-> n, type |-> f, value |-> v, tuned |-> t]
Neighbours(h) == {Rec(9, 1, IF h = Apex THEN Home ELSE Apex, "A", 2, TRUE), Rec(8, 2, Elsewhere, "A", 2, TRUE)}
HostContents(h) ==
    {Neighbours(h) \cup own : own \in
        {{}, {Rec(1, 1, h, "A", 2, TRUE)}, {Rec(1, 1, h, "A", 1, FALSE), Rec(3, 1, h, "AAAA", 1, TRUE)},
         {Rec(1, 1, h, "A", 2, TRUE), Rec(2, 1, h, "A", 1, TRUE)}}}
MCContents == [k \in {Home, Apex, Few} |->
    IF k = Home THEN HostContents(Home)
    ELSE {Neighbours(h) \cup {Rec(1, 1, h, "A", 2, TRUE)} : h \in {IF k = Apex THEN Apex ELSE Home}}]
=============================================================================
