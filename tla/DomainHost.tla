------------------------------ MODULE DomainHost ------------------------------
(***************************************************************************)
(* How a host is placed in a registered domain (lib/providers/             *)
(* domain-host.ts, the splitHost of porkbun.ts, bindNamecheapHost of       *)
(* lib/hosts.ts).  A name is the sequence of its labels, after             *)
(* normalizeDnsName: lower case and without the root dot.                  *)
(***************************************************************************)
EXTENDS Naturals, SequencesExt

CONSTANT MultiPartPublicSuffixes    \* such as <<"co", "uk">>

NoDomain == <<>>

\* Where a host is placed: its domain and its full name in it.  Outside is null.
Placed(d, n) == [domain |-> d, name |-> n]
Outside == Placed(NoDomain, NoDomain)

Bare(h)    == Len(h) = 1
LastTwo(h) == SubSeq(h, Len(h) - 1, Len(h))

RequiresExplicitDomainByLength(h) == Len(h) < 2 \/ Len(h) > 3

\* Bare labels, names of four labels or more, names right under a multi-part suffix.
RequiresExplicitDomain(h) ==
    \/ Len(h) < 2
    \/ Len(h) > 3
    \/ Len(h) = 3 /\ LastTwo(h) \in MultiPartPublicSuffixes

DeriveTwoLabelApex(h) ==
    IF Len(h) \in 2 .. 3 /\ (Len(h) = 3 => LastTwo(h) \notin MultiPartPublicSuffixes)
      THEN Placed(LastTwo(h), h)
      ELSE Outside

SplitDomainHost(h, domain) ==
    CASE domain = NoDomain                        -> DeriveTwoLabelApex(h)
      [] domain # NoDomain /\ IsSuffix(domain, h) -> Placed(domain, h)
      [] domain # NoDomain /\ ~IsSuffix(domain, h) /\ Bare(h) -> Placed(domain, h \o domain)
      [] OTHER -> Outside

\* porkbun.ts has a copy of its own.
SplitHost(h, domain) ==
    IF domain = NoDomain THEN DeriveTwoLabelApex(h)
    ELSE IF IsSuffix(domain, h) THEN Placed(domain, h)
    ELSE IF Bare(h) THEN Placed(domain, h \o domain)
    ELSE Outside

\* A bare label without a domain stays unplaced; what cannot be placed throws.
BindNamecheapHost(domain, h) ==
    IF domain # NoDomain
      THEN SplitDomainHost(h, domain)
      ELSE IF DeriveTwoLabelApex(h) = Outside /\ Bare(h)
             THEN Placed(NoDomain, h)
             ELSE DeriveTwoLabelApex(h)

(***************************************************************************)
(* Names as an API lists them: the full name, the part before the apex, or *)
(* an alias of the apex.                                                   *)
(***************************************************************************)
At == <<"@">>
Relative(full, apex) == SubSeq(full, 1, Len(full) - Len(apex))
Spelled(full, apex, style) ==
    CASE style = "absolute"                  -> full
      [] style = "relative" /\ full = apex   -> At
      [] OTHER                               -> Relative(full, apex)

DigitalOceanNameMatches(returned, full, apex) ==
    \/ returned = full
    \/ full = apex /\ returned = At
    \/ full # apex /\ returned = Relative(full, apex)

ContaboNameMatchesLoose(item, full, apex) == item \in {At, apex, Relative(full, apex), full}

ContaboNameMatches(item, full, apex) ==
    IF full = apex
      THEN item \in {At, <<>>, apex}
      ELSE item \in {Relative(full, apex), full}
=============================================================================
