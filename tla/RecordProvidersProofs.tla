------------------------- MODULE RecordProvidersProofs -------------------------
(***************************************************************************)
(* Lemmas about the operators of DomainHost and RecordProviders: suffixes  *)
(* of names, where a host is placed, which listed records are the host's,  *)
(* and what a lookup leads to.                                             *)
(***************************************************************************)
EXTENDS RecordProviders, SequenceTheorems, FiniteSetTheorems, WellFoundedInduction, TLAPS

(***************************************************************************)
(* Names                                                                   *)
(***************************************************************************)

LEMMA ReverseProperties ==
    ASSUME NEW S, NEW s \in Seq(S)
    PROVE  /\ Reverse(s) \in Seq(S)
           /\ Len(Reverse(s)) = Len(s)
           /\ \A i \in 1 .. Len(s) : Reverse(s)[i] = s[Len(s) - i + 1]
<1>1. Len(s) \in Nat /\ s \in [1 .. Len(s) -> S]
  BY LenProperties
<1>2. Reverse(s) \in [1 .. Len(s) -> S]
  BY <1>1 DEF Reverse
<1>3. Reverse(s) \in Seq(S)
  BY <1>1, <1>2, SeqDef
<1>4. Len(Reverse(s)) = Len(s)
  <2>1. 1 .. Len(Reverse(s)) = 1 .. Len(s) /\ Len(Reverse(s)) \in Nat
    BY <1>2, <1>3, LenProperties
  <2> QED  BY <1>1, <2>1
<1> QED  BY <1>1, <1>3, <1>4 DEF Reverse

LEMMA SuffixIndexed ==
    ASSUME NEW S, NEW s \in Seq(S), NEW t \in Seq(S)
    PROVE  IsSuffix(s, t) <=>
             Len(s) <= Len(t) /\ \A i \in 1 .. Len(s) : s[i] = t[Len(t) - Len(s) + i]
<1> DEFINE rs == Reverse(s)
           rt == Reverse(t)
<1>1. Len(s) \in Nat /\ Len(t) \in Nat
  BY LenProperties
<1>2. /\ rs \in Seq(S) /\ Len(rs) = Len(s) /\ rt \in Seq(S) /\ Len(rt) = Len(t)
      /\ \A i \in 1 .. Len(s) : rs[i] = s[Len(s) - i + 1]
      /\ \A i \in 1 .. Len(t) : rt[i] = t[Len(t) - i + 1]
  BY ReverseProperties
<1> HIDE DEF rs, rt
<1>3. CASE Len(s) > Len(t)
  BY <1>1, <1>2, <1>3 DEF IsSuffix, IsPrefix, rs, rt
<1>4. CASE Len(s) <= Len(t)
  <2>1. \A i \in 1 .. Len(s) : rs[i] \in S /\ rt[i] \in S
    <3>1. \A i \in 1 .. Len(rs) : rs[i] \in S
      BY <1>2, ElementOfSeq
    <3>2. \A i \in 1 .. Len(rt) : rt[i] \in S
      BY <1>2, ElementOfSeq
    <3> QED  BY <3>1, <3>2, <1>1, <1>2, <1>4
  <2>2. /\ SubSeq(rs, 1, Len(s)) \in Seq(S) /\ SubSeq(rt, 1, Len(s)) \in Seq(S)
        /\ Len(SubSeq(rs, 1, Len(s))) = Len(s) /\ Len(SubSeq(rt, 1, Len(s))) = Len(s)
        /\ \A i \in 1 .. Len(s) : SubSeq(rs, 1, Len(s))[i] = rs[i]
        /\ \A i \in 1 .. Len(s) : SubSeq(rt, 1, Len(s))[i] = rt[i]
    <3>0. 1 \in Int /\ Len(s) \in Int
      BY <1>1
    <3>1. /\ SubSeq(rs, 1, Len(s)) \in Seq(S)
          /\ Len(SubSeq(rs, 1, Len(s))) = IF 1 <= Len(s) THEN Len(s) - 1 + 1 ELSE 0
          /\ \A i \in 1 .. Len(s) - 1 + 1 : SubSeq(rs, 1, Len(s))[i] = rs[1 + i - 1]
      BY <2>1, <3>0, SubSeqProperties, SMTT(20)
    <3>2. /\ SubSeq(rt, 1, Len(s)) \in Seq(S)
          /\ Len(SubSeq(rt, 1, Len(s))) = IF 1 <= Len(s) THEN Len(s) - 1 + 1 ELSE 0
          /\ \A i \in 1 .. Len(s) - 1 + 1 : SubSeq(rt, 1, Len(s))[i] = rt[1 + i - 1]
      BY <2>1, <3>0, SubSeqProperties, SMTT(20)
    <3> QED  BY <1>1, <3>1, <3>2
  <2>3. SubSeq(rs, 1, Len(s)) = SubSeq(rt, 1, Len(s)) <=> \A i \in 1 .. Len(s) : rs[i] = rt[i]
    BY <2>2, SeqEqual
  <2>4. (\A i \in 1 .. Len(s) : rs[i] = rt[i]) <=> \A i \in 1 .. Len(s) : s[i] = t[Len(t) - Len(s) + i]
    <3>1. \A i \in 1 .. Len(s) : rs[i] = s[Len(s) - i + 1] /\ rt[i] = t[Len(t) - i + 1]
      BY <1>1, <1>2, <1>4
    <3>2. ASSUME \A i \in 1 .. Len(s) : rs[i] = rt[i], NEW i \in 1 .. Len(s)
          PROVE  s[i] = t[Len(t) - Len(s) + i]
      <4>1. Len(s) - i + 1 \in 1 .. Len(s)
        BY <1>1
      <4>2. Len(s) - (Len(s) - i + 1) + 1 = i /\ Len(t) - (Len(s) - i + 1) + 1 = Len(t) - Len(s) + i
        BY <1>1
      <4> QED  BY <3>1, <3>2, <4>1, <4>2
    <3>3. ASSUME \A i \in 1 .. Len(s) : s[i] = t[Len(t) - Len(s) + i], NEW i \in 1 .. Len(s)
          PROVE  rs[i] = rt[i]
      <4>1. Len(s) - i + 1 \in 1 .. Len(s)
        BY <1>1
      <4>2. Len(t) - Len(s) + (Len(s) - i + 1) = Len(t) - i + 1
        BY <1>1
      <4> QED  BY <3>1, <3>3, <4>1, <4>2
    <3> QED  BY <3>2, <3>3
  <2> QED  BY <1>2, <1>4, <2>3, <2>4 DEF IsSuffix, IsPrefix, rs, rt
<1> QED  BY <1>1, <1>3, <1>4

LEMMA SuffixRefl ==
    ASSUME NEW S, NEW s \in Seq(S) PROVE IsSuffix(s, s)
<1>1. Len(s) \in Nat
  BY LenProperties
<1> QED  BY <1>1, SuffixIndexed

LEMMA ConcatSuffix ==
    ASSUME NEW S, NEW u \in Seq(S), NEW d \in Seq(S)
    PROVE  IsSuffix(d, u \o d)
<1>1. /\ Len(u) \in Nat /\ Len(d) \in Nat
      /\ u \o d \in Seq(S) /\ Len(u \o d) = Len(u) + Len(d)
      /\ \A i \in 1 .. Len(u) + Len(d) : (u \o d)[i] = IF i <= Len(u) THEN u[i] ELSE d[i - Len(u)]
  BY LenProperties, ConcatProperties
<1>2. ASSUME NEW i \in 1 .. Len(d)
      PROVE  d[i] = (u \o d)[Len(u \o d) - Len(d) + i]
  <2>1. Len(u \o d) - Len(d) + i = Len(u) + i /\ Len(u) + i \in 1 .. Len(u) + Len(d)
        /\ ~(Len(u) + i <= Len(u)) /\ (Len(u) + i) - Len(u) = i
    BY <1>1
  <2> QED  BY <1>1, <2>1
<1>3. Len(d) <= Len(u \o d)
  BY <1>1
<1> QED  BY <1>1, <1>2, <1>3, SuffixIndexed

\* A name that ends with d is its part before d followed by d.
LEMMA SuffixSplit ==
    ASSUME NEW S, NEW d \in Seq(S), NEW n \in Seq(S), IsSuffix(d, n)
    PROVE  Relative(n, d) \in Seq(S) /\ n = Relative(n, d) \o d
<1> DEFINE k == Len(n) - Len(d)
           u == SubSeq(n, 1, k)
<1>1. /\ Len(d) \in Nat /\ Len(n) \in Nat /\ Len(d) <= Len(n)
      /\ \A i \in 1 .. Len(d) : d[i] = n[Len(n) - Len(d) + i]
  BY LenProperties, SuffixIndexed
<1>2. k \in Nat /\ k <= Len(n)
  BY <1>1
<1>3. u \in Seq(S) /\ Len(u) = k /\ \A i \in 1 .. k : u[i] = n[i]
  <2>1. \A i \in 1 .. k : n[i] \in S
    BY <1>1, <1>2, ElementOfSeq
  <2>2. 1 \in Int /\ k \in Int
    BY <1>2
  <2> HIDE DEF k
  <2>3. /\ u \in Seq(S) /\ Len(u) = IF 1 <= k THEN k - 1 + 1 ELSE 0
        /\ \A i \in 1 .. k - 1 + 1 : u[i] = n[1 + i - 1]
    BY <2>1, <2>2, SubSeqProperties, SMTT(20)
  <2> QED  BY <1>2, <2>3
<1> HIDE DEF u
<1>4. u \o d \in Seq(S) /\ Len(u \o d) = Len(n)
      /\ \A i \in 1 .. Len(n) : (u \o d)[i] = IF i <= k THEN u[i] ELSE d[i - k]
  BY <1>1, <1>2, <1>3, ConcatProperties
<1>5. ASSUME NEW i \in 1 .. Len(n) PROVE (u \o d)[i] = n[i]
  <2>1. CASE i <= k
    BY <1>2, <1>3, <1>4, <2>1
  <2>2. CASE i > k
    <3>1. i - k \in 1 .. Len(d) /\ Len(n) - Len(d) + (i - k) = i /\ ~(i <= k)
      BY <1>1, <1>2, <2>2
    <3> QED  BY <1>1, <1>4, <3>1
  <2>3. i <= k \/ i > k
    BY <1>1
  <2> QED  BY <2>1, <2>2, <2>3
<1>6. n = u \o d
  BY <1>1, <1>4, <1>5, SeqEqual
<1> QED  BY <1>3, <1>6 DEF u, Relative

LEMMA EmptySuffix ==
    ASSUME NEW S, NEW n \in Seq(S) PROVE IsSuffix(NoDomain, n)
<1>1. << >> \in Seq(S) /\ n \o << >> = n
  BY EmptySeq, ConcatEmptySeq
<1> QED  BY <1>1, ConcatSuffix DEF NoDomain

\* The end of a name from some label on is a suffix of it.
LEMMA TailSuffix ==
    ASSUME NEW S, NEW n \in Seq(S), NEW i \in 1 .. Len(n)
    PROVE  SubSeq(n, i, Len(n)) \in Seq(S) /\ IsSuffix(SubSeq(n, i, Len(n)), n)
<1>1. Len(n) \in Nat /\ i \in Int /\ Len(n) \in Int /\ i <= Len(n)
  BY LenProperties
<1>2. \A j \in i .. Len(n) : n[j] \in S
  BY <1>1, ElementOfSeq
<1>3. /\ SubSeq(n, i, Len(n)) \in Seq(S)
      /\ Len(SubSeq(n, i, Len(n))) = IF i <= Len(n) THEN Len(n) - i + 1 ELSE 0
      /\ \A j \in 1 .. Len(n) - i + 1 : SubSeq(n, i, Len(n))[j] = n[i + j - 1]
  BY <1>1, <1>2, SubSeqProperties, SMTT(20)
<1> DEFINE t == SubSeq(n, i, Len(n))
<1> HIDE DEF t
<1>4. t \in Seq(S) /\ Len(t) = Len(n) - i + 1 /\ \A j \in 1 .. Len(n) - i + 1 : t[j] = n[i + j - 1]
  BY <1>1, <1>3 DEF t
<1>5. Len(t) <= Len(n) /\ \A j \in 1 .. Len(t) : t[j] = n[Len(n) - Len(t) + j]
  <2>1. \A j \in 1 .. Len(t) : i + j - 1 = Len(n) - Len(t) + j
    BY <1>1, <1>4
  <2> QED  BY <1>1, <1>4, <2>1
<1>6. IsSuffix(t, n)
  BY <1>4, <1>5, SuffixIndexed
<1> QED  BY <1>4, <1>6 DEF t

\* Of two suffixes of one name, the shorter is a suffix of the longer.
LEMMA SuffixesNest ==
    ASSUME NEW S, NEW d \in Seq(S), NEW e \in Seq(S), NEW n \in Seq(S),
           IsSuffix(d, n), IsSuffix(e, n), Len(d) <= Len(e)
    PROVE  IsSuffix(d, e)
<1>1. /\ Len(d) \in Nat /\ Len(e) \in Nat /\ Len(n) \in Nat /\ Len(e) <= Len(n)
      /\ \A i \in 1 .. Len(d) : d[i] = n[Len(n) - Len(d) + i]
      /\ \A i \in 1 .. Len(e) : e[i] = n[Len(n) - Len(e) + i]
  BY LenProperties, SuffixIndexed
<1>2. ASSUME NEW i \in 1 .. Len(d) PROVE d[i] = e[Len(e) - Len(d) + i]
  <2>1. Len(e) - Len(d) + i \in 1 .. Len(e)
        /\ Len(n) - Len(e) + (Len(e) - Len(d) + i) = Len(n) - Len(d) + i
    BY <1>1
  <2> QED  BY <1>1, <2>1
<1> QED  BY <1>2, SuffixIndexed

(***************************************************************************)
(* Names as an API lists them.  A name is ordinary in the domain d if it   *)
(* does not end with d twice and is not "@" followed by d.                 *)
(***************************************************************************)
Ordinary(n, d) == ~IsSuffix(d \o d, n) /\ n # At \o d

\* Ordinary names in one domain have different spellings.
LEMMA RelativeIsOne ==
    ASSUME NEW d \in Seq(STRING) \ {NoDomain}, NEW m \in Seq(STRING), NEW n \in Seq(STRING),
           IsSuffix(d, m), IsSuffix(d, n), Ordinary(m, d), Ordinary(n, d)
    PROVE  /\ Relative(m, d) = Relative(n, d) => m = n
           /\ m # Relative(n, d)
           /\ At # Relative(n, d)
           /\ At = m => m = d
           /\ m # << >>
           /\ Relative(n, d) = << >> => n = d
<1>1. /\ Relative(m, d) \in Seq(STRING) /\ m = Relative(m, d) \o d
      /\ Relative(n, d) \in Seq(STRING) /\ n = Relative(n, d) \o d
  BY SuffixSplit
<1>2. m # Relative(n, d)
  <2>1. SUFFICES ASSUME m = Relative(n, d) PROVE FALSE
    OBVIOUS
  <2>2. n = (Relative(m, d) \o d) \o d
    BY <1>1, <2>1
  <2>3. n = Relative(m, d) \o (d \o d) /\ d \o d \in Seq(STRING)
    <3>1. d \in Seq(STRING)
      OBVIOUS
    <3>2. \A u \in Seq(STRING) : (u \o d) \o d = u \o (d \o d)
      BY <3>1, ConcatAssociative
    <3>3. d \o d \in Seq(STRING)
      BY <3>1, ConcatProperties, Zenon
    <3> QED  BY <1>1, <2>2, <3>2, <3>3
  <2> QED  BY <1>1, <2>3, ConcatSuffix DEF Ordinary
<1>3. At # Relative(n, d)
  BY <1>1 DEF Ordinary
<1>4. /\ Len(d) \in Nat \ {0} /\ Len(m) \in Nat /\ Len(d) <= Len(m)
      /\ \A i \in 1 .. Len(d) : d[i] = m[Len(m) - Len(d) + i]
  BY SuffixIndexed, LenProperties, EmptySeq DEF NoDomain
<1>5. m # << >>
  BY <1>4, EmptySeq
<1>6. ASSUME At = m PROVE m = d
  <2>1. Len(m) = 1
    BY <1>6 DEF At
  <2>2. Len(d) = 1 /\ d[1] = m[1]
    BY <1>4, <2>1
  <2> QED  BY <2>1, <2>2, SeqEqual
<1>7. ASSUME Relative(n, d) = << >> PROVE n = d
  BY <1>1, <1>7, ConcatEmptySeq
<1> QED  BY <1>1, <1>2, <1>3, <1>5, <1>6, <1>7

\* The name of the host itself matches, however it is spelled.
LEMMA OwnNameMatches ==
    ASSUME NEW n, NEW d, NEW style \in {"absolute", "relative"}
    PROVE  /\ DigitalOceanNameMatches(Spelled(n, d, style), n, d)
           /\ ContaboNameMatches(Spelled(n, d, style), n, d)
<1>1. CASE style = "absolute"
  BY <1>1 DEF Spelled, DigitalOceanNameMatches, ContaboNameMatches
<1>2. CASE style = "relative" /\ n = d
  BY <1>2 DEF Spelled, DigitalOceanNameMatches, ContaboNameMatches
<1>3. CASE style = "relative" /\ n # d
  BY <1>3 DEF Spelled, DigitalOceanNameMatches, ContaboNameMatches
<1> QED  BY <1>1, <1>2, <1>3

\* Among the ordinary names of a zone no other matches, whether the API lists full names,
\* names before the apex or "@": no record of another name is edited in the host's place
\* (digitalOceanNameMatches, contaboNameMatches).
THEOREM OnlyOwnNameMatches ==
    ASSUME NEW d \in Seq(STRING) \ {NoDomain}, NEW m \in Seq(STRING), NEW n \in Seq(STRING),
           IsSuffix(d, m), IsSuffix(d, n), Ordinary(m, d), Ordinary(n, d),
           NEW style \in {"absolute", "relative"},
           \/ DigitalOceanNameMatches(Spelled(m, d, style), n, d)
           \/ ContaboNameMatches(Spelled(m, d, style), n, d)
    PROVE  m = n
<1>1. /\ Relative(m, d) = Relative(n, d) => m = n
      /\ m # Relative(n, d) /\ n # Relative(m, d)
      /\ At # Relative(n, d) /\ At # Relative(m, d)
      /\ At = m => m = d
      /\ At = n => n = d
      /\ m # << >>
      /\ Relative(m, d) = << >> => m = d
  BY RelativeIsOne
<1>2. ASSUME n = d PROVE d # Relative(m, d)
  BY <1>1, <1>2
<1>3. CASE style = "absolute"
  <2>1. Spelled(m, d, style) = m
    BY <1>3 DEF Spelled
  <2> QED  BY <1>1, <2>1 DEF DigitalOceanNameMatches, ContaboNameMatches
<1>4. CASE style = "relative" /\ m = d
  <2>1. Spelled(m, d, style) = At
    BY <1>4 DEF Spelled
  <2> QED  BY <1>1, <1>4, <2>1 DEF DigitalOceanNameMatches, ContaboNameMatches
<1>5. CASE style = "relative" /\ m # d
  <2>1. Spelled(m, d, style) = Relative(m, d)
    BY <1>5 DEF Spelled
  <2> QED  BY <1>1, <1>2, <2>1 DEF DigitalOceanNameMatches, ContaboNameMatches
<1> QED  BY <1>3, <1>4, <1>5

(***************************************************************************)
(* Where a host is placed                                                  *)
(***************************************************************************)

\* splitHost of porkbun.ts and splitDomainHost place every host alike.
THEOREM CopiesAgree ==
    ASSUME NEW h, NEW d
    PROVE  SplitHost(h, d) = SplitDomainHost(h, d)
BY DEF SplitHost, SplitDomainHost

\* The two lists of what is derivable agree: requiresExplicitDomain, which decides what
\* configuration is accepted, holds of just the hosts that deriveTwoLabelApex, which the
\* providers use, gives no domain for.
THEOREM ExplicitIsUnderivable ==
    ASSUME NEW h \in Seq(STRING)
    PROVE  RequiresExplicitDomain(h) <=> DeriveTwoLabelApex(h) = Outside
<1>1. Len(h) \in Nat
  BY LenProperties
<1>2. RequiresExplicitDomain(h) <=> ~(Len(h) \in 2 .. 3 /\ (Len(h) = 3 => LastTwo(h) \notin MultiPartPublicSuffixes))
  <2>1. \A n \in Nat : n < 2 \/ n > 3 \/ n \in 2 .. 3
    OBVIOUS
  <2>2. \A n \in 2 .. 3 : ~(n < 2) /\ ~(n > 3)
    OBVIOUS
  <2>3. 3 \in 2 .. 3
    OBVIOUS
  <2> QED  BY <1>1, <2>1, <2>2, <2>3, Zenon DEF RequiresExplicitDomain
<1>3. ASSUME Len(h) \in 2 .. 3 PROVE Placed(LastTwo(h), h) # Outside
  <2>1. h # NoDomain
    BY <1>3, EmptySeq DEF NoDomain
  <2> QED  BY <2>1 DEF Placed, Outside
<1> QED  BY <1>2, <1>3 DEF DeriveTwoLabelApex

LEMMA ZoneNamedProperties ==
    ASSUME NEW n, ZoneNamed(n) # NoZone
    PROVE  ZoneNamed(n) \in Zones /\ ZoneName[ZoneNamed(n)] = n
BY DEF ZoneNamed

\* The zone that is found by the longest suffix of a host is a suffix of it, and the host
\* is no bare label.
LEMMA WalkProperties ==
    ASSUME NEW h \in Seq(STRING), WalkZones(h) # NoZone
    PROVE  /\ WalkZones(h) \in Zones
           /\ IsSuffix(ZoneName[WalkZones(h)], h)
           /\ ~Bare(h)
<1> DEFINE found == {i \in 1 .. Len(h) - 1 : ZoneNamed(SubSeq(h, i, Len(h))) # NoZone}
           k == CHOOSE i \in found : \A j \in found : i <= j
<1>1. Len(h) \in Nat
  BY LenProperties
<1>2. found # {} /\ WalkZones(h) = ZoneNamed(SubSeq(h, k, Len(h)))
  BY DEF WalkZones
<1>3. \E i \in found : \A j \in found : i <= j
  <2>1. found \subseteq Nat
    BY <1>1
  <2> HIDE DEF found
  <2>2. PICK i \in found : \A j \in found : <<j, i>> \notin OpToRel(<, Nat)
    BY <1>2, <2>1, NatLessThanWellFounded, WFMin, Zenon
  <2>3. i \in found /\ \A j \in found : ~(j < i)
    BY <2>1, <2>2 DEF OpToRel
  <2>4. i \in found /\ \A j \in found : i <= j
    BY <2>1, <2>3, SMT
  <2> QED  BY <2>4
<1>4. k \in found
  <2> HIDE DEF found
  <2> QED  BY <1>3
<1>5. k \in 1 .. Len(h) - 1
  BY <1>4
<1> HIDE DEF found, k
<1>6. IsSuffix(SubSeq(h, k, Len(h)), h)
  BY <1>1, <1>5, TailSuffix
<1>7. ~Bare(h)
  <2>1. \A n \in Nat : k \in 1 .. n - 1 => n # 1
    OBVIOUS
  <2>2. Len(h) # 1
    BY <1>1, <1>5, <2>1, Zenon
  <2> QED  BY <2>2, Zenon DEF Bare
<1> QED  BY <1>2, <1>6, <1>7, ZoneNamedProperties

\* The settings of an account that its provider reads, see RecordSync.
Configured(c) ==
    /\ c.host \in Seq(STRING) \ {NoDomain} /\ c.zoneName \in Seq(STRING)
    /\ c.zoneId \in Zones \cup {NoZone}
    /\ c.provider \notin ReadsZoneName => c.zoneName = NoDomain
    /\ c.provider \notin ReadsZoneId => c.zoneId = NoZone
    /\ c.provider \in ZoneNameRequired => c.zoneName # NoDomain
    /\ c.provider \in ZoneIdRequired => c.zoneId # NoZone

\* A Cloudflare account with a zone name that is not the host's and no zone id.
OutOfZone(c) ==
    /\ c.provider = "cloudflare" /\ c.zoneId = NoZone
    /\ c.zoneName # NoDomain /\ ~Bare(c.host)
    /\ ~IsSuffix(c.zoneName, c.host)

LEMMA FullNameSeq ==
    ASSUME NEW c, Configured(c)
    PROVE  FullName(c) \in Seq(STRING)
<1> DEFINE apex == IF c.zoneName = NoDomain /\ c.zoneId # NoZone THEN ZoneName[c.zoneId] ELSE c.zoneName
<1>1. apex \in Seq(STRING) /\ c.host \in Seq(STRING)
  BY ZoneAssumption DEF Configured
<1> HIDE DEF apex
<1>2. c.host \o apex \in Seq(STRING)
  BY <1>1, ConcatProperties
<1>3. FullName(c) \in {c.host \o apex, c.host}
  BY DEF FullName, apex
<1> QED  BY <1>1, <1>2, <1>3

\* A host that is split off a domain is its full name in it.
LEMMA SplitProperties ==
    ASSUME NEW h \in Seq(STRING) \ {NoDomain}, NEW d \in Seq(STRING) \ {NoDomain},
           SplitDomainHost(h, d) # Outside
    PROVE  /\ SplitDomainHost(h, d).domain = d
           /\ SplitDomainHost(h, d).name = IF Bare(h) /\ ~IsSuffix(d, h) THEN h \o d ELSE h
           /\ SplitDomainHost(h, d).name \in Seq(STRING)
           /\ IsSuffix(d, SplitDomainHost(h, d).name)
<1>1. h \in Seq(STRING) /\ d \in Seq(STRING)
  OBVIOUS
<1>2. h \o d \in Seq(STRING) /\ IsSuffix(d, h \o d)
  BY <1>1, ConcatProperties, ConcatSuffix
<1>3. CASE IsSuffix(d, h)
  <2>1. SplitDomainHost(h, d) = Placed(d, h)
    BY <1>3 DEF SplitDomainHost
  <2> QED  BY <1>3, <2>1 DEF Placed
<1>4. CASE ~IsSuffix(d, h) /\ Bare(h)
  <2>1. SplitDomainHost(h, d) = Placed(d, h \o d)
    BY <1>4 DEF SplitDomainHost
  <2> QED  BY <1>2, <1>4, <2>1 DEF Placed
<1>5. CASE ~IsSuffix(d, h) /\ ~Bare(h)
  BY <1>5 DEF SplitDomainHost
<1> QED  BY <1>3, <1>4, <1>5

\* A host whose domain is derived has two or three labels, and is its full name.
LEMMA DerivedProperties ==
    ASSUME NEW h \in Seq(STRING), DeriveTwoLabelApex(h) # Outside
    PROVE  /\ DeriveTwoLabelApex(h).domain = LastTwo(h) /\ DeriveTwoLabelApex(h).name = h
           /\ ~Bare(h) /\ LastTwo(h) \in Seq(STRING) \ {NoDomain} /\ IsSuffix(LastTwo(h), h)
<1>1. Len(h) \in 2 .. 3 /\ DeriveTwoLabelApex(h) = Placed(LastTwo(h), h)
  BY DEF DeriveTwoLabelApex
<1>2. Len(h) - 1 \in 1 .. Len(h) /\ Len(h) # 1
  <2>1. \A n \in 2 .. 3 : n - 1 \in 1 .. n /\ n # 1
    OBVIOUS
  <2> QED  BY <1>1, <2>1, Zenon
<1>3. LastTwo(h) \in Seq(STRING) /\ IsSuffix(LastTwo(h), h)
  BY <1>2, TailSuffix DEF LastTwo
<1>4. LastTwo(h) # NoDomain
  <2>1. Len(SubSeq(h, Len(h) - 1, Len(h))) = 2
    BY <1>1, SubSeqProperties
  <2>2. Len(<< >>) = 0
    BY EmptySeq
  <2>3. Len(SubSeq(h, Len(h) - 1, Len(h))) # Len(<< >>)
    BY ONLY <2>1, <2>2
  <2> QED  BY <2>3, Zenon DEF LastTwo, NoDomain
<1> QED  BY <1>1, <1>2, <1>3, <1>4 DEF Placed, Bare

\* A host that is placed in a domain, given or derived, where the domain is the one that
\* FullName completes the host with.
LEMMA SplitIsFullName ==
    ASSUME NEW c, Configured(c), NEW d \in Seq(STRING),
           SplitDomainHost(c.host, d) # Outside,
           \/ d = NoDomain
           \/ c.zoneName # NoDomain /\ c.zoneName = d
           \/ c.zoneName = NoDomain /\ c.zoneId # NoZone /\ ZoneName[c.zoneId] = d
           \/ ~Bare(c.host)
    PROVE  LET place == SplitDomainHost(c.host, d)
           IN  /\ place.name = FullName(c) /\ place.name \in Seq(STRING)
               /\ place.domain \in Seq(STRING) \ {NoDomain} /\ IsSuffix(place.domain, place.name)
               /\ d # NoDomain => place.domain = d
<1> DEFINE place == SplitDomainHost(c.host, d)
<1>0. c.host \in Seq(STRING) \ {NoDomain}
  BY DEF Configured
<1>1. CASE d = NoDomain
  <2>1. place = DeriveTwoLabelApex(c.host)
    BY <1>1 DEF SplitDomainHost
  <2>2. /\ place.domain = LastTwo(c.host) /\ place.name = c.host
        /\ ~Bare(c.host) /\ LastTwo(c.host) \in Seq(STRING) \ {NoDomain} /\ IsSuffix(LastTwo(c.host), c.host)
    BY <1>0, <2>1, DerivedProperties
  <2>3. FullName(c) = c.host
    BY <2>2 DEF FullName
  <2> QED  BY <1>0, <1>1, <2>2, <2>3
<1>2. CASE d # NoDomain
  <2>1. /\ place.domain = d /\ place.name = IF Bare(c.host) /\ ~IsSuffix(d, c.host) THEN c.host \o d ELSE c.host
        /\ place.name \in Seq(STRING) /\ IsSuffix(d, place.name)
    BY <1>0, <1>2, SplitProperties
  <2>2. FullName(c) = IF Bare(c.host) /\ ~IsSuffix(d, c.host) THEN c.host \o d ELSE c.host
    BY <1>2 DEF FullName
  <2> QED  BY <1>2, <2>1, <2>2
<1> QED  BY <1>1, <1>2

\* The place of a host: the end of its name is the name of the zone, and it is the full
\* name of the host.  Route 53 keeps the name as configured, in the zone or not.
PlacedWell(c, z) ==
    /\ z.zone \in Zones \cup {NoZone}
    /\ z.name \in Seq(STRING) /\ z.domain \in Seq(STRING) \ {NoDomain}
    /\ z.zone # NoZone => z.domain = ZoneName[z.zone]
    /\ IF c.provider = "route53" THEN z.name = c.host /\ (IsSuffix(z.domain, z.name) \/ Bare(c.host))
                                  ELSE IsSuffix(z.domain, z.name)
    /\ IsSuffix(z.domain, z.name) /\ ~OutOfZone(c) => z.name = FullName(c)

LEMMA ZoneAtPlaced ==
    ASSUME NEW c, Configured(c), c.provider # "route53",
           ZoneAt(SplitDomainHost(c.host, c.zoneName)) # Nowhere
    PROVE  PlacedWell(c, ZoneAt(SplitDomainHost(c.host, c.zoneName)))
<1> DEFINE place == SplitDomainHost(c.host, c.zoneName)
<1>1. place # Outside /\ ZoneAt(place) = InZone(ZoneNamed(place.domain), place)
  BY DEF ZoneAt
<1>2. c.zoneName \in Seq(STRING)
  BY DEF Configured
<1>3. /\ place.name = FullName(c) /\ place.name \in Seq(STRING)
      /\ place.domain \in Seq(STRING) \ {NoDomain} /\ IsSuffix(place.domain, place.name)
  BY <1>1, <1>2, SplitIsFullName
<1>4. ZoneNamed(place.domain) # NoZone =>
        ZoneNamed(place.domain) \in Zones /\ ZoneName[ZoneNamed(place.domain)] = place.domain
  BY ZoneNamedProperties
<1> HIDE DEF place
<1> QED  BY <1>1, <1>3, <1>4 DEF PlacedWell, InZone, place

\* Providers whose zone id is checked against its name.
LEMMA IdPlaced ==
    ASSUME NEW c, Configured(c), c.provider # "route53",
           NEW z \in Zones, c.zoneName \in {NoDomain, ZoneName[z]},
           c.zoneName = NoDomain => c.zoneId = z \/ ~Bare(c.host),
           SplitDomainHost(c.host, ZoneName[z]) # Outside
    PROVE  PlacedWell(c, InZone(z, SplitDomainHost(c.host, ZoneName[z])))
<1> DEFINE place == SplitDomainHost(c.host, ZoneName[z])
<1>1. ZoneName[z] \in Seq(STRING) /\ ZoneName[z] # NoDomain /\ z # NoZone
  BY ZoneAssumption
<1>2. \/ c.zoneName # NoDomain /\ c.zoneName = ZoneName[z]
      \/ c.zoneName = NoDomain /\ c.zoneId # NoZone /\ ZoneName[c.zoneId] = ZoneName[z]
      \/ ~Bare(c.host)
  BY <1>1
<1>3. /\ place.name = FullName(c) /\ place.name \in Seq(STRING)
      /\ place.domain \in Seq(STRING) \ {NoDomain} /\ IsSuffix(place.domain, place.name)
      /\ place.domain = ZoneName[z]
  BY <1>1, <1>2, SplitIsFullName
<1> HIDE DEF place
<1> QED  BY <1>3 DEF PlacedWell, InZone, place

LEMMA CloudflarePlaced ==
    ASSUME NEW c, Configured(c), c.provider = "cloudflare", CloudflareZone(c) # Nowhere
    PROVE  PlacedWell(c, CloudflareZone(c)) /\ CloudflareZone(c).zone \in Zones
<1> DEFINE z == IF c.zoneId # NoZone THEN c.zoneId ELSE ResolveZoneId(c)
           apex == ZoneName[z]
           name == IF IsSuffix(apex, c.host) THEN c.host ELSE c.host \o apex
           misplaced == \/ c.zoneName \notin {NoDomain, ZoneName[z]}
                        \/ ~Bare(c.host) /\ ~IsSuffix(ZoneName[z], c.host)
<1>1. /\ z # NoZone /\ ~(c.zoneId # NoZone /\ misplaced)
      /\ CloudflareZone(c) = InZone(z, Placed(apex, name))
  BY DEF CloudflareZone, Completed
<1>2. z \in Zones /\ (c.zoneId = NoZone /\ c.zoneName # NoDomain => apex = c.zoneName)
      /\ (c.zoneId = NoZone /\ c.zoneName = NoDomain => ~Bare(c.host) /\ IsSuffix(apex, c.host))
  <2>1. CASE c.zoneId # NoZone
    BY <2>1 DEF Configured
  <2>2. CASE c.zoneId = NoZone /\ c.zoneName # NoDomain
    BY <1>1, <2>2, ZoneNamedProperties DEF ResolveZoneId
  <2>3. CASE c.zoneId = NoZone /\ c.zoneName = NoDomain
    BY <1>1, <2>3, WalkProperties DEF ResolveZoneId, Configured
  <2> QED  BY <2>1, <2>2, <2>3
<1>3. apex \in Seq(STRING) \ {NoDomain} /\ c.host \in Seq(STRING)
  BY <1>2, ZoneAssumption DEF Configured
<1>4. name \in Seq(STRING) /\ IsSuffix(apex, name)
  BY <1>3, ConcatProperties, ConcatSuffix
<1>5. ASSUME ~OutOfZone(c) PROVE name = FullName(c)
  <2>1. CASE c.zoneId # NoZone
    <3>1. apex = ZoneName[c.zoneId] /\ c.zoneName \in {NoDomain, apex} /\ (~Bare(c.host) => IsSuffix(apex, c.host))
      BY <1>1, <2>1
    <3> HIDE DEF apex
    <3> QED  BY <2>1, <3>1 DEF FullName
  <2>2. CASE c.zoneId = NoZone /\ c.zoneName # NoDomain
    <3>1. apex = c.zoneName /\ (~Bare(c.host) => IsSuffix(apex, c.host))
      BY <1>2, <1>5, <2>2 DEF OutOfZone
    <3> HIDE DEF apex, z
    <3> QED  BY <2>2, <3>1 DEF FullName
  <2>3. CASE c.zoneId = NoZone /\ c.zoneName = NoDomain
    <3>1. ~Bare(c.host) /\ IsSuffix(apex, c.host)
      BY <1>2, <2>3
    <3> HIDE DEF apex, z
    <3> QED  BY <3>1 DEF FullName
  <2> QED  BY <2>1, <2>2, <2>3
<1> HIDE DEF z, name
<1> QED  BY <1>1, <1>2, <1>3, <1>4, <1>5 DEF PlacedWell, InZone, Placed

LEMMA HetznerPlaced ==
    ASSUME NEW c, Configured(c), c.provider = "hetzner", HetznerZone(c) # Nowhere
    PROVE  PlacedWell(c, HetznerZone(c)) /\ HetznerZone(c).zone \in Zones
<1> DEFINE z == IF c.zoneId # NoZone THEN c.zoneId ELSE ResolveZoneId(c)
           place == SplitDomainHost(c.host, ZoneName[z])
<1>1. /\ z # NoZone /\ c.zoneName \in {NoDomain, ZoneName[z]} /\ place # Outside
      /\ HetznerZone(c) = InZone(z, place)
  BY DEF HetznerZone
<1>2. z \in Zones /\ (c.zoneName = NoDomain => c.zoneId = z \/ ~Bare(c.host))
  <2>1. CASE c.zoneId # NoZone
    BY <2>1 DEF Configured
  <2>2. CASE c.zoneId = NoZone /\ c.zoneName # NoDomain
    BY <1>1, <2>2, ZoneNamedProperties DEF ResolveZoneId
  <2>3. CASE c.zoneId = NoZone /\ c.zoneName = NoDomain
    BY <1>1, <2>3, WalkProperties DEF ResolveZoneId, Configured
  <2> QED  BY <2>1, <2>2, <2>3
<1> HIDE DEF z
<1>3. PlacedWell(c, InZone(z, place))
  BY <1>1, <1>2, IdPlaced
<1> QED  BY <1>1, <1>2, <1>3 DEF InZone

\* Where a provider that keeps records places the host: under its full name, which ends
\* with the zone's, whichever of zone name, zone id and host it goes by (the update
\* functions of lib/providers).  Route 53 takes the host as it is configured: what it names
\* is the full name where it ends with the zone's, and is outside the zone for a bare label.
THEOREM ZonePlaced ==
    ASSUME NEW c, Configured(c), c.provider \in RecordApis, ZoneOf(c) # Nowhere
    PROVE  PlacedWell(c, ZoneOf(c))
<1>1. CASE c.provider = "cloudflare"
  BY <1>1, CloudflarePlaced DEF ZoneOf
<1>2. CASE c.provider = "hetzner"
  BY <1>2, HetznerPlaced DEF ZoneOf
<1>3. CASE c.provider \in {"digitalocean", "gandi", "ovh", "contabo"}
  <2>1. ZoneOf(c) = ZoneAt(SplitDomainHost(c.host, c.zoneName))
    BY <1>3 DEF ZoneOf, DigitalOceanZone, GandiZone, OvhZone, ContaboZone
  <2> QED  BY <1>3, <2>1, ZoneAtPlaced
<1>4. CASE c.provider = "porkbun"
  <2>1. SplitHost(c.host, c.zoneName) = SplitDomainHost(c.host, c.zoneName)
    BY CopiesAgree
  <2>2. ZoneOf(c) = ZoneAt(SplitDomainHost(c.host, c.zoneName))
    BY <1>4, <2>1 DEF ZoneOf, PorkbunZone
  <2> QED  BY <1>4, <2>2, ZoneAtPlaced
<1>5. CASE c.provider = "route53"
  <2>1. c.zoneName = NoDomain /\ c.zoneId \in Zones
    BY <1>5 DEF Configured, ReadsZoneName, ZoneIdRequired
  <2>2. ZoneOf(c) = InZone(c.zoneId, Placed(ZoneName[c.zoneId], c.host))
    BY <1>5 DEF ZoneOf, Route53Zone
  <2>3. /\ ZoneOf(c).zone = c.zoneId /\ ZoneOf(c).domain = ZoneName[c.zoneId]
        /\ ZoneOf(c).name = c.host
    BY <2>2 DEF InZone, Placed
  <2>4. ZoneName[c.zoneId] \in Seq(STRING) \ {NoDomain} /\ c.host \in Seq(STRING)
    BY <2>1, ZoneAssumption DEF Configured
  <2>5. IsSuffix(ZoneName[c.zoneId], c.host) => FullName(c) = c.host
    <3>1. c.zoneId # NoZone
      BY <2>1, ZoneAssumption
    <3> QED  BY <2>1, <3>1 DEF FullName
  <2>6. IsSuffix(ZoneName[c.zoneId], c.host) \/ Bare(c.host)
    BY <1>5, <2>4 DEF ZoneOf, Route53Zone, SplitDomainHost
  <2> QED  BY <1>5, <2>1, <2>3, <2>4, <2>5, <2>6 DEF PlacedWell
<1>6. CASE c.provider \in {"linode", "bunny"}
  <2>1. c.zoneId \in Zones
    BY <1>6 DEF Configured, ZoneIdRequired
  <2>2. /\ SplitDomainHost(c.host, ZoneName[c.zoneId]) # Outside
        /\ c.zoneName = ZoneName[c.zoneId]
        /\ ZoneOf(c) = InZone(c.zoneId, SplitDomainHost(c.host, ZoneName[c.zoneId]))
    BY <1>6 DEF ZoneOf, LinodeZone, BunnyZone
  <2> QED  BY <1>6, <2>1, <2>2, IdPlaced
<1> QED  BY <1>1, <1>2, <1>3, <1>4, <1>5, <1>6 DEF RecordApis

\* Cloudflare completes no name that ends with the zone's.
LEMMA CloudflareName ==
    ASSUME NEW c, c.provider = "cloudflare", ZoneOf(c) # Nowhere, IsSuffix(ZoneOf(c).domain, c.host)
    PROVE  ZoneOf(c).name = c.host
BY DEF ZoneOf, CloudflareZone, Completed, InZone, Placed

\* A provider that is told the zone's id knows the zone.
LEMMA IdIsKnown ==
    ASSUME NEW c, Configured(c), c.provider \in ZoneIdRequired, ZoneOf(c) # Nowhere
    PROVE  ZoneOf(c).zone \in Zones
<1>1. c.zoneId \in Zones /\ c.provider \in {"route53", "linode", "bunny"}
  BY DEF Configured, ZoneIdRequired
<1>2. ZoneOf(c).zone = c.zoneId
  BY <1>1 DEF ZoneOf, Route53Zone, LinodeZone, BunnyZone, InZone
<1> QED  BY <1>1, <1>2

\* Namecheap puts the host together the same way.
LEMMA BoundIsFullName ==
    ASSUME NEW c, Configured(c), c.provider = "namecheap",
           BindNamecheapHost(c.zoneName, c.host) # Outside,
           BindNamecheapHost(c.zoneName, c.host).domain # NoDomain
    PROVE  BindNamecheapHost(c.zoneName, c.host).name = FullName(c)
<1>1. c.zoneId = NoZone /\ c.zoneName \in Seq(STRING)
  BY DEF Configured, ReadsZoneId
<1>2. BindNamecheapHost(c.zoneName, c.host) = SplitDomainHost(c.host, c.zoneName)
  BY DEF BindNamecheapHost, SplitDomainHost, Placed
<1> QED  BY <1>1, <1>2, SplitIsFullName

\* A host of the other query providers is its own full name.
LEMMA QueriedIsFullName ==
    ASSUME NEW c, Configured(c), c.provider \in QueryProviders \ {"namecheap"}
    PROVE  FullName(c) = c.host
<1>1. c.zoneName = NoDomain /\ c.zoneId = NoZone /\ c.host \in Seq(STRING)
  BY DEF Configured, ReadsZoneName, ReadsZoneId, QueryProviders, NicProviders, RecordApis
<1>2. IsSuffix(NoDomain, c.host)
  BY <1>1, EmptySuffix
<1> QED  BY <1>1, <1>2 DEF FullName

(***************************************************************************)
(* What a lookup leads to                                                  *)
(***************************************************************************)

LEMMA CardinalityOne ==
    ASSUME NEW rs, IsFiniteSet(rs), NEW r, FirstOf(rs, r)
    PROVE  /\ Cardinality(rs) \in Nat
           /\ Cardinality(rs) = 1 => rs = {r}
           /\ ~(Cardinality(rs) > 1) /\ Cardinality(rs) # 1 => rs = {}
<1>1. Cardinality(rs) \in Nat /\ (Cardinality(rs) = 0 <=> rs = {})
  BY FS_CardinalityType, FS_EmptySet
<1>2. ASSUME Cardinality(rs) = 1 PROVE rs = {r}
  <2>1. PICK x : rs = {x}
    BY <1>2, FS_Singleton
  <2> QED  BY <2>1 DEF FirstOf
<1> QED  BY <1>1, <1>2

\* The decision act upon the records rs, the first of which is r, when v is wanted; tunes
\* says that the provider compares the TTL, one that it leaves no second record.
Decision(rs, r, v, tunes, one, act) ==
    \/ /\ act = Skip
       /\ \E s \in rs : s.value = v /\ (s.tuned \/ ~tunes)
       /\ one => \A s \in rs : s.value = v
    \/ act \in {Fail, Throw}
    \/ act = Edit(r) /\ r \in rs /\ (one => rs = {r})
    \/ act = EditAll /\ rs # {}
    \/ act = Set
    \/ act = Create /\ rs = {}

\* A provider that keeps records skips the write only if a record looked up has the
\* address, edits only a record looked up, and creates only where there is none: the
\* upsert functions of lib/providers agree in this.
THEOREM UpsertDecides ==
    ASSUME NEW c, c.provider \in RecordApis, NEW rs, IsFiniteSet(rs), NEW r, FirstOf(rs, r),
           c.provider = "ovh" => rs = {} \/ rs = {r}, NEW v
    PROVE  Decision(rs, r, v,
                    c.provider \in {"cloudflare", "route53", "gandi", "linode", "ovh", "bunny", "contabo"},
                    c.provider \in {"route53", "gandi", "porkbun", "digitalocean", "ovh", "contabo"},
                    Upsert(c, rs, r, v))
<1> DEFINE tunes == c.provider \in {"cloudflare", "route53", "gandi", "linode", "ovh", "bunny", "contabo"}
           one   == c.provider \in {"route53", "gandi", "porkbun", "digitalocean", "ovh", "contabo"}
           act   == Upsert(c, rs, r, v)
<1>0. rs # {} => r \in rs
  BY DEF FirstOf
<1>1. CASE c.provider \in {"cloudflare", "linode", "bunny", "ovh"}
  <2>1. \/ rs # {} /\ r.value = v /\ r.tuned /\ act = Skip
        \/ rs # {} /\ act = Edit(r)
        \/ rs = {} /\ act \in {Create, Fail}
    <3>1. CASE c.provider = "cloudflare"
      BY <3>1 DEF Upsert, CloudflareUpsert
    <3>2. CASE c.provider = "linode"
      BY <3>2 DEF Upsert, LinodeUpsert
    <3>3. CASE c.provider = "bunny"
      BY <3>3 DEF Upsert, BunnyUpsert
    <3>4. CASE c.provider = "ovh"
      BY <3>4 DEF Upsert, OvhUpsert
    <3> QED  BY <1>1, <3>1, <3>2, <3>3, <3>4
  <2>2. one => rs = {} \/ rs = {r}
    BY <1>1
  <2> HIDE DEF one, tunes, act
  <2> QED  BY <1>0, <2>1, <2>2 DEF Decision, one, tunes, act
<1>2. CASE c.provider \in {"route53", "gandi"}
  <2>1. \/ (\E s \in rs : rs = {s} /\ s.value = v /\ s.tuned) /\ act = Skip
        \/ act \in {Fail, Set}
    <3>1. CASE c.provider = "route53"
      BY <3>1 DEF Upsert, Route53UpsertRecordSet
    <3>2. CASE c.provider = "gandi"
      BY <3>2 DEF Upsert, GandiUpsert
    <3> QED  BY <1>2, <3>1, <3>2
  <2> HIDE DEF one, tunes, act
  <2> QED  BY <2>1 DEF Decision, one, tunes, act
<1>3. CASE c.provider = "hetzner"
  <2>1. \/ rs # {} /\ r.value = v /\ act = Skip
        \/ rs # {} /\ act = Edit(r)
        \/ rs = {} /\ act = Create
    BY <1>3 DEF Upsert, HetznerUpsert
  <2>2. ~one /\ ~tunes
    BY <1>3
  <2> HIDE DEF one, tunes, act
  <2> QED  BY <1>0, <2>1, <2>2 DEF Decision, one, tunes, act
<1>4. CASE c.provider \in {"digitalocean", "contabo"}
  <2>1. \/ act \in {Fail, Throw}
        \/ Cardinality(rs) = 1 /\ r.value = v /\ (r.tuned \/ ~tunes) /\ act = Skip
        \/ Cardinality(rs) = 1 /\ act = Edit(r)
        \/ ~(Cardinality(rs) > 1) /\ Cardinality(rs) # 1 /\ act = Create
    <3>1. CASE c.provider = "digitalocean"
      <4>1. ~tunes
        BY <3>1
      <4> QED  BY <3>1, <4>1 DEF Upsert, DigitalOceanUpsert
    <3>2. CASE c.provider = "contabo"
      BY <3>2 DEF Upsert, ContaboUpsert
    <3> QED  BY <1>4, <3>1, <3>2
  <2>2. (Cardinality(rs) = 1 => rs = {r}) /\ (~(Cardinality(rs) > 1) /\ Cardinality(rs) # 1 => rs = {})
    BY CardinalityOne
  <2> HIDE DEF one, tunes, act
  <2> QED  BY <2>1, <2>2 DEF Decision, one, tunes, act
<1>5. CASE c.provider = "porkbun"
  <2>1. \/ rs # {} /\ (\A s \in rs : s.value = v) /\ act = Skip
        \/ rs # {} /\ act = EditAll
        \/ rs = {} /\ act = Create
    BY <1>5 DEF Upsert, PorkbunUpsert
  <2>2. ~tunes
    BY <1>5
  <2> HIDE DEF one, tunes, act
  <2> QED  BY <1>0, <2>1, <2>2 DEF Decision, one, tunes, act
<1> QED  BY <1>1, <1>2, <1>3, <1>4, <1>5 DEF RecordApis
===============================================================================
