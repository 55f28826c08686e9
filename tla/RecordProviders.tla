--------------------------- MODULE RecordProviders ---------------------------
(***************************************************************************)
(* What the providers that keep records do with one answer of their API    *)
(* (lib/providers): where the host's zone is, what an answer to a lookup   *)
(* or a write means, and what to do with the records found.  RecordSync    *)
(* puts these decisions in the order in which the requests are made.       *)
(*                                                                         *)
(* An account c has the provider, host, zoneName and zoneId of its         *)
(* settings, the pinned record id of Cloudflare, create (the               *)
(* createIfMissing of Cloudflare and Route53), and completes: whether      *)
(* Cloudflare's API completes the name of a listing as it does that of a   *)
(* record.                                                                 *)
(***************************************************************************)
EXTENDS ProviderConfig

CONSTANT ZoneName     \* the zones of the provider: the name of each zone id

Zones   == DOMAIN ZoneName
NoZone  == 0
NoPin   == 0
NoValue == 0

ASSUME ZoneAssumption ==
    /\ NoZone \notin Zones
    /\ \A z \in Zones : ZoneName[z] \in Seq(STRING) \ {NoDomain}

RecordApis == {"cloudflare", "route53", "hetzner", "digitalocean", "porkbun", "gandi", "linode",
               "ovh", "bunny", "contabo"}

(***************************************************************************)
(* Answers.  request() ends every request: with a response, or by throwing *)
(* at its deadline ("lost").  A response is a success, a refusal (an HTTP  *)
(* or API error), a success with nothing in it ("none"), or unreadable.    *)
(***************************************************************************)
Replies == {"ok", "none", "refused", "invalid", "lost"}

\* What the client sees: a result, an error result, or an exception.
CloudflareJson(reply) ==
    CASE reply \in {"lost", "invalid"} -> "throw"
      [] reply = "refused"             -> "fail"
      [] OTHER                         -> reply
AssertCloudflareSuccess(seen) == IF seen = "fail" THEN "throw" ELSE seen

\* findZoneByName and findRecord throw on a refusal, parseHetzner on a bad body.
HetznerLookup(reply) == IF reply \in {"ok", "none"} THEN reply ELSE "throw"
HetznerWrite(reply) ==
    CASE reply \in {"lost", "invalid"} -> "throw" [] reply = "refused" -> "fail" [] OTHER -> "ok"

DigitalOceanLookup(reply) == IF reply \in {"ok", "none"} THEN reply ELSE "throw"
DigitalOceanWrite(reply) ==
    CASE reply \in {"lost", "invalid"} -> "throw" [] reply = "refused" -> "fail" [] OTHER -> "ok"

\* An answer without a readable record set counts as no record set.
Route53Lookup(reply) ==
    CASE reply \in {"lost", "refused"}  -> "throw"
      [] reply \in {"invalid", "none"}  -> "none"
      [] OTHER                          -> "ok"

PorkbunJson(reply) ==
    CASE reply \in {"lost", "invalid"} -> "throw" [] reply = "refused" -> "fail" [] OTHER -> reply

\* The signed request fetches the server's time first; that may throw as well.
OvhLookup(reply) ==
    CASE reply = "lost" -> "throw" [] reply \in {"refused", "invalid"} -> "fail" [] OTHER -> reply

PlainLookup(reply) ==
    CASE reply = "lost" -> "throw" [] reply \in {"refused", "invalid"} -> "fail" [] OTHER -> reply

\* A write whose answer is read for its status alone.
PlainWrite(reply) ==
    CASE reply = "lost" -> "throw" [] reply = "refused" -> "fail" [] OTHER -> "ok"

LookupSeen(p, reply) ==
    CASE p = "cloudflare"   -> AssertCloudflareSuccess(CloudflareJson(reply))
      [] p = "hetzner"      -> HetznerLookup(reply)
      [] p = "digitalocean" -> DigitalOceanLookup(reply)
      [] p = "route53"      -> Route53Lookup(reply)
      [] p = "porkbun"      -> PorkbunJson(reply)
      [] p = "ovh"          -> OvhLookup(reply)
      [] OTHER              -> PlainLookup(reply)

WriteSeen(p, reply) ==
    CASE p = "cloudflare"   -> IF CloudflareJson(reply) = "none" THEN "ok" ELSE CloudflareJson(reply)
      [] p = "hetzner"      -> HetznerWrite(reply)
      [] p = "digitalocean" -> DigitalOceanWrite(reply)
      [] p = "porkbun"      -> IF PorkbunJson(reply) = "none" THEN "ok" ELSE PorkbunJson(reply)
      [] OTHER              -> PlainWrite(reply)

(***************************************************************************)
(* The zone.  Each operator is null (Nowhere) where the provider refuses   *)
(* the host; InZone is the zone id, its domain and the host's full name.   *)
(***************************************************************************)
InZone(z, place) == [zone |-> z, domain |-> place.domain, name |-> place.name]
Nowhere == InZone(NoZone, Outside)

ZoneNamed(n) == IF \E z \in Zones : ZoneName[z] = n THEN CHOOSE z \in Zones : ZoneName[z] = n
                                                    ELSE NoZone
ZoneAt(place) == IF place = Outside THEN Nowhere ELSE InZone(ZoneNamed(place.domain), place)

\* Without a name to go by, the longest suffix of the host that is a zone.
WalkZones(h) ==
    LET found == {i \in 1 .. Len(h) - 1 : ZoneNamed(SubSeq(h, i, Len(h))) # NoZone}
    IN  IF found = {} THEN NoZone
        ELSE ZoneNamed(SubSeq(h, CHOOSE i \in found : \A j \in found : i <= j, Len(h)))

ResolveZoneId(c) == IF c.zoneName # NoDomain THEN ZoneNamed(c.zoneName) ELSE WalkZones(c.host)

\* The API completes the name of a record that does not end with the zone's.
Completed(h, apex) == Placed(apex, IF IsSuffix(apex, h) THEN h ELSE h \o apex)

\* A zone id is checked against the zone's name and the host; a zone found by its
\* configured name is taken as it is.
CloudflareZone(c) ==
    LET z == IF c.zoneId # NoZone THEN c.zoneId ELSE ResolveZoneId(c)
        misplaced == \/ c.zoneName \notin {NoDomain, ZoneName[z]}
                     \/ ~Bare(c.host) /\ ~IsSuffix(ZoneName[z], c.host)
    IN  IF z = NoZone \/ (c.zoneId # NoZone /\ misplaced)
          THEN Nowhere
          ELSE InZone(z, Completed(c.host, ZoneName[z]))

\* The host is checked against the zone's name and then named as it is configured: a bare
\* label passes the check and is asked for and written as a name outside the zone.
Route53Zone(c) ==
    IF SplitDomainHost(c.host, ZoneName[c.zoneId]) = Outside
      THEN Nowhere
      ELSE InZone(c.zoneId, Placed(ZoneName[c.zoneId], c.host))

HetznerZone(c) ==
    LET z == IF c.zoneId # NoZone THEN c.zoneId ELSE ResolveZoneId(c)
        place == SplitDomainHost(c.host, ZoneName[z])
    IN  IF z = NoZone \/ c.zoneName \notin {NoDomain, ZoneName[z]} \/ place = Outside
          THEN Nowhere ELSE InZone(z, place)

\* The domain is part of the URL: no request tells whether the zone exists.
DigitalOceanZone(c) == ZoneAt(SplitDomainHost(c.host, c.zoneName))
PorkbunZone(c)      == ZoneAt(SplitHost(c.host, c.zoneName))
GandiZone(c)        == ZoneAt(SplitDomainHost(c.host, c.zoneName))
OvhZone(c)          == ZoneAt(SplitDomainHost(c.host, c.zoneName))
ContaboZone(c)      == ZoneAt(SplitDomainHost(c.host, c.zoneName))

LinodeZone(c) ==
    LET place == SplitDomainHost(c.host, ZoneName[c.zoneId])
    IN  IF ZoneName[c.zoneId] # c.zoneName \/ place = Outside
          THEN Nowhere ELSE InZone(c.zoneId, place)

BunnyZone(c) ==
    LET place == SplitDomainHost(c.host, ZoneName[c.zoneId])
    IN  IF ZoneName[c.zoneId] # c.zoneName \/ place = Outside
          THEN Nowhere ELSE InZone(c.zoneId, place)

ZoneOf(c) ==
    CASE c.provider = "cloudflare"   -> CloudflareZone(c)
      [] c.provider = "route53"      -> Route53Zone(c)
      [] c.provider = "hetzner"      -> HetznerZone(c)
      [] c.provider = "digitalocean" -> DigitalOceanZone(c)
      [] c.provider = "porkbun"      -> PorkbunZone(c)
      [] c.provider = "gandi"        -> GandiZone(c)
      [] c.provider = "ovh"          -> OvhZone(c)
      [] c.provider = "contabo"      -> ContaboZone(c)
      [] c.provider = "linode"       -> LinodeZone(c)
      [] c.provider = "bunny"        -> BunnyZone(c)

\* Providers whose configuration has a zone or domain name, and a zone id.
ReadsZoneName == (RecordApis \ {"route53"}) \cup {"namecheap"}
ReadsZoneId   == {"cloudflare", "hetzner", "route53", "linode", "bunny"}

\* The name that an account means: a bare label stands for the name under its zone.
FullName(c) ==
    LET apex == IF c.zoneName = NoDomain /\ c.zoneId # NoZone THEN ZoneName[c.zoneId] ELSE c.zoneName
    IN  IF Bare(c.host) /\ ~IsSuffix(apex, c.host) THEN c.host \o apex ELSE c.host

\* Providers that ask the API for the zone (Contabo: for a token) before the records.
AsksForZone == {"cloudflare", "route53", "hetzner", "linode", "bunny", "contabo"}

(***************************************************************************)
(* The records.  rs is what the lookup returned for the host and family, r *)
(* the one of them that comes first, v the address wanted.                 *)
(***************************************************************************)
Act(what, id) == [what |-> what, id |-> id]
Skip   == Act("skip", 0)       \* unchanged
Create == Act("create", 0)
Set    == Act("set", 0)        \* replace the record set, or make it
EditAll == Act("editAll", 0)
Edit(r) == Act("edit", r.id)
Fail   == Act("fail", 0)
Throw  == Act("throw", 0)

FirstOf(rs, r) == rs # {} => r \in rs

CloudflareUpsert(c, rs, r, v) ==
    CASE rs # {} /\ r.value = v /\ r.tuned      -> Skip
      [] rs # {} /\ ~(r.value = v /\ r.tuned)   -> Edit(r)
      [] rs = {} /\ c.create                    -> Create
      [] OTHER                                  -> Fail

Route53UpsertRecordSet(c, rs, v) ==
    CASE \E r \in rs : rs = {r} /\ r.value = v /\ r.tuned -> Skip
      [] rs = {} /\ ~c.create                             -> Fail
      [] OTHER                                            -> Set

HetznerUpsert(rs, r, v) ==
    CASE rs # {} /\ r.value = v -> Skip [] rs # {} /\ r.value # v -> Edit(r) [] OTHER -> Create

DigitalOceanUpsert(rs, r, v) ==
    CASE Cardinality(rs) > 1              -> Throw
      [] Cardinality(rs) = 1 /\ r.value = v -> Skip
      [] Cardinality(rs) = 1 /\ r.value # v -> Edit(r)
      [] OTHER                            -> Create

PorkbunUpsertAny(rs, v) ==
    CASE rs # {} /\ (\E r \in rs : r.value = v) -> Skip
      [] rs # {} /\ (\A r \in rs : r.value # v) -> EditAll
      [] OTHER                                  -> Create

PorkbunUpsert(rs, v) ==
    CASE rs # {} /\ (\A r \in rs : r.value = v) -> Skip
      [] rs # {} /\ (\E r \in rs : r.value # v) -> EditAll
      [] OTHER                                  -> Create

GandiUpsert(rs, v) ==
    IF \E r \in rs : rs = {r} /\ r.value = v /\ r.tuned THEN Skip ELSE Set

LinodeUpsertByTarget(rs, r, v) == IF rs # {} /\ r.value = v THEN Skip ELSE Create

LinodeUpsert(rs, r, v) ==
    CASE rs # {} /\ r.value = v /\ r.tuned    -> Skip
      [] rs # {} /\ ~(r.value = v /\ r.tuned) -> Edit(r)
      [] OTHER                                -> Create

BunnyUpsert(rs, r, v) ==
    CASE rs # {} /\ r.value = v /\ r.tuned    -> Skip
      [] rs # {} /\ ~(r.value = v /\ r.tuned) -> Edit(r)
      [] OTHER                                -> Create

\* OVH lists ids only; the one record is read in a second request.
OvhIds(rs) == IF Cardinality(rs) > 1 THEN "duplicates" ELSE IF rs = {} THEN "absent" ELSE "one"
OvhUpsert(rs, r, v) ==
    CASE rs # {} /\ r.value = v /\ r.tuned    -> Skip
      [] rs # {} /\ ~(r.value = v /\ r.tuned) -> Edit(r)
      [] OTHER                                -> Create

ContaboUpsert(rs, r, v) ==
    CASE Cardinality(rs) > 1                          -> Fail
      [] Cardinality(rs) = 1 /\ r.value = v /\ r.tuned -> Skip
      [] Cardinality(rs) = 1 /\ ~(r.value = v /\ r.tuned) -> Edit(r)
      [] OTHER                                        -> Create

Upsert(c, rs, r, v) ==
    CASE c.provider = "cloudflare"   -> CloudflareUpsert(c, rs, r, v)
      [] c.provider = "route53"      -> Route53UpsertRecordSet(c, rs, v)
      [] c.provider = "hetzner"      -> HetznerUpsert(rs, r, v)
      [] c.provider = "digitalocean" -> DigitalOceanUpsert(rs, r, v)
      [] c.provider = "porkbun"      -> PorkbunUpsert(rs, v)
      [] c.provider = "gandi"        -> GandiUpsert(rs, v)
      [] c.provider = "linode"       -> LinodeUpsert(rs, r, v)
      [] c.provider = "bunny"        -> BunnyUpsert(rs, r, v)
      [] c.provider = "ovh"          -> OvhUpsert(rs, r, v)
      [] c.provider = "contabo"      -> ContaboUpsert(rs, r, v)

(***************************************************************************)
(* Providers that take the addresses in one query.                         *)
(***************************************************************************)
NicProviders   == {"dyndns", "noip", "dynu"}
QueryProviders == NicProviders \cup {"duckdns", "namecheap"}

\* The families a query carries.  Namecheap is never sent an IPv6 address.
Carries(p, given) == IF p = "namecheap" THEN given \cap {"A"} ELSE given

\* requireIPv4, or the guard on any address.
HasAddress(p, given) == IF p \in NicProviders \cup {"namecheap"} THEN "A" \in given ELSE given # {}

Words == {"good", "nochg", "error"}     \* the first word of an answer
InterpretNicUpdateBody(word, http2xx) ==
    CASE word = "nochg" /\ http2xx -> "skipped"
      [] word = "good" /\ http2xx  -> "ok"
      [] OTHER                     -> "fail"
DuckDnsAnswer(word, http2xx)   == IF http2xx /\ word = "good" THEN "ok" ELSE "fail"
NamecheapAnswer(word, http2xx) == IF http2xx /\ word = "good" THEN "ok" ELSE "fail"

QueryAnswer(p, word, http2xx) ==
    CASE p \in NicProviders -> InterpretNicUpdateBody(word, http2xx)
      [] p = "duckdns"      -> DuckDnsAnswer(word, http2xx)
      [] p = "namecheap"    -> NamecheapAnswer(word, http2xx)

CombineAnyOk(rs) == IF rs = {"fail"} THEN "fail" ELSE "ok"

\* Merge the results of the families.
CombineRecordResults(rs) ==
    CASE "fail" \in rs           -> "fail"
      [] rs \subseteq {"skipped"} -> "skipped"
      [] OTHER                   -> "ok"
=============================================================================
