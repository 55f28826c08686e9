------------------------------ MODULE RecordSync ------------------------------
(***************************************************************************)
(* One account's calls to its provider, request by request (the update and *)
(* upsert functions of lib/providers): load the configuration, find the    *)
(* zone, and for each family look the host's records up, decide, write.    *)
(* Between two requests somebody else may change the zone; every answer    *)
(* may be a refusal, may be unreadable, or may be lost after the server    *)
(* did what was asked.  A call that failed may be made again.              *)
(***************************************************************************)
EXTENDS RecordProviders

CONSTANTS
    Accounts,      \* the accounts considered, see RecordProviders
    Contents,      \* Contents(c) is what the provider's zones may hold at first
    FirstSerial,   \* the id of the first record that is made
    Values,        \* addresses
    MaxPages,      \* findRecord of Hetzner gives up after this many pages
    MaxCalls,      \* bound on calls
    Wants,         \* the address pairs a call is made with, NoValue for no address
    MaxForeign     \* bound on changes made by somebody else, by contents

Families  == {"A", "AAAA"}

ASSUME ValueAssumption == Values \subseteq Nat \ {NoValue} /\ MaxPages \in Nat \ {0}
ASSUME CountAssumption == MaxCalls \in Nat
ASSUME WantAssumption == Wants \subseteq [Families -> Values \cup {NoValue}]

\* An account has the zone settings that its provider reads, and no others.
ASSUME AccountAssumption ==
    \A a \in Accounts :
        /\ a.provider \in RecordApis \cup QueryProviders
        /\ a.host \in Seq(STRING) \ {NoDomain} /\ a.zoneName \in Seq(STRING)
        /\ a.zoneId \in Zones \cup {NoZone}
        /\ a.provider \notin ReadsZoneName => a.zoneName = NoDomain
        /\ a.provider \notin ReadsZoneId => a.zoneId = NoZone
        /\ a.depth \in Nat /\ a.style \in {"absolute", "relative"} /\ a.completes \in BOOLEAN
        /\ \A k \in Keys(a.provider) : a.settings[k] \in {"absent", "empty", "set"}

RecordType == [id : Nat, zone : Zones \cup {NoZone}, name : Seq(STRING), type : Families,
               value : Values, tuned : BOOLEAN]

\* Each zone holds finitely many records, under names of its own and ids that differ.
ASSUME ContentsAssumption ==
    /\ FirstSerial \in Nat
    /\ \A a \in Accounts : \A rs \in Contents[a.contents] :
        /\ rs \subseteq RecordType /\ IsFiniteSet(rs)
        /\ \A r \in rs : r.id < FirstSerial /\ r.zone \in Zones /\ IsSuffix(ZoneName[r.zone], r.name)
        /\ \A r, s \in rs : r.id = s.id => r = s

\* DigitalOcean and Contabo may list a record by the part of its name before the zone's.
\* That is the full name of the host only if somebody has entered the zone twice
\* (home.ex.tld.ex.tld), and "@" only if it is the apex.
ASSUME NameAssumption ==
    \A a \in Accounts : a.provider \in {"digitalocean", "contabo"} =>
        \A n \in {FullName(a)} \cup {r.name : r \in UNION Contents[a.contents]}, z \in Zones :
            ~IsSuffix(ZoneName[z] \o ZoneName[z], n) /\ n # At \o ZoneName[z]

VARIABLES
    account,
    zone,        \* the records of all zones of the provider
    serial,      \* the next record id
    phase,       \* the request that is under way, "idle" between calls
    want,        \* the addresses of the call
    fam,         \* the family being recorded
    at,          \* where the host is: zone, domain, name
    page,        \* the page of Hetzner's listing
    fetched,     \* the records Bunny returned with the zone
    target,      \* what the lookup decided
    results,     \* the result of each family so far
    result,      \* of the last call
    calls,
    foreign,     \* History: changes made by somebody else
    disturbed,   \* History: was one of them made during this call?
    mine,        \* History: the ids of the records this account has created
    dirty        \* OVH: written and not yet published by a refresh

server == <<zone, serial, mine, dirty>>
others == <<foreign, disturbed>>
call   == <<want, at, page, fetched, target, fam>>
vars   == <<account, server, others, call, phase, results, result, calls>>

NoWant    == [f \in Families |-> NoValue]
NoResults == [f \in Families |-> "none"]
Phases    == {"load", "idle", "zone", "pinned", "list", "record", "write", "refresh", "query"}
Results   == {"none", "ok", "skipped", "fail", "throw", "missing", "rejected"}

Asked(w) == {f \in Families : w[f] # NoValue}

Init ==
    /\ account \in Accounts
    /\ zone \in Contents[account.contents]
    /\ serial = FirstSerial
    /\ phase = "load"
    /\ want = NoWant /\ fam = "A"
    /\ at = Nowhere
    /\ page = 1
    /\ fetched = {}
    /\ target = Skip
    /\ results = NoResults
    /\ result = "none"
    /\ calls = 0 /\ foreign = 0 /\ disturbed = FALSE
    /\ mine = {}
    /\ dirty = FALSE

NoRecord == [id |-> 0, zone |-> NoZone, name |-> NoDomain, type |-> "A", value |-> NoValue,
             tuned |-> FALSE]

\* The records of host and family in a set of records, as the provider matches names.
Spelling(r) == Spelled(r.name, at.domain, account.style)
Matches(r) ==
    CASE account.provider = "digitalocean" -> DigitalOceanNameMatches(Spelling(r), at.name, at.domain)
      [] account.provider = "contabo"      -> ContaboNameMatches(Spelling(r), at.name, at.domain)
      [] account.provider = "cloudflare"   ->
            r.name = IF account.completes THEN at.name ELSE account.host
      [] OTHER                             -> r.name = at.name
Listed(rs, f) == {r \in rs : r.zone = at.zone /\ r.type = f /\ Matches(r)}

(***************************************************************************)
(* Ends and beginnings                                                     *)
(***************************************************************************)

\* loadConfig: what getProviderConfigIssues reports never runs.
LoadConfig ==
    /\ phase = "load"
    /\ IF Accepted(account.provider, account.settings, account.zoneName, account.zoneId, account.host)
         THEN phase' = "idle" /\ result' = result
         ELSE phase' = "load" /\ result' = "rejected"
    /\ UNCHANGED <<account, server, others, call, results, calls>>

\* The request that begins a family.
Start(f) ==
    IF account.provider = "cloudflare" /\ f = "A" /\ account.pinned # NoPin THEN "pinned" ELSE "list"

Return(r) ==
    /\ phase' = "idle"
    /\ result' = r
    /\ results' = NoResults
    /\ fam' = "A"

\* A family is done: go on to the next, or combine.  OVH publishes what it wrote.
Finish(r) ==
    LET rs   == [results EXCEPT ![fam] = r]
        done == CombineRecordResults({rs[f] : f \in Asked(want)})
    IN  IF fam = "A" /\ "AAAA" \in Asked(want)
          THEN /\ results' = rs
               /\ fam' = "AAAA"
               /\ phase' = Start("AAAA")
               /\ result' = result
          ELSE IF account.provider = "ovh" /\ done = "ok"
                 THEN phase' = "refresh" /\ results' = rs /\ UNCHANGED <<fam, result>>
                 ELSE Return(done)

\* The domain a query provider is told: Namecheap's is bound from the host, which throws,
\* before the call, for a host outside the domain.
Bindable ==
    account.provider = "namecheap" => BindNamecheapHost(account.zoneName, account.host) # Outside
Unbound ==
    account.provider = "namecheap" /\
        BindNamecheapHost(account.zoneName, account.host).domain = NoDomain

\* update(): the guards, in the order all providers share.
Call(w) ==
    LET p == account.provider
        refuse(r) == Return(r) /\ UNCHANGED <<at, page, fetched, target>>
        derivable == p \in {"porkbun", "digitalocean"} => ZoneOf(account) # Nowhere
    IN
    /\ phase = "idle" /\ Bindable
    /\ calls < MaxCalls
    /\ calls' = calls + 1
    /\ want' = w
    /\ disturbed' = FALSE
    /\ CASE ~Complete(p, account.settings, account.zoneName, account.zoneId) \/ Unbound -> refuse("missing")
         [] Asked(w) = {}                                             -> refuse("fail")
         [] p \in QueryProviders /\ ~HasAddress(p, Asked(w))          -> refuse("fail")
         [] ~derivable /\ account.zoneName = NoDomain                 -> refuse("missing")
         [] OTHER ->
              /\ phase' = IF p \in QueryProviders THEN "query" ELSE "zone"
              /\ result' = "none" /\ results' = NoResults /\ fam' = "A"
              /\ at' = Nowhere /\ page' = 1 /\ fetched' = {} /\ target' = Skip
    /\ UNCHANGED <<account, server, foreign>>

(***************************************************************************)
(* The requests of a call                                                  *)
(***************************************************************************)

\* Find the zone.  Where the zone is the API's to tell, its answer may be bad.
Zone(reply) ==
    LET p    == account.provider
        seen == IF p \in AsksForZone THEN LookupSeen(p, reply) ELSE "ok"
        z    == ZoneOf(account)
    IN
    /\ phase = "zone"
    /\ IF seen # "ok" \/ z = Nowhere
         THEN /\ Return(IF seen = "throw" THEN "throw" ELSE "fail")
              /\ UNCHANGED <<at, fetched>>
         ELSE /\ at' = z
              /\ fetched' = IF p = "bunny" THEN zone ELSE {}
              /\ fam' = IF "A" \in Asked(want) THEN "A" ELSE "AAAA"
              /\ phase' = Start(fam')
              /\ UNCHANGED <<results, result>>
    /\ UNCHANGED <<account, server, others, want, page, target, calls>>

\* Act on a decision: a family that is in place or refused is done.
Decide(act) ==
    /\ target' = act
    /\ CASE act = Skip  -> Finish("skipped")
         [] act = Fail  -> Finish("fail")
         [] act = Throw -> Return("throw")
         [] OTHER       -> phase' = "write" /\ UNCHANGED <<fam, results, result>>

\* Cloudflare, with CLOUDFLARE_RECORD_ID: the pinned record, if it is still the host's.
Pinned(reply) ==
    LET seen  == LookupSeen("cloudflare", reply)
        pin   == {r \in zone : r.id = account.pinned /\ r.zone = at.zone}
        stale == \A r \in pin : r.type # fam \/ r.name # account.host
    IN
    /\ phase = "pinned"
    /\ reply = "ok" => pin # {}
    /\ CASE seen = "throw" -> Return("throw") /\ UNCHANGED target
         [] seen = "none"  -> Decide(CloudflareUpsert(account, {}, NoRecord, want[fam]))
         [] OTHER ->
              IF stale
                THEN phase' = "list" /\ UNCHANGED <<target, fam, results, result>>
                ELSE \E r \in pin : Decide(CloudflareUpsert(account, {r}, r, want[fam]))
    /\ UNCHANGED <<account, server, others, want, at, page, fetched, calls>>

\* The page limit of findRecord.  The count wraps, so that a listing nobody gives up on
\* would be a cycle.
GivesUpNever == FALSE
GivesUp  == page >= MaxPages
NextPage == (page % MaxPages) + 1

\* Look the records of the family up.  Bunny has them from the zone already, Hetzner
\* goes through the pages, OVH gets ids only.
List(reply) ==
    LET p    == account.provider
        seen == IF p = "bunny" THEN "ok" ELSE LookupSeen(p, reply)
        more == p = "hetzner" /\ page < account.depth /\ seen = "ok"
        rs   == IF seen = "none" \/ (p = "hetzner" /\ page < account.depth) THEN {}
                ELSE Listed(IF p = "bunny" THEN fetched ELSE zone, fam)
    IN
    /\ phase = "list"
    /\ reply = "ok" => at.zone # NoZone
    /\ IF seen \in {"fail", "throw"}
         THEN /\ IF seen = "fail" THEN Finish("fail") ELSE Return("throw")
              /\ UNCHANGED <<page, target>>
         ELSE IF more /\ ~GivesUp
           THEN page' = NextPage /\ UNCHANGED <<phase, target, fam, results, result>>
           ELSE /\ page' = 1
                /\ IF p = "ovh" /\ OvhIds(rs) # "absent"
                     THEN IF OvhIds(rs) = "duplicates"
                            THEN Decide(Fail)
                            ELSE /\ \E r \in rs : target' = Edit(r)
                                 /\ phase' = "record"
                                 /\ UNCHANGED <<fam, results, result>>
                     ELSE \E r \in rs \cup {NoRecord} :
                            FirstOf(rs, r) /\ Decide(Upsert(account, rs, r, want[fam]))
    /\ UNCHANGED <<account, server, others, want, at, fetched, calls>>

\* OVH: read the one record listed.  It may be gone by now.
Record(reply) ==
    LET r == {s \in zone : s.id = target.id}
    IN
    /\ phase = "record"
    /\ reply = "ok" => r # {}
    /\ CASE reply = "lost" -> Return("throw") /\ UNCHANGED target
         [] reply = "ok"   -> \E s \in r : Decide(Upsert(account, {s}, s, want[fam]))
         [] OTHER          -> Finish("fail") /\ UNCHANGED target
    /\ UNCHANGED <<account, server, others, want, at, page, fetched, calls>>

(***************************************************************************)
(* The write                                                               *)
(***************************************************************************)

Ours == {r \in zone : r.zone = at.zone /\ r.name = at.name /\ r.type = fam}
Fresh == [id |-> serial, zone |-> at.zone, name |-> at.name, type |-> fam,
          value |-> want[fam], tuned |-> TRUE]
\* A zone takes names of its own only.
Within == at.zone # NoZone /\ IsSuffix(at.domain, at.name)
\* The body of an edit names the type, the address and, at most providers, the host.
Edited(r) ==
    [r EXCEPT !.name = IF account.provider \in {"digitalocean", "contabo"} THEN @ ELSE at.name,
              !.type = fam, !.value = want[fam], !.tuned = TRUE]

Written(act) ==
    CASE act.what = "edit"    -> {IF r.id = act.id THEN Edited(r) ELSE r : r \in zone}
      [] act.what = "editAll" -> {IF r \in Ours THEN Edited(r) ELSE r : r \in zone}
      [] act.what = "set"     -> (zone \ Ours) \cup {Fresh}
      [] act.what = "create"  -> zone \cup {Fresh}

\* The server does what is asked or not, and the answer says so or not: it may be
\* lost or an error even after the change.
Write(done, reply) ==
    LET seen == WriteSeen(account.provider, reply)
    IN
    /\ phase = "write"
    /\ done => Within
    /\ done /\ target.what = "edit" => \E r \in zone : r.id = target.id
    /\ reply \in {"ok", "invalid"} => done
    /\ IF done
         THEN /\ zone' = Written(target)
              /\ mine' = IF target.what \in {"create", "set"} THEN mine \cup {serial} ELSE mine
              /\ serial' = IF target.what \in {"create", "set"} THEN serial + 1 ELSE serial
              /\ dirty' = (account.provider = "ovh" \/ dirty)
         ELSE UNCHANGED server
    /\ IF seen = "throw" THEN Return("throw") ELSE Finish(seen)
    /\ UNCHANGED <<account, others, want, at, page, fetched, target, calls>>

\* OVH: publish the zone.
RefreshUnchecked(done, reply) ==
    /\ phase = "refresh"
    /\ reply \in {"ok", "invalid"} => done
    /\ dirty' = (dirty /\ ~done)
    /\ Return("ok")
    /\ UNCHANGED <<account, zone, serial, mine, others, want, at, page, fetched, target, calls>>

Refresh(done, reply) ==
    /\ phase = "refresh"
    /\ reply \in {"ok", "invalid"} => done
    /\ dirty' = (dirty /\ ~done)
    /\ Return(CASE reply = "lost" -> "throw" [] reply = "refused" -> "fail" [] OTHER -> "ok")
    /\ UNCHANGED <<account, zone, serial, mine, others, want, at, page, fetched, target, calls>>

\* The name a query updates, as the server puts it together.
QueryName == IF account.provider = "namecheap" THEN BindNamecheapHost(account.zoneName, account.host).name
                                               ELSE account.host
\* The records of a host at a query provider: one for each family.
AtHost(f, v, id) == [id |-> id, zone |-> NoZone, name |-> QueryName, type |-> f,
                     value |-> v, tuned |-> TRUE]
Queried(fs) == {r \in zone : r.name # QueryName \/ r.type \notin fs}
                  \cup {AtHost(f, want[f], IF f = "A" THEN 1 ELSE 2) : f \in fs}

\* One query with all addresses.  The server says "good" when it has recorded them,
\* "nochg" when they were there.
Query(done, word, http2xx) ==
    LET sent == Carries(account.provider, Asked(want))
    IN
    /\ phase = "query"
    /\ http2xx /\ word = "good" => done
    /\ word = "nochg" => ~done /\ Queried(sent) = zone
    /\ zone' = IF done THEN Queried(sent) ELSE zone
    /\ Return(QueryAnswer(account.provider, word, http2xx))
    /\ UNCHANGED <<account, serial, mine, dirty, others, call, calls>> 

QueryLost(done) ==
    /\ phase = "query"
    /\ zone' = IF done THEN Queried(Carries(account.provider, Asked(want))) ELSE zone
    /\ Return("throw")
    /\ UNCHANGED <<account, serial, mine, dirty, others, call, calls>>

(***************************************************************************)
(* Somebody else: a person at the provider's console, a second process     *)
(***************************************************************************)

Mine(r) == r.name = FullName(account)
Held(f) == {r \in zone : Mine(r) /\ r.type = f}

Foreign(rs) ==
    /\ phase \notin {"load", "idle"}
    /\ foreign < MaxForeign[account.contents]
    /\ zone' = rs
    /\ foreign' = foreign + 1
    /\ disturbed' = TRUE
    /\ UNCHANGED <<account, mine, dirty, call, phase, results, result, calls>>

Removes == \E r \in Held("A") \cup Held("AAAA") : Foreign(zone \ {r}) /\ UNCHANGED serial
Adds == \E z \in Zones, f \in Families, v \in Values :
            /\ IsSuffix(ZoneName[z], FullName(account))
            /\ Foreign(zone \cup {[id |-> serial, zone |-> z, name |-> FullName(account), type |-> f,
                                   value |-> v, tuned |-> TRUE]})
            /\ serial' = serial + 1

(***************************************************************************)
(* The specification                                                       *)
(***************************************************************************)

Request ==
    \/ \E reply \in Replies : Zone(reply) \/ Pinned(reply)
    \/ \E reply \in Replies \ {"none"} : List(reply) \/ Record(reply)
    \/ \E done \in BOOLEAN, reply \in Replies \ {"none"} :
            Write(done, reply) \/ Refresh(done, reply)
    \/ \E done, http2xx \in BOOLEAN, word \in Words : Query(done, word, http2xx)
    \/ \E done \in BOOLEAN : QueryLost(done)

Next == LoadConfig \/ (\E w \in Wants : Call(w)) \/ Request \/ Removes \/ Adds

\* Every request ends by its deadline; calls are the updater's business.
Spec == Init /\ [][Next]_vars /\ WF_vars(Request)

(***************************************************************************)
(* Properties                                                              *)
(***************************************************************************)

TypeOK ==
    /\ account \in Accounts
    /\ zone \subseteq RecordType
    /\ serial \in Nat
    /\ phase \in Phases
    /\ want \in Wants \cup {NoWant} /\ fam \in Families
    /\ at.zone \in Zones \cup {NoZone}
    /\ page \in 1 .. MaxPages
    /\ fetched \subseteq RecordType
    /\ target.id \in Nat
    /\ results \in [Families -> {"none", "ok", "skipped", "fail"}]
    /\ result \in Results
    /\ calls \in 0 .. MaxCalls /\ foreign \in Nat
    /\ disturbed \in BOOLEAN /\ dirty \in BOOLEAN
    /\ mine \subseteq 0 .. serial

\* A Cloudflare account with a zone name that is not the host's and no zone id:
\* nothing compares the two.
Misplaced ==
    /\ account.provider = "cloudflare" /\ account.zoneId = NoZone
    /\ account.zoneName # NoDomain /\ ~Bare(account.host)
    /\ ~IsSuffix(account.zoneName, account.host)

Carried == IF account.provider \in QueryProviders THEN Carries(account.provider, Asked(want))
                                                  ELSE Asked(want)
\* Cloudflare is asked for the host as configured, and its API may not complete the name.
Findable ==
    account.provider = "cloudflare" => account.completes \/ ZoneOf(account).name = account.host

\* Providers that leave no second record of the host beside the one they report.
Exact == QueryProviders \cup {"route53", "gandi", "porkbun", "digitalocean", "ovh", "contabo"}

\* Providers that write the configured TTL and compare it.
ManagesTtl == {"cloudflare", "route53", "gandi", "linode", "ovh", "bunny", "contabo"}

\* A call that reports success, or that everything was in place, has left each family it
\* carried with the address asked for, under the configured TTL; at most providers with
\* no other address beside it (the update and upsert functions).
OkMeansRecorded ==
    phase = "idle" /\ result \in {"ok", "skipped"} /\ ~disturbed /\ ~Misplaced =>
        \A f \in Carried :
            /\ \E r \in Held(f) : r.value = want[f] /\ (r.tuned \/ account.provider \notin ManagesTtl)
            /\ account.provider \in Exact => \A r \in Held(f) : r.value = want[f]

\* No request of a call changes, renames or removes a record of another name, nor one of
\* a family the call does not carry: a wrong zone id, a stale record id, an apex alias or
\* a record removed under way do not lead to another record (the refusals of update and
\* the name and type checks of upsert and findRecord).
OthersUntouched ==
    [][foreign' = foreign /\ ~Misplaced =>
         LET Other(r) == ~Mine(r) \/ r.type \notin Carried
         IN {r \in zone' : Other(r)} = {r \in zone : Other(r)}]_vars

\* A create whose answer was lost is found by the next call: an account never keeps two
\* records of its own making for one family.  Not for an account with a pinned record:
\* a pin that resolves to nothing creates without looking (cloudflare.ts upsertRecord),
\* nor for a bare label that Cloudflare's listing does not complete, nor for a listing
\* that Hetzner's page limit cuts off.
NoDuplicate ==
    account.pinned = NoPin /\ account.depth <= MaxPages /\ Findable =>
        \A f \in Families : Cardinality({r \in zone : r.id \in mine /\ r.type = f}) <= 1

\* A configuration that loadConfig accepts is never refused by the provider for a missing
\* setting or an underivable domain: the demands kept in schemas/config.ts cover those in
\* lib/providers.  Except at Dynu with an empty UDDNS_PASS: it hides a given UDDNS_TOKEN
\* from the provider but not from the check.
ValidConfigNeverRefused ==
    result = "missing" =>
        account.provider = "dynu" /\ account.settings["UDDNS_PASS"] = "empty"

\* An OVH call that wrote and reports success has published the zone, what earlier failed
\* calls had written included (ovh.ts update: the refresh after a write).
OkMeansPublished ==
    account.provider = "ovh" /\ phase = "idle" /\ result = "ok" => ~dirty

\* Whatever the answers, a call comes to an end: in particular a listing that never
\* ends is given up (request's deadline; findRecord of hetzner.ts).
CallsEnd == (phase \notin {"load", "idle"}) ~> (phase = "idle")

\* Every provider does what a cycle of the updater relies on.
CallSpec == INSTANCE ProviderCall WITH
    held   <- [f \in Families |-> {r.value : r \in Held(f)}],
    want   <- [f \in Families |-> IF f \in Carried THEN want[f] ELSE NoValue],
    busy   <- phase \notin {"load", "idle"},
    report <- CASE result \in {"ok", "skipped"}             -> "success"
                [] result \in {"fail", "throw", "missing"}  -> "failure"
                [] OTHER                                    -> "none",
    disturbed <- disturbed \/ Misplaced
ImplementsProviderCall == CallSpec!Spec
=============================================================================
