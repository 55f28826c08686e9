--------------------------- MODULE RecordSyncProofs ---------------------------
(***************************************************************************)
(* Proofs about RecordSync, for any accounts, zones, addresses and bounds. *)
(***************************************************************************)
EXTENDS RecordSync, RecordProvidersProofs

AcceptedNow == Accepted(account.provider, account.settings, account.zoneName, account.zoneId, account.host)
CompleteNow == Complete(account.provider, account.settings, account.zoneName, account.zoneId)
HiddenToken == account.provider = "dynu" /\ account.settings["UDDNS_PASS"] = "empty"

\* What an account demands of its settings when it is loaded covers what its provider
\* demands of them when it is called.
LEMMA AcceptedIsComplete ==
    ASSUME account \in Accounts, AcceptedNow, ~HiddenToken
    PROVE  CompleteNow
<1> DEFINE p == account.provider
           s == account.settings
<1>1. CASE p = "dynu"
  <2>1. \A k \in {"UDDNS_USER", "UDDNS_PASS", "UDDNS_TOKEN"} : s[k] \in {"absent", "empty", "set"}
    <3>1. Keys("dynu") = {"UDDNS_USER", "UDDNS_PASS", "UDDNS_TOKEN"}
      BY DEF Keys
    <3> QED  BY <1>1, <3>1, AccountAssumption
  <2>2. LoadedFields(p, s) =
          [user |-> s["UDDNS_USER"], password |-> s["UDDNS_PASS"], token |-> s["UDDNS_TOKEN"],
           dyndnsPassword |-> OrElse(s["UDDNS_PASS"], s["UDDNS_TOKEN"])]
    BY <1>1 DEF LoadedFields
  <2> QED  BY <1>1, <2>1, <2>2 DEF AcceptedNow, CompleteNow, HiddenToken, Accepted, Complete,
                                   RequireFields, DynuFields, OrElse, Given,
                                   ZoneNameRequired, ZoneIdRequired, DerivesDomain
<1>2. CASE p \in {"noip", "dyndns"}
  <2>1. LoadedFields(p, s) =
          [user |-> s["UDDNS_USER"], password |-> s["UDDNS_PASS"], token |-> s["UDDNS_TOKEN"],
           dyndnsPassword |-> OrElse(s["UDDNS_PASS"], "absent")]
    BY <1>2 DEF LoadedFields
  <2> QED  BY <1>2, <2>1 DEF AcceptedNow, CompleteNow, Accepted, Complete, RequireFields, OrElse, Given,
                             ZoneNameRequired, ZoneIdRequired, DerivesDomain
<1>3. CASE p \notin {"noip", "dyndns", "dynu"}
  <2> DEFINE cfg == LoadedFields(p, s)
  <2>1. \A k \in DOMAIN cfg : Given(cfg[k])
    BY <1>3 DEF AcceptedNow, Accepted
  <2>2. /\ p \in ZoneNameRequired => account.zoneName # NoDomain
        /\ p \in ZoneIdRequired   => account.zoneId # 0
    BY DEF AcceptedNow, Accepted
  <2> HIDE DEF cfg
  <2>3. RequireFields({cfg[k] : k \in DOMAIN cfg})
    BY <2>1 DEF RequireFields
  <2> QED  BY <1>3, <2>2, <2>3 DEF CompleteNow, Complete, cfg
<1> QED  BY <1>1, <1>2, <1>3

LEMMA DerivableNames ==
    ASSUME NEW S, NEW h \in Seq(S), ~RequiresExplicitDomain(h)
    PROVE  /\ Len(h) \in 2 .. 3 /\ (Len(h) = 3 => LastTwo(h) \notin MultiPartPublicSuffixes)
           /\ h # << >> /\ LastTwo(h) # << >>
<1>1. Len(h) \in Nat
  BY LenProperties
<1>2. Len(h) \in 2 .. 3 /\ (Len(h) = 3 => LastTwo(h) \notin MultiPartPublicSuffixes)
  <2>1. ~(Len(h) < 2) /\ ~(Len(h) > 3) /\ (Len(h) = 3 => LastTwo(h) \notin MultiPartPublicSuffixes)
    BY Zenon DEF RequiresExplicitDomain
  <2>2. ASSUME NEW n \in Nat, ~(n < 2), ~(n > 3) PROVE n \in 2 .. 3
    BY <2>2, SMT
  <2>3. Len(h) \in 2 .. 3
    BY ONLY <1>1, <2>1, <2>2
  <2> QED  BY <2>1, <2>3, Zenon
<1>3. Len(SubSeq(h, Len(h) - 1, Len(h))) = 2
  BY <1>1, <1>2, SubSeqProperties
<1>4. Len(<< >>) = 0
  BY EmptySeq
<1> QED  BY <1>2, <1>3, <1>4 DEF LastTwo

\* A domain that is not given can be derived from the host.
LEMMA AcceptedIsPlaced ==
    ASSUME account \in Accounts, AcceptedNow, account.provider \in DerivesDomain,
           account.zoneName = NoDomain
    PROVE  /\ DeriveTwoLabelApex(account.host) = Placed(LastTwo(account.host), account.host)
           /\ account.host # NoDomain /\ LastTwo(account.host) # NoDomain
<1>1. ~RequiresExplicitDomain(account.host)
  BY DEF AcceptedNow, Accepted
<1>2. account.host \in Seq(STRING)
  BY AccountAssumption
<1> QED  BY <1>1, <1>2, DerivableNames DEF DeriveTwoLabelApex, NoDomain

LEMMA PlacedIsFound ==
    ASSUME account \in Accounts, AcceptedNow, account.provider \in {"porkbun", "digitalocean"},
           account.zoneName = NoDomain
    PROVE  ZoneOf(account) # Nowhere
<1> DEFINE place == Placed(LastTwo(account.host), account.host)
<1>1. DeriveTwoLabelApex(account.host) = place /\ account.host # NoDomain
  BY AcceptedIsPlaced DEF DerivesDomain
<1>2. ZoneOf(account) = ZoneAt(place)
  BY <1>1 DEF ZoneOf, PorkbunZone, DigitalOceanZone, SplitHost, SplitDomainHost
<1>3. ZoneAt(place).name = account.host
  BY <1>1 DEF ZoneAt, Placed, Outside, InZone
<1>4. Nowhere.name = NoDomain
  BY DEF Nowhere, InZone, Outside, Placed
<1> QED  BY <1>1, <1>2, <1>3, <1>4

LEMMA PlacedIsBound ==
    ASSUME account \in Accounts, AcceptedNow, Bindable
    PROVE  ~Unbound
<1> SUFFICES ASSUME account.provider = "namecheap"
             PROVE  BindNamecheapHost(account.zoneName, account.host).domain # NoDomain
  BY DEF Unbound
<1>1. CASE account.zoneName = NoDomain
  BY <1>1, AcceptedIsPlaced DEF DerivesDomain, BindNamecheapHost, Placed, Outside
<1>2. CASE account.zoneName # NoDomain
  <2>1. SplitDomainHost(account.host, account.zoneName) # Outside
    BY <1>2 DEF Bindable, BindNamecheapHost
  <2>2. SplitDomainHost(account.host, account.zoneName).domain = account.zoneName
    BY <1>2, <2>1 DEF SplitDomainHost, Placed
  <2> QED  BY <1>2, <2>2 DEF BindNamecheapHost
<1> QED  BY <1>1, <1>2

-----------------------------------------------------------------------------

\* Combining the families' results gives one of three.
LEMMA Combined == \A rs : CombineRecordResults(rs) \in {"fail", "skipped", "ok"}
BY DEF CombineRecordResults

\* What a call that has made a request reports.
Answers == {"ok", "skipped", "fail", "throw"}

\* How a request can end, as far as these invariants see it.
Ends == \/ phase' \notin {"load", "idle", "query"} /\ result' = result
        \/ phase' = "idle" /\ result' \in Answers /\ (account.provider = "ovh" => result' # "ok")

LEMMA FinishEnds ==
    ASSUME NEW r, Finish(r) PROVE Ends
<1> DEFINE done == CombineRecordResults({[results EXCEPT ![fam] = r][f] : f \in Asked(want)})
<1>1. done \in {"fail", "skipped", "ok"}
  BY Combined
<1> HIDE DEF done
<1>2. \/ phase' = Start("AAAA") /\ result' = result
      \/ account.provider = "ovh" /\ done = "ok" /\ phase' = "refresh" /\ result' = result
      \/ ~(account.provider = "ovh" /\ done = "ok") /\ Return(done)
  BY DEF Finish, done
<1> QED  BY <1>1, <1>2 DEF Ends, Return, Start, Answers

LEMMA DecideEnds ==
    ASSUME NEW act, Decide(act) PROVE Ends
<1>1. Skip # Fail /\ Skip # Throw /\ Fail # Throw
  BY DEF Skip, Fail, Throw, Act
<1>2. \/ Finish("skipped") \/ Finish("fail") \/ Return("throw")
      \/ phase' = "write" /\ result' = result
  <2>1. CASE act = Skip
    BY <1>1, <2>1, Zenon DEF Decide
  <2>2. CASE act = Fail
    BY <1>1, <2>2, Zenon DEF Decide
  <2>3. CASE act = Throw
    BY <1>1, <2>3, Zenon DEF Decide
  <2>4. CASE act # Skip /\ act # Fail /\ act # Throw
    BY <2>4 DEF Decide
  <2> QED  BY <2>1, <2>2, <2>3, <2>4
<1> QED  BY <1>2, FinishEnds DEF Ends, Return, Answers

LEMMA RequestEnds ==
    ASSUME Request, phase = "query" => account.provider \in QueryProviders
    PROVE  /\ account' = account
           /\ phase \notin {"load", "idle"}
           /\ \/ Ends
              \/ account.provider # "ovh" /\ phase' = "idle" /\ result' \in Answers
              \/ phase = "refresh" /\ phase' = "idle" /\ result' \in Answers /\ (result' = "ok" => ~dirty')
<1>1. ASSUME NEW reply \in Replies, Zone(reply)
      PROVE  Ends /\ account' = account /\ phase = "zone"
  BY <1>1 DEF Zone, Ends, Return, Start, Answers
<1>2. ASSUME NEW reply \in Replies, Pinned(reply)
      PROVE  Ends /\ account' = account /\ phase = "pinned"
  <2>1. \/ Return("throw")
        \/ \E act : Decide(act)
        \/ phase' = "list" /\ result' = result
    BY <1>2 DEF Pinned
  <2> QED  BY <1>2, <2>1, DecideEnds DEF Pinned, Ends, Return, Answers
<1>3. ASSUME NEW reply \in Replies, List(reply)
      PROVE  Ends /\ account' = account /\ phase = "list"
  <2>1. \/ Return("throw")
        \/ Finish("fail")
        \/ \E act : Decide(act)
        \/ phase' \in {"list", "record"} /\ result' = result
    BY <1>3 DEF List
  <2> QED  BY <1>3, <2>1, DecideEnds, FinishEnds DEF List, Ends, Return, Answers
<1>4. ASSUME NEW reply \in Replies, Record(reply)
      PROVE  Ends /\ account' = account /\ phase = "record"
  <2>1. \/ Return("throw")
        \/ Finish("fail")
        \/ \E act : Decide(act)
    BY <1>4 DEF Record
  <2> QED  BY <1>4, <2>1, DecideEnds, FinishEnds DEF Record, Ends, Return, Answers
<1>5. ASSUME NEW done \in BOOLEAN, NEW reply \in Replies, Write(done, reply)
      PROVE  Ends /\ account' = account /\ phase = "write"
  <2>1. Return("throw") \/ Finish(WriteSeen(account.provider, reply))
    BY <1>5 DEF Write
  <2> QED  BY <1>5, <2>1, FinishEnds DEF Write, Ends, Return, Answers
<1>6. ASSUME NEW done \in BOOLEAN, NEW reply \in Replies \ {"none"}, Refresh(done, reply)
      PROVE  /\ account' = account /\ phase = "refresh" /\ phase' = "idle"
             /\ result' \in Answers /\ (result' = "ok" => ~dirty')
  BY <1>6 DEF Refresh, Return, Replies, Answers
<1>7. ASSUME NEW done \in BOOLEAN, NEW word \in Words, NEW http2xx \in BOOLEAN, Query(done, word, http2xx)
      PROVE  account' = account /\ phase = "query" /\ phase' = "idle" /\ result' \in Answers
  <2>1. QueryAnswer(account.provider, word, http2xx) \in Answers
    <3>1. InterpretNicUpdateBody(word, http2xx) \in Answers /\ DuckDnsAnswer(word, http2xx) \in Answers
          /\ NamecheapAnswer(word, http2xx) \in Answers
      BY DEF InterpretNicUpdateBody, DuckDnsAnswer, NamecheapAnswer, Answers
    <3>2. account.provider \in NicProviders \cup {"duckdns", "namecheap"}
      BY <1>7 DEF Query, QueryProviders
    <3>3. "duckdns" \notin NicProviders /\ "namecheap" \notin NicProviders
      BY DEF NicProviders
    <3>4. CASE account.provider \in NicProviders
      BY <3>1, <3>3, <3>4 DEF QueryAnswer
    <3>5. CASE account.provider = "duckdns"
      BY <3>1, <3>3, <3>5 DEF QueryAnswer
    <3>6. CASE account.provider = "namecheap"
      BY <3>1, <3>3, <3>6 DEF QueryAnswer
    <3> QED  BY <3>2, <3>4, <3>5, <3>6
  <2> QED  BY <1>7, <2>1 DEF Query, Return
<1>8. ASSUME NEW done \in BOOLEAN, QueryLost(done)
      PROVE  account' = account /\ phase = "query" /\ phase' = "idle" /\ result' \in Answers
  BY <1>8 DEF QueryLost, Return, Answers
<1>9. phase = "query" => account.provider # "ovh"
  BY DEF QueryProviders, NicProviders
<1>10. CASE \E reply \in Replies : Zone(reply) \/ Pinned(reply)
  BY <1>1, <1>2, <1>10
<1>11. CASE \E reply \in Replies \ {"none"} : List(reply) \/ Record(reply)
  BY <1>3, <1>4, <1>11
<1>12. CASE \E done \in BOOLEAN, reply \in Replies \ {"none"} : Write(done, reply)
  BY <1>5, <1>12
<1>13. CASE \E done \in BOOLEAN, reply \in Replies \ {"none"} : Refresh(done, reply)
  BY <1>6, <1>13
<1>14. CASE \/ \E done, http2xx \in BOOLEAN, word \in Words : Query(done, word, http2xx)
            \/ \E done \in BOOLEAN : QueryLost(done)
  BY <1>7, <1>8, <1>9, <1>14
<1> QED  BY <1>10, <1>11, <1>12, <1>13, <1>14 DEF Request

\* A call is refused for its settings only if a token is hidden, and goes on otherwise.
LEMMA CallEnds ==
    ASSUME account \in Accounts, AcceptedNow, NEW w, Call(w)
    PROVE  /\ account' = account
           /\ \/ phase' = "idle" /\ result' \in {"missing", "fail"} /\ (result' = "missing" => HiddenToken)
              \/ phase' = "zone" /\ result' = "none"
              \/ phase' = "query" /\ result' = "none" /\ account.provider \in QueryProviders
<1> DEFINE incomplete == ~CompleteNow \/ Unbound
           derivable == account.provider \in {"porkbun", "digitalocean"} => ZoneOf(account) # Nowhere
           unplaced == ~derivable /\ account.zoneName = NoDomain
<1>1. incomplete => HiddenToken
  BY AcceptedIsComplete, PlacedIsBound DEF Call
<1>2. ~unplaced
  BY PlacedIsFound
<1>3. /\ account' = account
      /\ \/ incomplete /\ Return("missing")
         \/ Return("fail")
         \/ unplaced /\ Return("missing")
         \/ phase' = "zone" /\ result' = "none"
         \/ phase' = "query" /\ result' = "none" /\ account.provider \in QueryProviders
  BY DEF Call, CompleteNow
<1> HIDE DEF incomplete, unplaced
<1> QED  BY <1>1, <1>2, <1>3 DEF Return

IInv ==
    /\ account \in Accounts
    /\ phase # "load" => AcceptedNow
    /\ phase = "load" => result \in {"none", "rejected"}
    /\ phase = "query" => account.provider \in QueryProviders
    /\ ValidConfigNeverRefused
    /\ OkMeansPublished

LEMMA InitIInv == Init => IInv
BY DEF Init, IInv, ValidConfigNeverRefused, OkMeansPublished

LEMMA NextIInv ==
    ASSUME IInv, [Next]_vars PROVE IInv'
<1>1. CASE LoadConfig
  BY <1>1 DEF LoadConfig, call, server, others, IInv, AcceptedNow, ValidConfigNeverRefused, OkMeansPublished
<1>2. ASSUME NEW w \in Wants, Call(w) PROVE IInv'
  <2>1. phase = "idle" /\ AcceptedNow /\ account \in Accounts
    BY <1>2 DEF Call, IInv
  <2>2. account' = account /\ AcceptedNow'
    BY <1>2, <2>1, CallEnds DEF AcceptedNow
  <2>3. \/ phase' = "idle" /\ result' \in {"missing", "fail"} /\ (result' = "missing" => HiddenToken)
        \/ phase' = "zone" /\ result' = "none"
        \/ phase' = "query" /\ result' = "none" /\ account.provider \in QueryProviders
    BY <1>2, <2>1, CallEnds
  <2> QED  BY <2>1, <2>2, <2>3 DEF IInv, ValidConfigNeverRefused, OkMeansPublished, HiddenToken
<1>3. CASE Request
  <2>1. phase = "query" => account.provider \in QueryProviders
    BY DEF IInv
  <2>2. /\ account' = account
        /\ phase \notin {"load", "idle"}
        /\ \/ Ends
           \/ account.provider # "ovh" /\ phase' = "idle" /\ result' \in Answers
           \/ phase = "refresh" /\ phase' = "idle" /\ result' \in Answers /\ (result' = "ok" => ~dirty')
    BY <1>3, <2>1, RequestEnds
  <2>3. AcceptedNow'
    BY <2>2 DEF IInv, AcceptedNow
  <2> QED  BY <2>2, <2>3 DEF Ends, Answers, IInv, ValidConfigNeverRefused, OkMeansPublished
<1>4. CASE Removes \/ Adds
  <2>1. UNCHANGED <<account, phase, result, dirty>>
    BY <1>4 DEF Removes, Adds, Foreign
  <2> QED  BY <2>1 DEF IInv, AcceptedNow, ValidConfigNeverRefused, OkMeansPublished
<1>5. CASE UNCHANGED vars
  BY <1>5 DEF vars, server, IInv, AcceptedNow, ValidConfigNeverRefused, OkMeansPublished
<1> QED  BY <1>1, <1>2, <1>3, <1>4, <1>5 DEF Next

LEMMA Invariance == Spec => []IInv
BY InitIInv, NextIInv, PTL DEF Spec

\* ValidConfigNeverRefused: what loadConfig demands covers what the providers demand, for
\* every combination of settings, zone and host, but for Dynu with an empty UDDNS_PASS.
THEOREM AcceptedNeverRefused == Spec => []ValidConfigNeverRefused
<1>1. IInv => ValidConfigNeverRefused
  BY DEF IInv
<1> QED  BY <1>1, Invariance, PTL

\* OkMeansPublished: OVH reports success after a write only when the zone is published.
THEOREM SuccessIsPublished == Spec => []OkMeansPublished
<1>1. IInv => OkMeansPublished
  BY DEF IInv
<1> QED  BY <1>1, Invariance, PTL

(***************************************************************************)
(* What holds between the requests of a call                               *)
(***************************************************************************)

FamPhases == {"pinned", "list", "record", "write"}
Once == account.pinned = NoPin /\ account.depth <= MaxPages /\ Findable

\* Where a call is: what each request can count on.
ShapeInv ==
    /\ phase \notin {"load", "idle"} => result = "none"
    /\ phase \in FamPhases \cup {"zone", "refresh"} => account.provider \in RecordApis
    /\ phase = "query" => account.provider \in QueryProviders /\ Bindable
    /\ phase = "zone" => Asked(want) # {}
    /\ phase \in FamPhases =>
         /\ at = ZoneOf(account) /\ at # Nowhere
         /\ fam \in Asked(want)
         /\ results[fam] = "none" /\ (fam = "A" => results["AAAA"] = "none")
         /\ fam = "AAAA" /\ "A" \in Asked(want) => results["A"] # "none"
    /\ phase \notin FamPhases \cup {"refresh"} => results = NoResults
    /\ phase = "pinned" => account.provider = "cloudflare" /\ account.pinned # NoPin
    /\ phase = "record" => account.provider = "ovh" /\ target.what = "edit"
    /\ phase = "write" => target.what \in {"edit", "editAll", "set", "create"}
    /\ phase = "refresh" => \A f \in Asked(want) : results[f] \in {"ok", "skipped"}

\* What the zones hold.
StoreInv ==
    /\ IsFiniteSet(zone)
    /\ account.provider \in RecordApis =>
         /\ \A r \in zone : r.id < serial /\ r.zone \in Zones /\ IsSuffix(ZoneName[r.zone], r.name)
         /\ \A r, s \in zone : r.id = s.id => r = s
    /\ account.provider \in {"digitalocean", "contabo"} =>
         \A r \in zone, z \in Zones : Ordinary(r.name, ZoneName[z])

\* The records this account has made.
MineInv ==
    /\ \A i \in mine : i < serial
    /\ account.provider \in QueryProviders => mine = {}
    /\ \A r \in zone : r.id \in mine => r.zone = ZoneOf(account).zone /\ r.name = ZoneOf(account).name
    /\ Once => \A r, s \in zone : r.id \in mine /\ s.id \in mine /\ r.type = s.type => r = s

\* A record of the host and the family, wherever it is listed.
IsOurs(r) == r.zone = at.zone /\ r.name = at.name /\ r.type = fam

\* A record that is about to be edited is the host's, of the family; when one is about
\* to be created this account has not made one yet.
TargetInv ==
    /\ phase \in {"record", "write"} /\ target.what = "edit" =>
         target.id < serial /\ \A r \in zone : r.id = target.id => IsOurs(r)
    /\ phase = "write" /\ target.what = "create" /\ Once =>
         \A r \in zone : r.id \in mine => r.type # fam

\* Bunny's copy of the zone: it is old, but says of the families still to be recorded what
\* this account has made, and everything if nobody else was at work.
Ahead(f) == f = fam \/ f = "AAAA"
Same(r, s) == s.zone = r.zone /\ s.name = r.name /\ s.type = r.type
Foretold(f) ==
    /\ \A r \in zone : r.id \in mine /\ r.type = f => \E s \in fetched : Same(r, s)
    /\ ~disturbed => \A r \in fetched \cup zone : r.type = f => (r \in fetched <=> r \in zone)
FetchedIds == \A s \in fetched : s.id < serial /\ \A r \in zone : r.id = s.id => Same(r, s)
FetchInv ==
    account.provider = "bunny" /\ phase \in {"list", "write"} =>
        /\ IsFiniteSet(fetched) /\ FetchedIds
        /\ \A f \in Families : Ahead(f) => Foretold(f)

\* No zone is inside another.
DisjointZones == \A y, z \in Zones : IsSuffix(ZoneName[y], ZoneName[z]) => y = z

RecordedAs(f) ==
    \E r \in Held(f) : r.value = want[f] /\ (r.tuned \/ account.provider \notin ManagesTtl)
Alone(f) == \A r \in Held(f) : r.value = want[f]
Good(f)  == RecordedAs(f) /\ (account.provider \in Exact /\ DisjointZones => Alone(f))
Undisturbed == ~disturbed /\ ~Misplaced

\* A family that is done is recorded, and so is each one when the call is over.
DoneInv ==
    Undisturbed =>
        /\ \A f \in Families : results[f] \in {"ok", "skipped"} => Good(f)
        /\ phase = "idle" /\ result \in {"ok", "skipped"} => \A f \in Carried : Good(f)

\* What is about to be written leaves no other address beside it.
ReadyInv ==
    Undisturbed =>
        /\ phase = "write" /\ target.what = "editAll" => Ours # {}
        /\ account.provider \in Exact /\ DisjointZones /\ Within =>
             /\ phase \in {"record", "write"} /\ target.what = "edit" =>
                  \A r \in Held(fam) : r.id = target.id
             /\ phase = "write" /\ target.what = "create" => Held(fam) = {}

CallInv == TypeOK /\ ShapeInv /\ StoreInv /\ MineInv /\ TargetInv /\ FetchInv /\ DoneInv /\ ReadyInv
SyncInv == IInv /\ CallInv

LEMMA AccountConfigured ==
    ASSUME account \in Accounts, AcceptedNow
    PROVE  Configured(account) /\ account.provider \in RecordApis \cup QueryProviders
BY AccountAssumption DEF AcceptedNow, Accepted, Configured, NoZone

LEMMA RecordNotQuery == RecordApis \cap QueryProviders = {}
BY DEF RecordApis, QueryProviders, NicProviders

\* The full name of a host at DigitalOcean and Contabo is ordinary.
LEMMA OrdinaryHost ==
    ASSUME account \in Accounts, account.provider \in {"digitalocean", "contabo"}, NEW z \in Zones
    PROVE  Ordinary(FullName(account), ZoneName[z])
BY NameAssumption DEF Ordinary

LEMMA NotMisplaced == Misplaced <=> OutOfZone(account)
BY DEF Misplaced, OutOfZone

\* In the requests of a family the host has its place.
LEMMA AtPlaced ==
    ASSUME IInv, ShapeInv, phase \in FamPhases
    PROVE  /\ account.provider \in RecordApis /\ account.provider \notin QueryProviders
           /\ PlacedWell(account, at)
           /\ account.provider \in ZoneIdRequired => at.zone \in Zones
           /\ Within => IsSuffix(at.domain, at.name) /\ at.zone \in Zones
           /\ IsSuffix(at.domain, at.name) /\ ~Misplaced => at.name = FullName(account)
<1>1. account \in Accounts /\ AcceptedNow /\ account.provider \in RecordApis
      /\ at = ZoneOf(account) /\ at # Nowhere
  BY DEF IInv, ShapeInv, FamPhases
<1>2. Configured(account)
  BY <1>1, AccountConfigured
<1>3. PlacedWell(account, at)
  BY <1>1, <1>2, ZonePlaced
<1>4. account.provider \in ZoneIdRequired => at.zone \in Zones
  BY <1>1, <1>2, IdIsKnown
<1> QED  BY <1>1, <1>3, <1>4, RecordNotQuery, NotMisplaced DEF PlacedWell, Within

\* A zone that holds a record of the host's is one that its name ends with.
LEMMA OursAreWithin ==
    ASSUME IInv, ShapeInv, StoreInv, phase \in FamPhases, NEW r \in zone, r.zone = at.zone, r.name = at.name
    PROVE  Within
<1>1. r.zone \in Zones /\ IsSuffix(ZoneName[r.zone], r.name)
  BY AtPlaced DEF StoreInv
<1>2. at.zone # NoZone /\ at.domain = ZoneName[at.zone]
  BY <1>1, AtPlaced, ZoneAssumption DEF PlacedWell
<1> QED  BY <1>1, <1>2 DEF Within

\* The records of the host and the family are the ones in its zone.
LEMMA OursAreHeld ==
    ASSUME IInv, ShapeInv, StoreInv, phase \in FamPhases, ~Misplaced
    PROVE  /\ Ours \subseteq Held(fam)
           /\ DisjointZones /\ Within => Ours = Held(fam)
<1>1. (Within => at.name = FullName(account)) /\ PlacedWell(account, at) /\ account.provider \in RecordApis
  BY AtPlaced DEF Within
<1>2. Ours \subseteq Held(fam)
  BY <1>1, OursAreWithin DEF Ours, Held, Mine
<1>3. ASSUME DisjointZones, Within, NEW r \in Held(fam) PROVE r \in Ours
  <2>1. r \in zone /\ r.name = at.name /\ r.type = fam
    BY <1>1, <1>3 DEF Held, Mine
  <2>2. r.zone \in Zones /\ IsSuffix(ZoneName[r.zone], at.name)
    BY <1>1, <2>1 DEF StoreInv
  <2>3. at.zone \in Zones /\ IsSuffix(ZoneName[at.zone], at.name) /\ at.name \in Seq(STRING)
    BY <1>1, <1>3 DEF PlacedWell, Within
  <2>4. ZoneName[r.zone] \in Seq(STRING) /\ ZoneName[at.zone] \in Seq(STRING)
    BY <2>2, <2>3, ZoneAssumption
  <2>5. Len(ZoneName[r.zone]) <= Len(ZoneName[at.zone]) \/ Len(ZoneName[at.zone]) <= Len(ZoneName[r.zone])
    <3>1. Len(ZoneName[r.zone]) \in Nat /\ Len(ZoneName[at.zone]) \in Nat
      BY <2>4, LenProperties
    <3> QED  BY ONLY <3>1
  <2>6. \/ IsSuffix(ZoneName[r.zone], ZoneName[at.zone])
        \/ IsSuffix(ZoneName[at.zone], ZoneName[r.zone])
    BY <2>2, <2>3, <2>4, <2>5, SuffixesNest
  <2>7. r.zone = at.zone
    BY <1>3, <2>2, <2>3, <2>6 DEF DisjointZones
  <2> QED  BY <2>1, <2>7 DEF Ours
<1> QED  BY <1>2, <1>3

\* A record of the zone with Cloudflare's host, as it is configured, has the name it is given.
LEMMA HostIsName ==
    ASSUME IInv, ShapeInv, StoreInv, phase \in FamPhases, account.provider = "cloudflare",
           NEW r \in zone, r.zone = at.zone, r.name = account.host
    PROVE  r.name = at.name
<1>1. /\ PlacedWell(account, at) /\ at = ZoneOf(account) /\ at # Nowhere
      /\ r.zone \in Zones /\ IsSuffix(ZoneName[r.zone], r.name)
  BY AtPlaced DEF StoreInv, ShapeInv
<1>2. at.domain = ZoneName[at.zone]
  BY <1>1, ZoneAssumption DEF PlacedWell
<1> QED  BY <1>1, <1>2, CloudflareName

\* What a provider lists for the host and the family are its records, no more and, unless
\* Cloudflare's listing does not complete the name, no fewer.
LEMMA ListedAreOurs ==
    ASSUME IInv, TypeOK, ShapeInv, StoreInv, phase \in FamPhases
    PROVE  Listed(zone, fam) \subseteq Ours /\ (Findable => Listed(zone, fam) = Ours)
<1>1. /\ account \in Accounts /\ account.provider \in RecordApis /\ at = ZoneOf(account)
      /\ PlacedWell(account, at)
      /\ (IsSuffix(at.domain, at.name) /\ ~Misplaced => at.name = FullName(account))
  BY AtPlaced DEF IInv, ShapeInv
<1> SUFFICES ASSUME NEW r \in zone, r.zone = at.zone
             PROVE  (Matches(r) => r.name = at.name) /\ (Findable /\ r.name = at.name => Matches(r))
  BY DEF Listed, Ours
<1>2. CASE account.provider \notin {"digitalocean", "contabo", "cloudflare"}
  BY <1>2 DEF Matches
<1>4. CASE account.provider = "cloudflare"
  BY <1>1, <1>4, HostIsName DEF Matches, Findable
<1>3. CASE account.provider \in {"digitalocean", "contabo"}
  <2>1. at.name = FullName(account) /\ account.style \in {"absolute", "relative"}
    BY <1>1, <1>3, AccountAssumption DEF Misplaced, PlacedWell
  <2>2. at.zone \in Zones /\ at.domain = ZoneName[at.zone]
    BY <1>1, ZoneAssumption DEF StoreInv, PlacedWell
  <2>3. /\ r.name \in Seq(STRING) /\ at.name \in Seq(STRING) /\ at.domain \in Seq(STRING) \ {NoDomain}
        /\ IsSuffix(at.domain, r.name) /\ IsSuffix(at.domain, at.name)
    BY <1>1, <1>3, <2>2 DEF StoreInv, PlacedWell, TypeOK, RecordType
  <2>4. Ordinary(r.name, at.domain) /\ Ordinary(at.name, at.domain)
    BY <1>1, <1>3, <2>1, <2>2, OrdinaryHost DEF StoreInv
  <2>5. Matches(r) => r.name = at.name
    <3>1. Matches(r) => \/ DigitalOceanNameMatches(Spelled(r.name, at.domain, account.style), at.name, at.domain)
                        \/ ContaboNameMatches(Spelled(r.name, at.domain, account.style), at.name, at.domain)
      BY <1>3 DEF Matches, Spelling
    <3> QED  BY <2>1, <2>3, <2>4, <3>1, OnlyOwnNameMatches
  <2>6. r.name = at.name => Matches(r)
    BY <1>3, <2>1, OwnNameMatches DEF Matches, Spelling
  <2> QED  BY <2>5, <2>6
<1> QED  BY <1>2, <1>3, <1>4

(***************************************************************************)
(* Decisions                                                               *)
(***************************************************************************)

Exactly == Undisturbed /\ account.provider \in Exact /\ DisjointZones /\ Within

\* A decision that may be acted upon: what it leaves in place is in place, what it edits is
\* the host's, what it creates this account has not made.
Justified(act) ==
    \/ act = Skip /\ (Undisturbed => Good(fam))
    \/ act = Fail \/ act = Throw
    \/ /\ act.what = "edit" /\ act.id \in Nat /\ act.id < serial
       /\ \A r \in zone : r.id = act.id => IsOurs(r)
       /\ Exactly => \A r \in Held(fam) : r.id = act.id
    \/ act = EditAll /\ (Undisturbed => Ours # {})
    \/ act = Set
    \/ /\ act = Create
       /\ Once => \A r \in zone : r.id \in mine => r.type # fam
       /\ Exactly => Held(fam) = {}

LEMMA UpsertDecision ==
    ASSUME account.provider \in RecordApis, NEW rs, IsFiniteSet(rs), NEW r, FirstOf(rs, r),
           account.provider = "ovh" => rs = {} \/ rs = {r}
    PROVE  Decision(rs, r, want[fam], account.provider \in ManagesTtl, account.provider \in Exact,
                    Upsert(account, rs, r, want[fam]))
<1>1. /\ account.provider \in ManagesTtl <=>
           account.provider \in {"cloudflare", "route53", "gandi", "linode", "ovh", "bunny", "contabo"}
      /\ account.provider \in Exact <=>
           account.provider \in {"route53", "gandi", "porkbun", "digitalocean", "ovh", "contabo"}
  BY RecordNotQuery DEF ManagesTtl, Exact
<1> QED  BY <1>1, UpsertDecides DEF Decision

\* Decisions upon records of the host's as they are.
LEMMA DecisionJustified ==
    ASSUME IInv, TypeOK, ShapeInv, StoreInv, phase \in FamPhases, at.zone # NoZone,
           NEW rs \in SUBSET Ours, NEW r, NEW act,
           Decision(rs, r, want[fam], account.provider \in ManagesTtl, account.provider \in Exact, act),
           Exactly /\ act \in {Skip, Edit(r), Create} => Held(fam) \subseteq rs,
           act = Create /\ Once => \A q \in zone : q.id \in mine => q.type # fam
    PROVE  Justified(act)
<1>1. account.provider \in RecordApis
  BY AtPlaced
<1>2. ~Misplaced => Ours \subseteq Held(fam)
  BY OursAreHeld
<1>3. CASE /\ act = Skip
           /\ \E s \in rs : s.value = want[fam] /\ (s.tuned \/ account.provider \notin ManagesTtl)
           /\ account.provider \in Exact => \A s \in rs : s.value = want[fam]
  <2>1. Undisturbed => RecordedAs(fam)
    BY <1>2, <1>3 DEF Undisturbed, RecordedAs
  <2>2. Within
    BY <1>3, OursAreWithin DEF Ours
  <2>3. Undisturbed /\ account.provider \in Exact /\ DisjointZones => Alone(fam)
    BY <1>3, <2>2 DEF Exactly, Alone
  <2> QED  BY <1>3, <2>1, <2>3 DEF Justified, Good
<1>4. CASE act = Edit(r) /\ r \in rs /\ (account.provider \in Exact => rs = {r})
  <2>1. r \in zone /\ IsOurs(r) /\ r.id \in Nat
    BY <1>4 DEF Ours, IsOurs, TypeOK, RecordType
  <2>2. r.id < serial /\ \A q \in zone : q.id = r.id => q = r
    BY <1>1, <2>1 DEF StoreInv
  <2>3. act.what = "edit" /\ act.id = r.id
    BY <1>4 DEF Edit, Act
  <2>4. Exactly => \A q \in Held(fam) : q.id = r.id
    BY <1>4 DEF Exactly
  <2> QED  BY <2>1, <2>2, <2>3, <2>4 DEF Justified
<1>5. CASE act = EditAll /\ rs # {}
  BY <1>5 DEF Justified
<1>6. CASE act = Create /\ rs = {}
  BY <1>6 DEF Justified
<1>7. CASE act \in {Fail, Throw} \/ act = Set
  BY <1>7 DEF Justified
<1>8. \/ /\ act = Skip
         /\ \E s \in rs : s.value = want[fam] /\ (s.tuned \/ account.provider \notin ManagesTtl)
         /\ account.provider \in Exact => \A s \in rs : s.value = want[fam]
      \/ act = Edit(r) /\ r \in rs /\ (account.provider \in Exact => rs = {r})
      \/ act = EditAll /\ rs # {}
      \/ act = Create /\ rs = {}
      \/ act \in {Fail, Throw} \/ act = Set
  BY DEF Decision
<1> QED  BY <1>3, <1>4, <1>5, <1>6, <1>7, <1>8

\* Decisions upon Bunny's copy.
LEMMA CopyJustified ==
    ASSUME IInv, TypeOK, ShapeInv, StoreInv, MineInv, FetchInv, phase = "list", account.provider = "bunny",
           NEW r, NEW act,
           Decision(Listed(fetched, fam), r, want[fam], TRUE, FALSE, act), act # Set, act # EditAll
    PROVE  Justified(act)
<1> DEFINE rs == Listed(fetched, fam)
<1>1. rs = {s \in fetched : IsOurs(s)}
  BY DEF Listed, IsOurs, Matches
<1>2. /\ FetchedIds /\ Foretold(fam) /\ fetched \subseteq RecordType
  BY DEF FetchInv, Ahead, TypeOK
<1>3. ~Misplaced /\ at.name = FullName(account) /\ account.provider \notin Exact
  BY AtPlaced DEF PlacedWell, FamPhases, Misplaced, Exact, QueryProviders, NicProviders
<1>4. ~Exactly
  BY <1>3 DEF Exactly
<1> HIDE DEF rs
<1>5. CASE act = Skip /\ \E s \in rs : s.value = want[fam] /\ (s.tuned \/ ~TRUE)
  <2>1. PICK s \in fetched : IsOurs(s) /\ s.value = want[fam] /\ s.tuned
    BY <1>1, <1>5
  <2>2. ~disturbed => s \in zone
    BY <1>2, <2>1 DEF Foretold, IsOurs
  <2>3. ~disturbed => RecordedAs(fam)
    BY <1>3, <2>1, <2>2 DEF RecordedAs, Held, Mine, IsOurs
  <2> QED  BY <1>3, <1>5, <2>3 DEF Justified, Good, Undisturbed
<1>6. CASE act = Edit(r) /\ r \in rs
  <2>1. r \in fetched /\ IsOurs(r) /\ r.id \in Nat /\ act.what = "edit" /\ act.id = r.id
    BY <1>1, <1>2, <1>6 DEF Edit, Act, RecordType
  <2>2. r.id < serial /\ \A q \in zone : q.id = r.id => IsOurs(q)
    BY <1>2, <2>1 DEF FetchedIds, Same, IsOurs
  <2> QED  BY <1>4, <2>1, <2>2 DEF Justified
<1>7. CASE act = Create /\ rs = {}
  <2>1. ASSUME NEW q \in zone, q.id \in mine, q.type = fam PROVE FALSE
    <3>1. q.zone = at.zone /\ q.name = at.name
      BY <2>1 DEF MineInv, ShapeInv, FamPhases
    <3>2. \E s \in fetched : Same(q, s)
      BY <1>2, <2>1 DEF Foretold
    <3> QED  BY <1>1, <1>7, <2>1, <3>1, <3>2 DEF Same, IsOurs
  <2> QED  BY <1>4, <1>7, <2>1 DEF Justified
<1>8. CASE act \in {Fail, Throw}
  BY <1>8 DEF Justified
<1>9. \/ act = Skip /\ \E s \in rs : s.value = want[fam] /\ (s.tuned \/ ~TRUE)
      \/ act = Edit(r) /\ r \in rs
      \/ act = Create /\ rs = {}
      \/ act \in {Fail, Throw}
  BY DEF Decision, rs
<1> QED  BY <1>5, <1>6, <1>7, <1>8, <1>9

(***************************************************************************)
(* How a request leaves the call                                           *)
(***************************************************************************)

KeepsCall  == UNCHANGED <<account, foreign, disturbed, want, at, fetched, calls>>
KeepsStore == UNCHANGED <<zone, serial, mine, dirty>>

LEMMA KeptStore ==
    ASSUME StoreInv, MineInv, KeepsStore, account' = account
    PROVE  StoreInv' /\ MineInv'
BY DEF StoreInv, MineInv, KeepsStore, Once, Findable

LEMMA KeptHost ==
    ASSUME zone' = zone, want' = want, account' = account, NEW f
    PROVE  /\ Held(f)' = Held(f)
           /\ Good(f)' <=> Good(f)
           /\ Misplaced' <=> Misplaced
BY DEF Held, Mine, Good, RecordedAs, Alone, Misplaced

\* The call goes on with the same family.
LEMMA StayKeeps ==
    ASSUME SyncInv, phase \in FamPhases, KeepsCall, KeepsStore,
           UNCHANGED <<fam, results, result>>, page' \in 1 .. MaxPages,
           \/ phase' = "list" /\ target'.id \in Nat /\ phase \in {"pinned", "list"}
           \/ /\ phase' = "record" /\ account.provider = "ovh"
              /\ target'.what = "edit" /\ Justified(target')
           \/ /\ phase' = "write" /\ phase \in {"pinned", "list", "record"}
              /\ target' \notin {Skip, Fail, Throw} /\ Justified(target')
    PROVE  CallInv'
<1>0. /\ IInv /\ TypeOK /\ ShapeInv /\ StoreInv /\ MineInv /\ FetchInv /\ DoneInv
      /\ UNCHANGED <<account, disturbed, want, at, fetched, zone, serial, mine>>
      /\ account.provider \in RecordApis
  BY AtPlaced DEF SyncInv, CallInv, KeepsCall, KeepsStore
<1>1. phase' \in {"list", "record", "write"}
  OBVIOUS
<1>2. ASSUME phase' # "list"
      PROVE  /\ target'.id \in Nat
             /\ target'.what \in {"edit", "editAll", "set", "create"}
             /\ target'.what = "edit" =>
                  /\ target'.id < serial /\ \A r \in zone : r.id = target'.id => IsOurs(r)
                  /\ Exactly => \A r \in Held(fam) : r.id = target'.id
             /\ target'.what = "editAll" => (Undisturbed => Ours # {})
             /\ target'.what = "create" => /\ Once => \A r \in zone : r.id \in mine => r.type # fam
                                           /\ Exactly => Held(fam) = {}
  <2>1. Justified(target') /\ target' \notin {Skip, Fail, Throw}
    BY <1>2 DEF Skip, Fail, Throw, Act
  <2>2. \/ /\ target'.what = "edit" /\ target'.id \in Nat /\ target'.id < serial
           /\ \A r \in zone : r.id = target'.id => IsOurs(r)
           /\ Exactly => \A r \in Held(fam) : r.id = target'.id
        \/ target' = EditAll /\ (Undisturbed => Ours # {})
        \/ target' = Set
        \/ /\ target' = Create
           /\ Once => \A r \in zone : r.id \in mine => r.type # fam
           /\ Exactly => Held(fam) = {}
    BY <2>1 DEF Justified
  <2> QED  BY <2>2 DEF EditAll, Set, Create, Act
<1>3. TypeOK'
  BY <1>0, <1>1, <1>2 DEF TypeOK, Phases, KeepsCall, KeepsStore
<1>4. ShapeInv'
  BY <1>0, <1>1, <1>2 DEF ShapeInv, FamPhases, Asked
<1>5. StoreInv' /\ MineInv'
  BY <1>0, KeptStore
<1>6. TargetInv'
  BY <1>0, <1>1, <1>2 DEF TargetInv, IsOurs, Once, Findable
<1>7. FetchInv'
  <2>1. SUFFICES ASSUME account.provider = "bunny" PROVE FetchInv'
    BY <1>0 DEF FetchInv
  <2>2. phase = "list"
    BY <1>0, <2>1 DEF ShapeInv
  <2>3. FetchedIds' = FetchedIds /\ \A f \in Families : Foretold(f)' = Foretold(f) /\ Ahead(f)' = Ahead(f)
    BY <1>0 DEF FetchedIds, Foretold, Ahead, Same
  <2> QED  BY <1>0, <2>1, <2>2, <2>3 DEF FetchInv
<1>8. DoneInv'
  BY <1>0, <1>1, KeptHost DEF DoneInv, Undisturbed
<1>9. ReadyInv'
  <2>1. /\ Held(fam)' = Held(fam) /\ Ours' = Ours /\ Within' = Within
        /\ (Undisturbed' <=> Undisturbed) /\ (Exactly' <=> Exactly)
    BY <1>0, KeptHost DEF Ours, Undisturbed, Exactly, Held, Mine, Misplaced, Within
  <2> QED  BY <1>0, <1>1, <1>2, <2>1 DEF ReadyInv, Exactly
<1> QED  BY <1>3, <1>4, <1>5, <1>6, <1>7, <1>8, <1>9 DEF CallInv

\* The call ends.
LEMMA ReturnKeeps ==
    ASSUME SyncInv, phase \notin {"load", "idle"}, UNCHANGED <<account, foreign, disturbed, want, calls>>,
           StoreInv', MineInv', (zone \subseteq RecordType)', serial' \in Nat, (mine \subseteq 0 .. serial)',
           dirty' \in BOOLEAN, page' \in 1 .. MaxPages, target'.id \in Nat,
           (at.zone \in Zones \cup {NoZone})', (fetched \subseteq RecordType)',
           NEW r \in Results, Return(r),
           r \in {"ok", "skipped"} /\ Undisturbed => \A f \in Carried : Good(f)'
    PROVE  CallInv'
<1>0. TypeOK /\ phase' = "idle" /\ result' = r /\ results' = NoResults /\ fam' = "A"
  BY DEF SyncInv, CallInv, Return
<1>1. TypeOK'
  BY <1>0 DEF TypeOK, Phases, NoResults, Families
<1>2. ShapeInv'
  BY <1>0 DEF ShapeInv, FamPhases
<1>3. TargetInv' /\ FetchInv' /\ ReadyInv'
  BY <1>0 DEF TargetInv, FetchInv, ReadyInv
<1>4. DoneInv'
  <2>1. \A f \in Families : results'[f] = "none"
    BY <1>0 DEF NoResults
  <2>2. (Undisturbed' <=> Undisturbed) /\ Carried' = Carried
    BY DEF Undisturbed, Misplaced, Carried, Asked
  <2> QED  BY <1>0, <2>1, <2>2 DEF DoneInv
<1> QED  BY <1>1, <1>2, <1>3, <1>4 DEF CallInv

\* The ways a family ends.
LEMMA FinishCases ==
    ASSUME TypeOK, ShapeInv, phase \in FamPhases, NEW r \in {"ok", "skipped", "fail"}, Finish(r),
           NEW rs, rs = [results EXCEPT ![fam] = r]
    PROVE  \/ /\ fam = "A" /\ "AAAA" \in Asked(want)
              /\ results' = rs /\ fam' = "AAAA" /\ phase' = "list" /\ result' = result
           \/ /\ account.provider = "ovh" /\ \A f \in Asked(want) : rs[f] \in {"ok", "skipped"}
              /\ phase' = "refresh" /\ results' = rs /\ fam' = fam /\ result' = result
           \/ /\ \E q \in {"ok", "skipped", "fail"} :
                   /\ Return(q)
                   /\ q # "fail" => \A f \in Asked(want) : rs[f] \in {"ok", "skipped"}
<1> DEFINE q == CombineRecordResults({rs[f] : f \in Asked(want)})
<1>1. q \in {"fail", "skipped", "ok"}
  BY Combined
<1>2. CASE fam = "A" /\ "AAAA" \in Asked(want)
  BY <1>2 DEF Finish, Start
<1>3. CASE ~(fam = "A" /\ "AAAA" \in Asked(want))
  <2>1. ASSUME NEW f \in Asked(want) PROVE rs[f] \in {"ok", "skipped", "fail"}
    <3>1. fam \in {"A", "AAAA"} /\ f \in {"A", "AAAA"} /\ results \in [Families -> {"none", "ok", "skipped", "fail"}]
          /\ f \in Families
      BY DEF TypeOK, Families, Asked
    <3>2. f # fam => fam = "AAAA" /\ f = "A"
      BY <1>3, <3>1
    <3>3. f # fam => results[f] # "none"
      BY <3>2 DEF ShapeInv
    <3> QED  BY <3>1, <3>3
  <2>2. q # "fail" => \A f \in Asked(want) : rs[f] # "fail"
    BY DEF CombineRecordResults
  <2>3. \/ account.provider = "ovh" /\ q = "ok" /\ phase' = "refresh" /\ results' = rs /\ UNCHANGED <<fam, result>>
        \/ Return(q)
    BY <1>3 DEF Finish
  <2> HIDE DEF q
  <2> QED  BY <1>1, <2>1, <2>2, <2>3
<1> QED  BY <1>2, <1>3

\* A family ends; the store may have changed with it.
LEMMA FinishKeeps ==
    ASSUME SyncInv, phase \in FamPhases, KeepsCall,
           StoreInv', MineInv', (zone \subseteq RecordType)', serial' \in Nat, (mine \subseteq 0 .. serial)',
           dirty' \in BOOLEAN, page' \in 1 .. MaxPages, target'.id \in Nat,
           NEW r \in {"ok", "skipped", "fail"}, Finish(r),
           account.provider = "bunny" /\ fam = "A" => FetchedIds' /\ Foretold("AAAA")',
           NEW g, g = fam,
           Undisturbed => \A f \in Families \ {g} : results[f] \in {"ok", "skipped"} => Good(f)',
           Undisturbed /\ r # "fail" => Good(g)'
    PROVE  CallInv'
<1> DEFINE rs == [results EXCEPT ![fam] = r]
<1>0. /\ IInv /\ TypeOK /\ ShapeInv /\ FetchInv
      /\ UNCHANGED <<account, foreign, disturbed, want, at, fetched, calls>>
      /\ account.provider \in RecordApis /\ account.provider \notin QueryProviders
      /\ fam \in Asked(want) /\ result = "none"
  BY AtPlaced DEF SyncInv, CallInv, KeepsCall, ShapeInv, FamPhases
<1>1. rs \in [Families -> {"none", "ok", "skipped", "fail"}] /\ g \in Families
      /\ rs[g] = r /\ \A f \in Families \ {g} : rs[f] = results[f]
  BY <1>0 DEF TypeOK
<1>2. Undisturbed => \A f \in Families : rs[f] \in {"ok", "skipped"} => Good(f)'
  BY <1>1
<1> HIDE DEF rs
<1>3. (at.zone \in Zones \cup {NoZone})' /\ (fetched \subseteq RecordType)'
  BY <1>0 DEF TypeOK
<1>4. (Undisturbed' <=> Undisturbed) /\ Asked(want') = Asked(want)
  BY <1>0 DEF Undisturbed, Misplaced, Asked
<1>5. CASE /\ fam = "A" /\ "AAAA" \in Asked(want)
           /\ results' = rs /\ fam' = "AAAA" /\ phase' = "list" /\ result' = result
  <2>1. TypeOK'
    BY <1>0, <1>1, <1>3, <1>5 DEF TypeOK, Phases, Families
  <2>2. ShapeInv'
    <3>1. results["AAAA"] = "none" /\ rs["AAAA"] = "none" /\ rs["A"] # "none"
      BY <1>0, <1>1, <1>5 DEF ShapeInv, Families
    <3> QED  BY <1>0, <1>4, <1>5, <3>1 DEF ShapeInv, FamPhases
  <2>3. TargetInv' /\ ReadyInv'
    BY <1>5 DEF TargetInv, ReadyInv
  <2>4. FetchInv'
    <3>1. SUFFICES ASSUME account.provider = "bunny" PROVE FetchInv'
      BY <1>0 DEF FetchInv
    <3>2. IsFiniteSet(fetched)
      BY <1>0, <3>1 DEF FetchInv, FamPhases, ShapeInv
    <3>3. \A f \in Families : Ahead(f)' => f = "AAAA"
      BY <1>5 DEF Ahead
    <3> QED  BY <1>0, <1>5, <3>1, <3>2, <3>3 DEF FetchInv
  <2>5. DoneInv'
    BY <1>2, <1>4, <1>5 DEF DoneInv
  <2> QED  BY <2>1, <2>2, <2>3, <2>4, <2>5 DEF CallInv
<1>6. CASE /\ account.provider = "ovh" /\ \A f \in Asked(want) : rs[f] \in {"ok", "skipped"}
           /\ phase' = "refresh" /\ results' = rs /\ fam' = fam /\ result' = result
  <2>1. TypeOK'
    BY <1>0, <1>1, <1>3, <1>6 DEF TypeOK, Phases
  <2>2. ShapeInv'
    BY <1>0, <1>4, <1>6 DEF ShapeInv, FamPhases
  <2>3. TargetInv' /\ ReadyInv' /\ FetchInv'
    BY <1>6 DEF TargetInv, ReadyInv, FetchInv
  <2>4. DoneInv'
    BY <1>2, <1>4, <1>6 DEF DoneInv
  <2> QED  BY <2>1, <2>2, <2>3, <2>4 DEF CallInv
<1>7. CASE \E q \in {"ok", "skipped", "fail"} :
             /\ Return(q)
             /\ q # "fail" => \A f \in Asked(want) : rs[f] \in {"ok", "skipped"}
  <2>1. PICK q \in {"ok", "skipped", "fail"} :
             /\ Return(q)
             /\ q # "fail" => \A f \in Asked(want) : rs[f] \in {"ok", "skipped"}
    BY <1>7
  <2>2. q \in {"ok", "skipped"} /\ Undisturbed => \A f \in Carried : Good(f)'
    BY <1>0, <1>2, <2>1 DEF Carried, Asked
  <2>3. q \in Results /\ phase \notin {"load", "idle"}
    BY DEF Results, FamPhases
  <2> QED  BY <1>0, <1>3, <2>1, <2>2, <2>3, ReturnKeeps
<1> QED  BY <1>0, <1>5, <1>6, <1>7, FinishCases DEF rs

\* A decision is acted upon.
LEMMA DecideKeeps ==
    ASSUME SyncInv, phase \in {"pinned", "list", "record"}, KeepsCall, KeepsStore,
           page' \in 1 .. MaxPages, NEW act, Decide(act), Justified(act)
    PROVE  CallInv'
<1>0. /\ TypeOK /\ StoreInv /\ MineInv /\ DoneInv /\ FetchInv /\ ShapeInv /\ account' = account
      /\ UNCHANGED <<account, foreign, disturbed, want, at, fetched, calls, zone, serial, mine, dirty>>
      /\ phase \in FamPhases /\ target' = act /\ act.id \in Nat
  BY DEF SyncInv, CallInv, KeepsCall, KeepsStore, FamPhases, Decide, Justified,
         Skip, Fail, Throw, EditAll, Set, Create, Act
<1>1. /\ StoreInv' /\ MineInv' /\ (zone \subseteq RecordType)' /\ serial' \in Nat /\ (mine \subseteq 0 .. serial)'
      /\ dirty' \in BOOLEAN /\ target'.id \in Nat /\ (at.zone \in Zones \cup {NoZone})'
      /\ (fetched \subseteq RecordType)'
  BY <1>0, KeptStore DEF TypeOK
<1>2. account.provider = "bunny" /\ fam = "A" => FetchedIds' /\ Foretold("AAAA")'
  <2>1. SUFFICES ASSUME account.provider = "bunny", fam = "A" PROVE FetchedIds' /\ Foretold("AAAA")'
    OBVIOUS
  <2>2. phase = "list"
    BY <1>0, <2>1 DEF ShapeInv
  <2>3. FetchedIds /\ Foretold("AAAA")
    BY <1>0, <2>1, <2>2 DEF FetchInv, Ahead, Families
  <2> QED  BY <1>0, <2>3 DEF FetchedIds, Foretold, Same
<1>3. \A f \in Families : Good(f)' <=> Good(f)
  BY <1>0, KeptHost
<1>4. Undisturbed => \A f \in Families : results[f] \in {"ok", "skipped"} => Good(f)'
  BY <1>0, <1>3 DEF DoneInv
<1>5. PICK g \in Families : g = fam
  BY <1>0 DEF TypeOK
<1>6. Skip # Fail /\ Skip # Throw /\ Fail # Throw
  BY DEF Skip, Fail, Throw, Act
<1>7. CASE act = Skip
  <2>1. Finish("skipped")
    BY <1>6, <1>7, Zenon DEF Decide
  <2>2. Undisturbed => Good(g)'
    <3>1. Undisturbed => Good(fam)
      BY <1>6, <1>7 DEF Justified, Skip, Act, EditAll, Set, Create
    <3> QED  BY <1>3, <1>5, <3>1
  <2> QED  BY <1>0, <1>1, <1>2, <1>4, <1>5, <2>1, <2>2, FinishKeeps
<1>8. CASE act = Fail
  <2>1. Finish("fail")
    BY <1>6, <1>8, Zenon DEF Decide
  <2> QED  BY <1>0, <1>1, <1>2, <1>4, <1>5, <2>1, FinishKeeps
<1>9. CASE act = Throw
  <2>1. Return("throw")
    BY <1>6, <1>9, Zenon DEF Decide
  <2>2. "throw" \in Results /\ phase \notin {"load", "idle"}
    BY DEF Results
  <2> QED  BY <1>0, <1>1, <2>1, <2>2, ReturnKeeps
<1>10. CASE act \notin {Skip, Fail, Throw}
  <2>1. phase' = "write" /\ UNCHANGED <<fam, results, result>>
    BY <1>10 DEF Decide
  <2> QED  BY <1>0, <1>10, <2>1, StayKeeps
<1> QED  BY <1>7, <1>8, <1>9, <1>10

(***************************************************************************)
(* The requests                                                            *)
(***************************************************************************)

\* A refused lookup ends the family, a lost one the call.
LEMMA RefusedKeeps ==
    ASSUME SyncInv, phase \in {"pinned", "list", "record"}, KeepsCall, KeepsStore,
           page' \in 1 .. MaxPages, target' = target, Finish("fail") \/ Return("throw")
    PROVE  CallInv'
<1>0. /\ TypeOK /\ StoreInv /\ MineInv /\ DoneInv /\ FetchInv /\ ShapeInv /\ account' = account
      /\ UNCHANGED <<account, foreign, disturbed, want, at, fetched, calls, zone, serial, mine, dirty>>
      /\ phase \in FamPhases
  BY DEF SyncInv, CallInv, KeepsCall, KeepsStore, FamPhases
<1>1. /\ StoreInv' /\ MineInv' /\ (zone \subseteq RecordType)' /\ serial' \in Nat /\ (mine \subseteq 0 .. serial)'
      /\ dirty' \in BOOLEAN /\ target'.id \in Nat /\ (at.zone \in Zones \cup {NoZone})'
      /\ (fetched \subseteq RecordType)'
  BY <1>0, KeptStore DEF TypeOK
<1>2. CASE Return("throw")
  <2>1. "throw" \in Results /\ phase \notin {"load", "idle"}
    BY DEF Results
  <2> QED  BY <1>0, <1>1, <1>2, <2>1, ReturnKeeps
<1>3. CASE Finish("fail")
  <2>1. account.provider = "bunny" /\ fam = "A" => FetchedIds' /\ Foretold("AAAA")'
    <3>1. SUFFICES ASSUME account.provider = "bunny", fam = "A" PROVE FetchedIds' /\ Foretold("AAAA")'
      OBVIOUS
    <3>2. phase = "list"
      BY <1>0, <3>1 DEF ShapeInv
    <3>3. FetchedIds /\ Foretold("AAAA")
      BY <1>0, <3>1, <3>2 DEF FetchInv, Ahead, Families
    <3> QED  BY <1>0, <3>3 DEF FetchedIds, Foretold, Same
  <2>2. \A f \in Families : Good(f)' <=> Good(f)
    BY <1>0, KeptHost
  <2>3. Undisturbed => \A f \in Families : results[f] \in {"ok", "skipped"} => Good(f)'
    BY <1>0, <2>2 DEF DoneInv
  <2>4. PICK g \in Families : g = fam
    BY <1>0 DEF TypeOK
  <2> QED  BY <1>0, <1>1, <1>3, <2>1, <2>3, <2>4, FinishKeeps
<1> QED  BY <1>2, <1>3

LEMMA PinnedKeeps ==
    ASSUME SyncInv, NEW reply \in Replies, Pinned(reply)
    PROVE  CallInv'
<1> DEFINE seen  == LookupSeen("cloudflare", reply)
           pin   == {r \in zone : r.id = account.pinned /\ r.zone = at.zone}
           stale == \A r \in pin : r.type # fam \/ r.name # account.host
<1>0. /\ IInv /\ TypeOK /\ ShapeInv /\ StoreInv /\ phase = "pinned" /\ phase \in FamPhases
      /\ KeepsCall /\ KeepsStore /\ page' \in 1 .. MaxPages
  BY DEF SyncInv, CallInv, FamPhases, Pinned, KeepsCall, KeepsStore, server, others, TypeOK
<1>1. account.provider = "cloudflare" /\ account.provider \in RecordApis /\ account.pinned # NoPin
      /\ ~Once /\ account.provider \notin Exact /\ ~Exactly
  BY <1>0, AtPlaced DEF ShapeInv, Once, Findable, Exact, Exactly, QueryProviders, NicProviders
<1>2. at.zone # NoZone
  <2>1. account \in Accounts /\ AcceptedNow /\ at = CloudflareZone(account) /\ at # Nowhere
    BY <1>0, <1>1 DEF IInv, ShapeInv, ZoneOf
  <2> QED  BY <1>1, <2>1, AccountConfigured, CloudflarePlaced, ZoneAssumption
<1>3. \/ Return("throw") /\ target' = target
      \/ seen = "none" /\ Decide(CloudflareUpsert(account, {}, NoRecord, want[fam]))
      \/ phase' = "list" /\ UNCHANGED <<target, fam, results, result>>
      \/ ~stale /\ \E r \in pin : Decide(CloudflareUpsert(account, {r}, r, want[fam]))
  BY DEF Pinned
<1>4. CASE Return("throw") /\ target' = target
  BY <1>0, <1>4, RefusedKeeps
<1>5. CASE seen = "none" /\ Decide(CloudflareUpsert(account, {}, NoRecord, want[fam]))
  <2> DEFINE act == CloudflareUpsert(account, {}, NoRecord, want[fam])
  <2>1. act \in {Create, Fail}
    BY DEF CloudflareUpsert
  <2> HIDE DEF act
  <2>2. Justified(act)
    BY <1>1, <2>1 DEF Justified
  <2> QED  BY <1>0, <1>5, <2>2, DecideKeeps DEF act
<1>6. CASE phase' = "list" /\ UNCHANGED <<target, fam, results, result>>
  BY <1>0, <1>6, StayKeeps DEF TypeOK
<1>7. CASE ~stale /\ \E r \in pin : Decide(CloudflareUpsert(account, {r}, r, want[fam]))
  <2>1. PICK r \in pin : Decide(CloudflareUpsert(account, {r}, r, want[fam]))
    BY <1>7
  <2>2. r \in Ours
    <3>1. PICK s \in pin : s.type = fam /\ s.name = at.name
      BY <1>0, <1>1, <1>7, HostIsName
    <3>2. s = r
      BY <1>0, <1>1, <2>1, <3>1 DEF StoreInv
    <3> QED  BY <3>1, <3>2 DEF Ours
  <2> DEFINE act == CloudflareUpsert(account, {r}, r, want[fam])
  <2>3. act = Upsert(account, {r}, r, want[fam])
    BY <1>1 DEF Upsert
  <2>4. IsFiniteSet({r}) /\ FirstOf({r}, r)
    BY FS_Singleton DEF FirstOf
  <2> HIDE DEF act
  <2>5. Decision({r}, r, want[fam], account.provider \in ManagesTtl, account.provider \in Exact, act)
    BY <1>1, <2>3, <2>4, UpsertDecision
  <2>6. Justified(act)
    BY <1>0, <1>1, <1>2, <2>2, <2>5, DecisionJustified
  <2> QED  BY <1>0, <2>1, <2>6, DecideKeeps DEF act
<1> QED  BY <1>3, <1>4, <1>5, <1>6, <1>7

LEMMA RecordKeeps ==
    ASSUME SyncInv, NEW reply \in Replies, Record(reply)
    PROVE  CallInv'
<1> DEFINE rs == {s \in zone : s.id = target.id}
<1>0. /\ IInv /\ TypeOK /\ ShapeInv /\ StoreInv /\ TargetInv /\ ReadyInv /\ phase = "record" /\ phase \in FamPhases
      /\ KeepsCall /\ KeepsStore /\ page' \in 1 .. MaxPages
  BY DEF SyncInv, CallInv, FamPhases, Record, KeepsCall, KeepsStore, server, others, TypeOK
<1>1. account.provider = "ovh" /\ account.provider \in RecordApis /\ target.what = "edit"
  BY <1>0, AtPlaced DEF ShapeInv
<1>2. \/ (Return("throw") \/ Finish("fail")) /\ target' = target
      \/ \E s \in rs : Decide(Upsert(account, {s}, s, want[fam]))
  BY DEF Record
<1>3. CASE (Return("throw") \/ Finish("fail")) /\ target' = target
  BY <1>0, <1>3, RefusedKeeps
<1>4. CASE \E s \in rs : Decide(Upsert(account, {s}, s, want[fam]))
  <2>1. PICK s \in rs : Decide(Upsert(account, {s}, s, want[fam]))
    BY <1>4
  <2>2. s \in Ours /\ at.zone # NoZone
    <3>1. s \in zone /\ IsOurs(s)
      BY <1>0, <1>1, <2>1 DEF TargetInv
    <3> QED  BY <1>0, <1>1, <3>1, ZoneAssumption DEF Ours, IsOurs, StoreInv
  <2> DEFINE act == Upsert(account, {s}, s, want[fam])
  <2>3. IsFiniteSet({s}) /\ FirstOf({s}, s)
    BY FS_Singleton DEF FirstOf
  <2>4. Decision({s}, s, want[fam], account.provider \in ManagesTtl, account.provider \in Exact, act)
    BY <1>1, <2>3, UpsertDecision
  <2>5. Exactly => Held(fam) \subseteq {s}
    <3>1. ASSUME Exactly, NEW r \in Held(fam) PROVE r = s
      <4>1. r.id = target.id /\ r \in zone
        BY <1>0, <1>1, <3>1 DEF ReadyInv, Exactly, Held
      <4> QED  BY <1>0, <1>1, <2>1, <4>1 DEF StoreInv
    <3> QED  BY <3>1
  <2>6. act # Create
    BY <1>1 DEF Upsert, OvhUpsert, Skip, Edit, Create, Act
  <2> HIDE DEF act
  <2>7. Justified(act)
    BY <1>0, <2>2, <2>4, <2>5, <2>6, DecisionJustified
  <2> QED  BY <1>0, <2>1, <2>7, DecideKeeps DEF act
<1> QED  BY <1>2, <1>3, <1>4

\* What the client sees of a lookup.  Only Route53 takes an unreadable answer for none.
LEMMA SeenOk ==
    ASSUME NEW p \in RecordApis \ {"bunny"}, NEW reply \in Replies \ {"none"}
    PROVE  /\ LookupSeen(p, reply) = "ok" => reply = "ok"
           /\ LookupSeen(p, reply) = "none" => p = "route53"
           /\ LookupSeen(p, reply) \in {"ok", "none", "fail", "throw"}
<1>1. reply \in {"ok", "refused", "invalid", "lost"}
  BY DEF Replies
<1>2. /\ PlainLookup(reply) = "ok" => reply = "ok"
      /\ PlainLookup(reply) \in {"ok", "fail", "throw"}
      /\ OvhLookup(reply) = "ok" => reply = "ok"
      /\ OvhLookup(reply) \in {"ok", "fail", "throw"}
      /\ PorkbunJson(reply) = "ok" => reply = "ok"
      /\ PorkbunJson(reply) \in {"ok", "fail", "throw"}
      /\ HetznerLookup(reply) = "ok" => reply = "ok"
      /\ HetznerLookup(reply) \in {"ok", "throw"}
      /\ DigitalOceanLookup(reply) = "ok" => reply = "ok"
      /\ DigitalOceanLookup(reply) \in {"ok", "throw"}
      /\ Route53Lookup(reply) = "ok" => reply = "ok"
      /\ Route53Lookup(reply) \in {"ok", "none", "throw"}
      /\ AssertCloudflareSuccess(CloudflareJson(reply)) = "ok" => reply = "ok"
      /\ AssertCloudflareSuccess(CloudflareJson(reply)) \in {"ok", "throw"}
  BY <1>1 DEF PlainLookup, OvhLookup, PorkbunJson, HetznerLookup, DigitalOceanLookup, Route53Lookup,
              CloudflareJson, AssertCloudflareSuccess
<1> QED  BY <1>2 DEF LookupSeen, RecordApis

\* Decisions upon what the provider lists.
LEMMA ListedJustified ==
    ASSUME IInv, TypeOK, ShapeInv, StoreInv, MineInv, phase = "list", at.zone # NoZone,
           NEW rs \in SUBSET Ours, Findable => rs = Ours,
           NEW r, FirstOf(rs, r), account.provider = "ovh" => rs = {}
    PROVE  Justified(Upsert(account, rs, r, want[fam]))
<1> DEFINE act == Upsert(account, rs, r, want[fam])
<1>0. phase \in FamPhases /\ account.provider \in RecordApis /\ at = ZoneOf(account)
  BY AtPlaced DEF ShapeInv, FamPhases
<1>1. IsFiniteSet(rs)
  BY FS_Subset DEF StoreInv, Ours
<1>2. Decision(rs, r, want[fam], account.provider \in ManagesTtl, account.provider \in Exact, act)
  BY <1>0, <1>1, UpsertDecision
<1>3. Exactly => Held(fam) \subseteq rs
  BY <1>0, OursAreHeld DEF Exactly, Undisturbed, Findable, Exact, QueryProviders, NicProviders
<1> HIDE DEF act
<1>4. ASSUME act = Create, Once, NEW q \in zone, q.id \in mine PROVE q.type # fam
  <2>1. Ours = {}
    BY <1>2, <1>4 DEF Once, Findable, Decision, Skip, Fail, Throw, Edit, EditAll, Set, Create, Act
  <2>2. q.zone = at.zone /\ q.name = at.name
    BY <1>0, <1>4 DEF MineInv
  <2> QED  BY <2>1, <2>2 DEF Ours
<1>5. Justified(act)
  BY <1>0, <1>2, <1>3, <1>4, DecisionJustified
<1> QED  BY <1>5 DEF act

LEMMA ListKeeps ==
    ASSUME SyncInv, NEW reply \in Replies \ {"none"}, List(reply)
    PROVE  CallInv'
<1> DEFINE p    == account.provider
           seen == IF p = "bunny" THEN "ok" ELSE LookupSeen(p, reply)
           more == p = "hetzner" /\ page < account.depth /\ seen = "ok"
           rs   == IF seen = "none" \/ (p = "hetzner" /\ page < account.depth) THEN {}
                   ELSE Listed(IF p = "bunny" THEN fetched ELSE zone, fam)
<1>0. /\ IInv /\ TypeOK /\ ShapeInv /\ StoreInv /\ MineInv /\ TargetInv /\ FetchInv
      /\ phase = "list" /\ phase \in FamPhases /\ p \in RecordApis
      /\ KeepsCall /\ KeepsStore
  BY AtPlaced DEF SyncInv, CallInv, FamPhases, List, KeepsCall, KeepsStore, server, others
<1>1. /\ seen = "ok" /\ p # "bunny" => at.zone # NoZone
      /\ seen = "none" => p = "route53"
      /\ seen \in {"ok", "none", "fail", "throw"}
  BY <1>0, SeenOk DEF List
<1>2. page \in 1 .. MaxPages /\ 1 \in 1 .. MaxPages /\ NextPage \in 1 .. MaxPages
  BY <1>0, ValueAssumption DEF TypeOK, NextPage
<1>3. \/ (Finish("fail") \/ Return("throw")) /\ UNCHANGED <<page, target>>
      \/ page' = NextPage /\ UNCHANGED <<phase, target, fam, results, result>>
      \/ /\ page' = 1 /\ p = "ovh" /\ seen \notin {"fail", "throw"} /\ OvhIds(rs) = "duplicates" /\ Decide(Fail)
      \/ /\ page' = 1 /\ p = "ovh" /\ seen \notin {"fail", "throw"} /\ OvhIds(rs) \notin {"absent", "duplicates"}
         /\ \E r \in rs : target' = Edit(r)
         /\ phase' = "record" /\ UNCHANGED <<fam, results, result>>
      \/ /\ page' = 1 /\ (p = "ovh" => OvhIds(rs) = "absent") /\ seen \notin {"fail", "throw"} /\ ~(more /\ ~GivesUp)
         /\ \E r \in rs \cup {NoRecord} : FirstOf(rs, r) /\ Decide(Upsert(account, rs, r, want[fam]))
  BY DEF List
<1>4. CASE (Finish("fail") \/ Return("throw")) /\ UNCHANGED <<page, target>>
  BY <1>0, <1>2, <1>4, RefusedKeeps
<1>5. CASE page' = NextPage /\ UNCHANGED <<phase, target, fam, results, result>>
  BY <1>0, <1>2, <1>5, StayKeeps DEF TypeOK
<1>6. CASE page' = 1 /\ Decide(Fail)
  <2>1. Justified(Fail)
    BY DEF Justified
  <2> QED  BY <1>0, <1>2, <1>6, <2>1, DecideKeeps
<1>7. ASSUME p # "bunny", seen = "ok", ~(p = "hetzner" /\ page < account.depth)
      PROVE  rs \subseteq Ours /\ (Findable => rs = Ours) /\ IsFiniteSet(Ours)
  BY <1>0, <1>7, ListedAreOurs, FS_Subset DEF StoreInv, Ours
<1>8. CASE /\ page' = 1 /\ p = "ovh" /\ seen \notin {"fail", "throw"} /\ OvhIds(rs) \notin {"absent", "duplicates"}
           /\ \E r \in rs : target' = Edit(r)
           /\ phase' = "record" /\ UNCHANGED <<fam, results, result>>
  <2>1. seen = "ok" /\ rs = Ours /\ IsFiniteSet(Ours) /\ at.zone # NoZone
    BY <1>1, <1>7, <1>8 DEF Findable
  <2>2. ~(Cardinality(Ours) > 1)
    BY <1>8, <2>1 DEF OvhIds
  <2>3. PICK r \in Ours : target' = Edit(r)
    BY <1>8, <2>1
  <2>4. Ours = {r}
    BY <2>1, <2>2, <2>3, CardinalityOne DEF FirstOf
  <2>5. Justified(Edit(r))
    <3>1. Decision(Ours, r, want[fam], account.provider \in ManagesTtl, account.provider \in Exact, Edit(r))
      BY <2>3, <2>4 DEF Decision
    <3>2. Exactly => Held(fam) \subseteq Ours
      BY <1>0, <2>1, OursAreHeld DEF Exactly, Undisturbed
    <3>3. Edit(r) # Create
      BY DEF Edit, Create, Act
    <3> QED  BY <1>0, <2>1, <3>1, <3>2, <3>3, DecisionJustified
  <2>6. target'.what = "edit" /\ Justified(target')
    BY <2>3, <2>5 DEF Edit, Act
  <2> QED  BY <1>0, <1>2, <1>8, <2>6, StayKeeps
<1>9. CASE /\ page' = 1 /\ (p = "ovh" => OvhIds(rs) = "absent") /\ seen \notin {"fail", "throw"} /\ ~(more /\ ~GivesUp)
           /\ \E r \in rs \cup {NoRecord} : FirstOf(rs, r) /\ Decide(Upsert(account, rs, r, want[fam]))
  <2>1. PICK r : FirstOf(rs, r) /\ Decide(Upsert(account, rs, r, want[fam]))
    BY <1>9
  <2>2. CASE p = "bunny"
    <3>1. rs = Listed(fetched, fam)
      BY <2>2
    <3>2. IsFiniteSet(rs)
      BY <1>0, <2>2, <3>1, FS_Subset DEF FetchInv, Listed
    <3> DEFINE act == Upsert(account, rs, r, want[fam])
    <3>3. p \in ManagesTtl /\ p \notin Exact /\ p # "ovh"
      BY <2>2 DEF ManagesTtl, Exact, QueryProviders, NicProviders
    <3>4. Decision(rs, r, want[fam], TRUE, FALSE, act)
      <4>1. Decision(rs, r, want[fam], p \in ManagesTtl, p \in Exact, act)
        BY <1>0, <2>1, <3>2, <3>3, UpsertDecision
      <4> QED  BY <3>3, <4>1 DEF Decision
    <3>5. act # Set /\ act # EditAll
      BY <2>2 DEF Upsert, BunnyUpsert, Skip, Edit, Create, Set, EditAll, Act
    <3> HIDE DEF act
    <3>6. Justified(act)
      BY <1>0, <2>2, <3>1, <3>4, <3>5, CopyJustified
    <3> QED  BY <1>0, <1>2, <1>9, <2>1, <3>6, DecideKeeps DEF act
  <2>3. CASE seen = "none"
    <3>1. p = "route53" /\ rs = {}
      BY <1>1, <2>3
    <3>2. Upsert(account, rs, r, want[fam]) \in {Fail, Set}
      BY <3>1 DEF Upsert, Route53UpsertRecordSet
    <3>3. Justified(Upsert(account, rs, r, want[fam]))
      BY <3>2 DEF Justified
    <3> QED  BY <1>0, <1>2, <1>9, <2>1, <3>3, DecideKeeps
  <2>4. CASE seen = "ok" /\ p = "hetzner" /\ page < account.depth
    <3>1. rs = {} /\ Upsert(account, rs, r, want[fam]) = Create
      BY <2>4 DEF Upsert, HetznerUpsert
    <3>2. ~Once
      <4>1. GivesUp
        BY <1>9, <2>4
      <4>2. account.depth \in Nat
        BY <1>0, AccountAssumption DEF IInv
      <4> QED  BY <1>2, <2>4, <4>1, <4>2, ValueAssumption DEF Once, Findable, GivesUp
    <3>3. ~Exactly
      BY <2>4 DEF Exactly, Exact, QueryProviders, NicProviders
    <3>4. Justified(Upsert(account, rs, r, want[fam]))
      BY <3>1, <3>2, <3>3 DEF Justified
    <3> QED  BY <1>0, <1>2, <1>9, <2>1, <3>4, DecideKeeps
  <2>5. CASE seen = "ok" /\ p # "bunny" /\ ~(p = "hetzner" /\ page < account.depth)
    <3>1. rs \subseteq Ours /\ (Findable => rs = Ours) /\ at.zone # NoZone
      BY <1>1, <1>7, <2>5
    <3>2. p = "ovh" => rs = {}
      BY <1>9, <3>1 DEF OvhIds
    <3>3. Justified(Upsert(account, rs, r, want[fam]))
      BY <1>0, <2>1, <3>1, <3>2, ListedJustified
    <3> QED  BY <1>0, <1>2, <1>9, <2>1, <3>1, <3>3, DecideKeeps
  <2> QED  BY <1>1, <1>9, <2>2, <2>3, <2>4, <2>5
<1> QED  BY <1>3, <1>4, <1>5, <1>6, <1>8, <1>9

(***************************************************************************)
(* The write                                                               *)
(***************************************************************************)

\* The records that a write replaces, and what it puts in their place.
Replaced ==
    CASE target.what = "edit"                  -> {r \in zone : r.id = target.id}
      [] target.what \in {"editAll", "set"}    -> Ours
      [] target.what = "create"                -> {}
Put == IF target.what \in {"edit", "editAll"} THEN {Edited(r) : r \in Replaced} ELSE {Fresh}

\* A record that holds what the call wants for the family.
Wanted(r) ==
    /\ r \in RecordType
    /\ r.zone = at.zone /\ r.name = at.name /\ r.type = fam
    /\ r.value = want[fam] /\ r.tuned = TRUE

LEMMA WriteReplaces ==
    ASSUME IInv, TypeOK, ShapeInv, TargetInv, phase = "write", at.zone # NoZone
    PROVE  /\ Written(target) = (zone \ Replaced) \cup Put
           /\ Replaced \subseteq Ours
           /\ \A r \in Put : Wanted(r)
           /\ target.what \in {"edit", "editAll"} => \A r \in Put : \E s \in Replaced : r = Edited(s) /\ r.id = s.id
           /\ target.what \in {"set", "create"} => Put = {Fresh}
<1>1. /\ phase \in FamPhases /\ PlacedWell(account, at)
      /\ target.what \in {"edit", "editAll", "set", "create"}
  BY AtPlaced DEF ShapeInv, FamPhases
<1>2. /\ at.zone \in Zones /\ at.name \in Seq(STRING) /\ fam \in Families /\ want[fam] \in Values
      /\ serial \in Nat /\ zone \subseteq RecordType
  <2>1. fam \in Families /\ want[fam] # NoValue /\ want \in [Families -> Values \cup {NoValue}]
    BY <1>1, WantAssumption DEF ShapeInv, Asked, TypeOK, NoWant
  <2> QED  BY <1>1, <2>1 DEF PlacedWell, TypeOK
<1>3. Replaced \subseteq Ours
  BY <1>1 DEF Replaced, TargetInv, Ours, IsOurs
<1>4. ASSUME NEW r \in Ours PROVE Wanted(Edited(r)) /\ Edited(r).id = r.id
  BY <1>2 DEF Ours, Edited, Wanted, RecordType
<1>5. Wanted(Fresh)
  BY <1>2 DEF Fresh, Wanted, RecordType
<1>6. \A r \in Put : Wanted(r)
  BY <1>3, <1>4, <1>5 DEF Put
<1>7. Written(target) = (zone \ Replaced) \cup Put
  <2>1. CASE target.what = "edit"
    <3>1. Written(target) = {IF r.id = target.id THEN Edited(r) ELSE r : r \in zone}
      BY <2>1 DEF Written
    <3>2. Replaced = {r \in zone : r.id = target.id} /\ Put = {Edited(r) : r \in Replaced}
      BY <2>1 DEF Replaced, Put
    <3> QED  BY <3>1, <3>2
  <2>2. CASE target.what = "editAll"
    <3>1. Written(target) = {IF r \in Ours THEN Edited(r) ELSE r : r \in zone}
      BY <2>2 DEF Written
    <3>2. Replaced = Ours /\ Put = {Edited(r) : r \in Replaced} /\ Ours \subseteq zone
      BY <2>2 DEF Replaced, Put, Ours
    <3> QED  BY <3>1, <3>2
  <2>3. CASE target.what = "set"
    BY <2>3 DEF Written, Replaced, Put
  <2>4. CASE target.what = "create"
    BY <2>4 DEF Written, Replaced, Put
  <2> QED  BY <1>1, <2>1, <2>2, <2>3, <2>4
<1>8. target.what \in {"edit", "editAll"} => \A r \in Put : \E s \in Replaced : r = Edited(s) /\ r.id = s.id
  BY <1>3, <1>4 DEF Put
<1>9. target.what \in {"set", "create"} => Put = {Fresh}
  BY DEF Put
<1> QED  BY <1>3, <1>6, <1>7, <1>8, <1>9

\* What a write does to the store.
Stored ==
    /\ Within /\ at.zone # NoZone /\ zone' = (zone \ Replaced) \cup Put
    /\ \/ /\ target.what \in {"edit", "editAll"} /\ serial' = serial /\ mine' = mine
          /\ target.what = "edit" => Replaced # {}
       \/ target.what \in {"set", "create"} /\ serial' = serial + 1 /\ mine' = mine \cup {serial}

LEMMA WriteStores ==
    ASSUME SyncInv, NEW done \in BOOLEAN, NEW reply \in Replies, Write(done, reply)
    PROVE  (done => Stored) /\ (~done => KeepsStore)
<1>1. phase = "write" /\ IInv /\ TypeOK /\ ShapeInv /\ TargetInv
  BY DEF Write, SyncInv, CallInv
<1>2. CASE ~done
  BY <1>2 DEF Write, KeepsStore, server
<1>3. CASE done
  <2>1. Within /\ at.zone # NoZone /\ (target.what = "edit" => \E r \in zone : r.id = target.id)
    BY <1>3 DEF Write, Within
  <2>2. zone' = Written(target) /\ Written(target) = (zone \ Replaced) \cup Put
    BY <1>1, <1>3, <2>1, WriteReplaces DEF Write
  <2>3. target.what \in {"edit", "editAll", "set", "create"}
    BY <1>1 DEF ShapeInv
  <2>4. \/ target.what \in {"edit", "editAll"} /\ serial' = serial /\ mine' = mine
        \/ target.what \in {"set", "create"} /\ serial' = serial + 1 /\ mine' = mine \cup {serial}
    BY <1>3, <2>3 DEF Write
  <2>5. target.what = "edit" => Replaced # {}
    BY <2>1 DEF Replaced
  <2> QED  BY <1>3, <2>1, <2>2, <2>4, <2>5 DEF Stored
<1> QED  BY <1>2, <1>3

\* The records after a write: old ones, and ones that are wanted, which have the id of a
\* record they replace or a new one.
LEMMA StoredRecords ==
    ASSUME IInv, TypeOK, ShapeInv, TargetInv, phase = "write", Stored
    PROVE  /\ \A r \in zone \ zone' : IsOurs(r)
           /\ \A r \in zone' : \/ r \in zone \ Replaced
                               \/ /\ Wanted(r) /\ IsOurs(r)
                                  /\ \/ r.id = serial /\ target.what \in {"set", "create"} /\ r = Fresh
                                     \/ /\ target.what \in {"edit", "editAll"}
                                        /\ \E s \in Replaced : r = Edited(s) /\ s.id = r.id /\ s \in zone /\ IsOurs(s)
<1>1. /\ Replaced \subseteq Ours /\ Ours \subseteq zone
      /\ \A r \in Put : Wanted(r)
      /\ target.what \in {"edit", "editAll"} => \A r \in Put : \E s \in Replaced : r = Edited(s) /\ r.id = s.id
      /\ target.what \in {"set", "create"} => Put = {Fresh}
  BY WriteReplaces DEF Stored, Ours
<1>2. target.what \in {"edit", "editAll", "set", "create"}
  BY DEF ShapeInv
<1>3. Fresh.id = serial
  BY DEF Fresh
<1>4. \A r \in Ours : IsOurs(r)
  BY DEF Ours, IsOurs
<1>5. \A r : Wanted(r) => IsOurs(r)
  BY DEF Wanted, IsOurs
<1> QED  BY <1>1, <1>2, <1>3, <1>4, <1>5 DEF Stored

LEMMA StoredFinite ==
    ASSUME StoreInv, IInv, TypeOK, ShapeInv, TargetInv, phase = "write", Stored
    PROVE  IsFiniteSet(zone')
<1>1. Replaced \subseteq zone
  BY WriteReplaces DEF Stored, Ours
<1>2. IsFiniteSet(Replaced) /\ IsFiniteSet(zone \ Replaced)
  BY <1>1, FS_Subset DEF StoreInv
<1>3. IsFiniteSet(Put)
  <2>1. CASE target.what \in {"edit", "editAll"}
    <3> DEFINE edits == [s \in Replaced |-> Edited(s)]
    <3>1. edits \in Surjection(Replaced, Put)
      BY <2>1 DEF Put, Surjection
    <3> QED  BY <1>2, <3>1, FS_Surjection
  <2>2. CASE target.what \notin {"edit", "editAll"}
    BY <2>2, FS_Singleton DEF Put
  <2> QED  BY <2>1, <2>2
<1> QED  BY <1>2, <1>3, FS_Union DEF Stored

LEMMA StoredStore ==
    ASSUME SyncInv, phase = "write", Stored, account' = account
    PROVE  StoreInv' /\ (zone \subseteq RecordType)' /\ serial' \in Nat /\ (mine \subseteq 0 .. serial)'
<1>0. /\ IInv /\ TypeOK /\ ShapeInv /\ TargetInv /\ StoreInv /\ phase \in FamPhases
      /\ serial \in Nat /\ zone \subseteq RecordType /\ mine \subseteq 0 .. serial
  BY DEF SyncInv, CallInv, FamPhases, TypeOK
<1>1. /\ account.provider \in RecordApis /\ PlacedWell(account, at) /\ (~Misplaced => at.name = FullName(account))
      /\ at.zone \in Zones /\ IsSuffix(ZoneName[at.zone], at.name)
  BY <1>0, AtPlaced DEF PlacedWell, Stored, Within
<1>2. \A r \in zone' : \/ r \in zone \ Replaced
                       \/ /\ Wanted(r) /\ IsOurs(r)
                          /\ \/ r.id = serial /\ target.what \in {"set", "create"} /\ r = Fresh
                             \/ /\ target.what \in {"edit", "editAll"}
                                /\ \E s \in Replaced : r = Edited(s) /\ s.id = r.id /\ s \in zone /\ IsOurs(s)
  BY <1>0, StoredRecords
<1>3. \/ target.what \in {"edit", "editAll"} /\ serial' = serial /\ mine' = mine
      \/ target.what \in {"set", "create"} /\ serial' = serial + 1 /\ mine' = mine \cup {serial}
  BY DEF Stored
<1>4. serial' \in Nat /\ serial <= serial' /\ mine' \subseteq 0 .. serial'
  <2>1. CASE serial' = serial /\ mine' = mine
    BY <1>0, <2>1
  <2>2. CASE serial' = serial + 1 /\ mine' = mine \cup {serial}
    <3>1. \A i \in 0 .. serial : i \in 0 .. serial + 1
      BY <1>0
    <3> QED  BY <1>0, <2>2, <3>1
  <2> QED  BY <1>3, <2>1, <2>2
<1>5. /\ \A r \in zone : r.id \in Nat /\ r.id < serial /\ r.zone \in Zones /\ IsSuffix(ZoneName[r.zone], r.name)
      /\ \A r, s \in zone : r.id = s.id => r = s
  BY <1>0, <1>1 DEF StoreInv, RecordType
<1>6. ASSUME NEW r \in zone' PROVE r.id < serial' /\ r.zone \in Zones /\ IsSuffix(ZoneName[r.zone], r.name)
  <2>1. r.id < serial'
    BY <1>0, <1>2, <1>3, <1>5
  <2> QED  BY <1>1, <1>2, <1>5, <2>1 DEF IsOurs
<1>7. ASSUME NEW r \in zone', NEW s \in zone', r.id = s.id PROVE r = s
  <2>1. CASE target.what \in {"edit", "editAll"}
    <3>1. PICK r0 \in zone : r0.id = r.id /\ ((r0 = r /\ r \notin Replaced) \/ (r0 \in Replaced /\ r = Edited(r0)))
      BY <1>2, <2>1
    <3>2. PICK s0 \in zone : s0.id = s.id /\ ((s0 = s /\ s \notin Replaced) \/ (s0 \in Replaced /\ s = Edited(s0)))
      BY <1>2, <2>1
    <3>3. r0 = s0
      BY <1>5, <1>7, <3>1, <3>2
    <3> QED  BY <3>1, <3>2, <3>3
  <2>2. CASE target.what \in {"set", "create"}
    <3>1. \A q \in zone' : q \in zone \/ (q = Fresh /\ q.id = serial)
      BY <1>2, <1>5, <2>2
    <3>2. \A q \in zone : q.id # serial
      BY <1>0, <1>5
    <3> QED  BY <1>5, <1>7, <3>1, <3>2
  <2> QED  BY <1>3, <2>1, <2>2
<1>8. ASSUME account.provider \in {"digitalocean", "contabo"}, NEW r \in zone', NEW z \in Zones
      PROVE  Ordinary(r.name, ZoneName[z])
  <2>1. r \in zone \/ r.name = FullName(account)
    BY <1>1, <1>2, <1>8 DEF IsOurs, Misplaced
  <2> QED  BY <1>0, <1>8, <2>1, OrdinaryHost DEF StoreInv, IInv
<1>9. IsFiniteSet(zone')
  BY <1>0, StoredFinite
<1>10. StoreInv'
  BY <1>6, <1>7, <1>8, <1>9 DEF StoreInv
<1>11. zone' \subseteq RecordType
  BY <1>0, <1>2 DEF Wanted
<1> QED  BY <1>4, <1>10, <1>11

LEMMA StoredMine ==
    ASSUME SyncInv, phase = "write", Stored, account' = account
    PROVE  MineInv'
<1>0. /\ IInv /\ TypeOK /\ ShapeInv /\ TargetInv /\ StoreInv /\ MineInv /\ phase \in FamPhases
      /\ serial \in Nat
  BY DEF SyncInv, CallInv, FamPhases, TypeOK
<1>1. account.provider \in RecordApis /\ account.provider \notin QueryProviders /\ at = ZoneOf(account)
  BY <1>0, AtPlaced DEF ShapeInv
<1>2. \A r \in zone' : \/ r \in zone \ Replaced
                       \/ /\ Wanted(r) /\ IsOurs(r)
                          /\ \/ r.id = serial /\ target.what \in {"set", "create"} /\ r = Fresh
                             \/ /\ target.what \in {"edit", "editAll"}
                                /\ \E s \in Replaced : r = Edited(s) /\ s.id = r.id /\ s \in zone /\ IsOurs(s)
  BY <1>0, StoredRecords
<1>3. \/ target.what \in {"edit", "editAll"} /\ serial' = serial /\ mine' = mine
      \/ target.what \in {"set", "create"} /\ serial' = serial + 1 /\ mine' = mine \cup {serial}
  BY DEF Stored
<1>4. \A r \in zone : r.id # serial
  BY <1>0, <1>1 DEF StoreInv, TypeOK, RecordType
<1>5. \A i \in mine' : i < serial'
  <2>1. mine \subseteq Nat /\ \A i \in mine : i < serial
    BY <1>0 DEF MineInv, TypeOK
  <2>2. CASE serial' = serial /\ mine' = mine
    BY <2>1, <2>2
  <2>3. CASE serial' = serial + 1 /\ mine' = mine \cup {serial}
    <3>1. \A i \in mine \cup {serial} : i < serial + 1
      BY <1>0, <2>1
    <3> QED  BY <2>3, <3>1
  <2> QED  BY <1>3, <2>2, <2>3
<1>6. \A r \in zone \ Replaced : r.id \in mine' => r.id \in mine
  BY <1>3, <1>4
<1>7. ASSUME NEW r \in zone', r.id \in mine' PROVE r.zone = ZoneOf(account).zone /\ r.name = ZoneOf(account).name
  BY <1>0, <1>1, <1>2, <1>6, <1>7 DEF MineInv, IsOurs
<1>8. ASSUME Once, NEW r \in zone', NEW s \in zone', r.id \in mine', s.id \in mine', r.type = s.type PROVE r = s
  <2>0. \A x, y \in zone : x.id \in mine /\ y.id \in mine /\ x.type = y.type => x = y
    BY <1>0, <1>8 DEF MineInv
  <2>1. CASE target.what \in {"edit", "editAll"}
    <3>1. PICK r0 \in zone : /\ r0.id = r.id /\ r0.type = r.type
                             /\ (r0 = r /\ r \notin Replaced) \/ (r0 \in Replaced /\ r = Edited(r0))
      BY <1>2, <2>1 DEF IsOurs
    <3>2. PICK s0 \in zone : /\ s0.id = s.id /\ s0.type = s.type
                             /\ (s0 = s /\ s \notin Replaced) \/ (s0 \in Replaced /\ s = Edited(s0))
      BY <1>2, <2>1 DEF IsOurs
    <3>3. r0.id \in mine /\ s0.id \in mine
      BY <1>3, <1>8, <2>1, <3>1, <3>2
    <3>4. r0 = s0
      BY <1>8, <2>0, <3>1, <3>2, <3>3
    <3> QED  BY <3>1, <3>2, <3>4
  <2>2. CASE target.what \in {"set", "create"}
    <3>1. \A q \in zone' : q \in zone \ Replaced \/ (q = Fresh /\ q.type = fam)
      BY <1>2, <2>2 DEF IsOurs
    <3>2. ASSUME NEW q \in zone \ Replaced, q.id \in mine' PROVE q.type # fam
      <4>1. q.id \in mine /\ q.zone = at.zone /\ q.name = at.name
        BY <1>0, <1>1, <1>6, <3>2 DEF MineInv
      <4>2. CASE target.what = "set"
        BY <3>2, <4>1, <4>2 DEF Replaced, Ours
      <4>3. CASE target.what = "create"
        BY <1>0, <1>8, <4>1, <4>3 DEF TargetInv
      <4> QED  BY <2>2, <4>2, <4>3
    <3>3. \A q \in zone \ Replaced : q.id \in mine' => q.id \in mine /\ q \in zone
      BY <1>6
    <3> QED  BY <1>8, <2>0, <3>1, <3>2, <3>3
  <2> QED  BY <1>3, <2>1, <2>2
<1>9. Once' <=> Once
  BY DEF Once, Findable
<1> QED  BY <1>1, <1>5, <1>7, <1>8, <1>9 DEF MineInv

\* A write leaves the other family as it is, and Bunny's copy true of it.
LEMMA StoredOthers ==
    ASSUME SyncInv, phase = "write", Stored, UNCHANGED <<account, disturbed, want, fetched>>
    PROVE  /\ \A f \in Families : f # fam /\ Good(f) => Good(f)'
           /\ account.provider = "bunny" /\ fam = "A" => FetchedIds' /\ Foretold("AAAA")'
<1>0. /\ IInv /\ TypeOK /\ ShapeInv /\ TargetInv /\ StoreInv /\ FetchInv /\ MineInv /\ phase \in FamPhases
      /\ serial \in Nat /\ fetched \subseteq RecordType
  BY DEF SyncInv, CallInv, FamPhases, TypeOK
<1>1. \A r \in zone' : \/ r \in zone \ Replaced
                       \/ /\ Wanted(r) /\ IsOurs(r)
                          /\ \/ r.id = serial /\ target.what \in {"set", "create"} /\ r = Fresh
                             \/ /\ target.what \in {"edit", "editAll"}
                                /\ \E s \in Replaced : r = Edited(s) /\ s.id = r.id /\ s \in zone /\ IsOurs(s)
  BY <1>0, StoredRecords
<1>2. \A r \in zone \ zone' : IsOurs(r)
  BY <1>0, StoredRecords
<1>3. \A r : r.type # fam => (r \in zone' <=> r \in zone)
  BY <1>1, <1>2 DEF IsOurs
<1>4. ASSUME NEW f \in Families, f # fam, Good(f) PROVE Good(f)'
  <2>1. Held(f)' = Held(f)
    BY <1>3, <1>4 DEF Held, Mine
  <2> QED  BY <1>4, <2>1 DEF Good, RecordedAs, Alone
<1>5. ASSUME account.provider = "bunny", fam = "A" PROVE FetchedIds' /\ Foretold("AAAA")'
  <2>1. FetchedIds /\ Foretold("AAAA")
    BY <1>0, <1>5 DEF FetchInv, Ahead, Families
  <2>2. (serial' = serial \/ serial' = serial + 1) /\ mine' \subseteq mine \cup {serial}
    BY DEF Stored
  <2>3. ASSUME NEW s \in fetched PROVE s.id < serial' /\ \A r \in zone' : r.id = s.id => Same(r, s)
    <3>1. s.id \in Nat /\ s.id < serial /\ \A r \in zone : r.id = s.id => Same(r, s)
      BY <1>0, <2>1 DEF FetchedIds, RecordType
    <3>2. s.id < serial' /\ s.id # serial
      BY <1>0, <2>2, <3>1
    <3>3. ASSUME NEW r \in zone', r.id = s.id PROVE Same(r, s)
      <4>1. CASE r \in zone
        BY <3>1, <3>3, <4>1
      <4>2. CASE \E q \in zone : q.id = r.id /\ IsOurs(q) /\ IsOurs(r)
        BY <3>1, <3>3, <4>2 DEF Same, IsOurs
      <4> QED  BY <1>1, <3>2, <3>3, <4>1, <4>2
    <3> QED  BY <3>2, <3>3
  <2>4. FetchedIds'
    BY <2>3 DEF FetchedIds, Same
  <2>5. ASSUME NEW r \in zone', r.id \in mine', r.type = "AAAA" PROVE \E s \in fetched : Same(r, s)
    <3>1. r \in zone
      BY <1>3, <1>5, <2>5
    <3>2. r.id # serial
      BY <1>0, <1>5, <3>1 DEF StoreInv, RecordApis, TypeOK, RecordType
    <3> QED  BY <2>1, <2>2, <2>5, <3>1, <3>2 DEF Foretold
  <2>6. ASSUME ~disturbed, NEW r \in fetched \cup zone', r.type = "AAAA" PROVE r \in fetched <=> r \in zone'
    BY <1>3, <1>5, <2>1, <2>6 DEF Foretold
  <2> QED  BY <2>4, <2>5, <2>6 DEF Foretold, Same
<1> QED  BY <1>4, <1>5

\* A write records the family.
LEMMA StoredIsGood ==
    ASSUME SyncInv, phase = "write", Stored, UNCHANGED <<account, want>>, Undisturbed,
           NEW g, g = fam
    PROVE  Good(g)'
<1>0. /\ IInv /\ TypeOK /\ ShapeInv /\ TargetInv /\ StoreInv /\ ReadyInv /\ phase \in FamPhases
      /\ target.what \in {"edit", "editAll", "set", "create"}
  BY DEF SyncInv, CallInv, FamPhases, ShapeInv
<1>1. /\ zone' = (zone \ Replaced) \cup Put /\ \A r \in Put : Wanted(r)
      /\ at.zone # NoZone /\ Within
  BY <1>0, WriteReplaces DEF Stored
<1>2. at.name = FullName(account) /\ Ours \subseteq Held(fam) /\ (DisjointZones => Ours = Held(fam))
  BY <1>0, <1>1, AtPlaced, OursAreHeld DEF Undisturbed
<1>3. \A r \in Put : r \in Held(g)' /\ r.value = want[g] /\ r.tuned
  BY <1>1, <1>2 DEF Held, Mine, Wanted
<1>4. Put # {}
  <2>1. CASE target.what = "edit"
    BY <2>1 DEF Stored, Put
  <2>2. CASE target.what = "editAll"
    BY <1>0, <2>2 DEF ReadyInv, Put, Replaced
  <2>3. CASE target.what \in {"set", "create"}
    BY <2>3 DEF Put
  <2> QED  BY <1>0, <2>1, <2>2, <2>3
<1>5. RecordedAs(g)'
  BY <1>3, <1>4 DEF RecordedAs
<1>6. ASSUME account.provider \in Exact, DisjointZones PROVE Alone(g)'
  <2>1. ASSUME NEW r \in Held(g)', r \notin Put PROVE FALSE
    <3>1. r \in zone \ Replaced /\ r \in Held(fam)
      BY <1>1, <2>1 DEF Held, Mine
    <3>2. CASE target.what = "edit"
      BY <1>0, <1>1, <1>6, <3>1, <3>2 DEF ReadyInv, Replaced, Held
    <3>3. CASE target.what \in {"editAll", "set"}
      BY <1>2, <1>6, <3>1, <3>3 DEF Replaced
    <3>4. CASE target.what = "create"
      BY <1>0, <1>1, <1>6, <3>1, <3>4 DEF ReadyInv
    <3> QED  BY <1>0, <3>2, <3>3, <3>4
  <2> QED  BY <1>3, <2>1 DEF Alone
<1>7. (account.provider \in Exact)' <=> account.provider \in Exact
  OBVIOUS
<1> QED  BY <1>5, <1>6, <1>7 DEF Good

\* What the client sees of a write: success only when it was done.
LEMMA WriteSeenCases ==
    ASSUME NEW p \in RecordApis, NEW reply \in Replies \ {"none"}
    PROVE  /\ WriteSeen(p, reply) \in {"ok", "fail", "throw"}
           /\ WriteSeen(p, reply) = "ok" => reply \in {"ok", "invalid"}
<1>1. reply \in {"ok", "refused", "invalid", "lost"}
  BY DEF Replies
<1>2. /\ CloudflareJson(reply) \in {"ok", "fail", "throw"} /\ (CloudflareJson(reply) = "ok" => reply = "ok")
      /\ PorkbunJson(reply) \in {"ok", "fail", "throw"} /\ (PorkbunJson(reply) = "ok" => reply = "ok")
      /\ HetznerWrite(reply) \in {"ok", "fail", "throw"} /\ (HetznerWrite(reply) = "ok" => reply = "ok")
      /\ DigitalOceanWrite(reply) \in {"ok", "fail", "throw"} /\ (DigitalOceanWrite(reply) = "ok" => reply = "ok")
      /\ PlainWrite(reply) \in {"ok", "fail", "throw"} /\ (PlainWrite(reply) = "ok" => reply \in {"ok", "invalid"})
  BY <1>1 DEF CloudflareJson, PorkbunJson, HetznerWrite, DigitalOceanWrite, PlainWrite
<1> QED  BY <1>2 DEF WriteSeen

LEMMA WriteKeeps ==
    ASSUME SyncInv, NEW done \in BOOLEAN, NEW reply \in Replies \ {"none"}, Write(done, reply)
    PROVE  CallInv'
<1> DEFINE seen == WriteSeen(account.provider, reply)
<1>0. /\ IInv /\ TypeOK /\ ShapeInv /\ StoreInv /\ MineInv /\ FetchInv /\ DoneInv
      /\ phase = "write" /\ phase \in FamPhases /\ phase \notin {"load", "idle"} /\ KeepsCall
      /\ UNCHANGED <<account, foreign, disturbed, want, at, fetched, calls, page, target>>
      /\ account.provider \in RecordApis /\ account.provider \notin QueryProviders
  BY AtPlaced DEF SyncInv, CallInv, FamPhases, Write, KeepsCall, others
<1>1. seen \in {"ok", "fail", "throw"} /\ (seen = "ok" => done)
  BY <1>0, WriteSeenCases DEF Write
<1>2. (done => Stored) /\ (~done => KeepsStore)
  BY WriteStores
<1>3. dirty' \in BOOLEAN
  BY <1>0 DEF Write, server, TypeOK
<1>4. StoreInv' /\ MineInv' /\ (zone \subseteq RecordType)' /\ serial' \in Nat /\ (mine \subseteq 0 .. serial)'
  <2>1. CASE done
    BY <1>0, <1>2, <2>1, StoredStore, StoredMine
  <2>2. CASE ~done
    BY <1>0, <1>2, <2>2, KeptStore DEF KeepsStore, TypeOK
  <2> QED  BY <2>1, <2>2
<1>5. page' \in 1 .. MaxPages /\ target'.id \in Nat /\ (at.zone \in Zones \cup {NoZone})'
      /\ (fetched \subseteq RecordType)'
  BY <1>0 DEF TypeOK
<1>6. PICK g \in Families : g = fam
  BY <1>0 DEF TypeOK
<1>7. account.provider = "bunny" /\ fam = "A" => FetchedIds' /\ Foretold("AAAA")'
  <2>1. CASE done
    BY <1>0, <1>2, <2>1, StoredOthers
  <2>2. CASE ~done
    <3>1. SUFFICES ASSUME account.provider = "bunny", fam = "A" PROVE FetchedIds' /\ Foretold("AAAA")'
      OBVIOUS
    <3>2. FetchedIds /\ Foretold("AAAA")
      BY <1>0, <3>1 DEF FetchInv, Ahead, Families
    <3> QED  BY <1>0, <1>2, <2>2, <3>2 DEF FetchedIds, Foretold, Same, KeepsStore
  <2> QED  BY <2>1, <2>2
<1>8. Undisturbed => \A f \in Families \ {g} : results[f] \in {"ok", "skipped"} => Good(f)'
  <2>1. Undisturbed => \A f \in Families : results[f] \in {"ok", "skipped"} => Good(f)
    BY <1>0 DEF DoneInv
  <2>2. CASE done
    BY <1>0, <1>2, <1>6, <2>1, <2>2, StoredOthers
  <2>3. CASE ~done
    BY <1>0, <1>2, <2>1, <2>3, KeptHost DEF KeepsStore
  <2> QED  BY <2>2, <2>3
<1>9. Undisturbed /\ seen = "ok" => Good(g)'
  BY <1>0, <1>1, <1>2, <1>6, StoredIsGood
<1>10. CASE seen = "throw"
  <2>1. Return("throw")
    BY <1>10 DEF Write
  <2>2. "throw" \in Results
    BY DEF Results
  <2> QED  BY <1>0, <1>3, <1>4, <1>5, <2>1, <2>2, ReturnKeeps
<1>11. CASE seen # "throw"
  <2>1. Finish(seen) /\ seen \in {"ok", "skipped", "fail"}
    BY <1>1, <1>11 DEF Write
  <2>2. Undisturbed /\ seen # "fail" => Good(g)'
    BY <1>1, <1>9, <1>11
  <2> HIDE DEF seen
  <2> QED  BY <1>0, <1>3, <1>4, <1>5, <1>6, <1>7, <1>8, <2>1, <2>2, FinishKeeps
<1> QED  BY <1>10, <1>11

LEMMA ZoneKeeps ==
    ASSUME SyncInv, NEW reply \in Replies, Zone(reply)
    PROVE  CallInv'
<1> DEFINE p    == account.provider
           seen == IF p \in AsksForZone THEN LookupSeen(p, reply) ELSE "ok"
           z    == ZoneOf(account)
<1>0. /\ IInv /\ TypeOK /\ ShapeInv /\ StoreInv /\ MineInv /\ DoneInv
      /\ phase = "zone" /\ account \in Accounts /\ AcceptedNow /\ p \in RecordApis /\ Asked(want) # {}
      /\ results = NoResults
      /\ UNCHANGED <<account, foreign, disturbed, want, calls, zone, serial, mine, dirty, page, target>>
  BY DEF SyncInv, CallInv, Zone, IInv, ShapeInv, FamPhases, server, others
<1>1. StoreInv' /\ MineInv'
  BY <1>0, KeptStore DEF KeepsStore
<1>2. \/ /\ Return(IF seen = "throw" THEN "throw" ELSE "fail")
         /\ UNCHANGED <<at, fetched>>
      \/ /\ z # Nowhere /\ at' = z
         /\ fetched' = IF p = "bunny" THEN zone ELSE {}
         /\ fam' = IF "A" \in Asked(want) THEN "A" ELSE "AAAA"
         /\ phase' = Start(fam')
         /\ UNCHANGED <<results, result>>
  BY DEF Zone
<1>3. CASE /\ Return(IF seen = "throw" THEN "throw" ELSE "fail")
           /\ UNCHANGED <<at, fetched>>
  <2>1. PICK r \in {"throw", "fail"} : Return(r)
    BY <1>3
  <2>2. r \in Results /\ r \notin {"ok", "skipped"} /\ phase \notin {"load", "idle"}
    BY <1>0 DEF Results
  <2>3. /\ (zone \subseteq RecordType)' /\ serial' \in Nat /\ (mine \subseteq 0 .. serial)'
        /\ dirty' \in BOOLEAN /\ page' \in 1 .. MaxPages /\ target'.id \in Nat
        /\ (at.zone \in Zones \cup {NoZone})' /\ (fetched \subseteq RecordType)'
    BY <1>0, <1>3 DEF TypeOK
  <2> QED  BY <1>0, <1>1, <2>1, <2>2, <2>3, ReturnKeeps
<1>4. CASE /\ z # Nowhere /\ at' = z
           /\ fetched' = IF p = "bunny" THEN zone ELSE {}
           /\ fam' = IF "A" \in Asked(want) THEN "A" ELSE "AAAA"
           /\ phase' = Start(fam')
           /\ UNCHANGED <<results, result>>
  <2>1. PlacedWell(account, z)
    BY <1>0, <1>4, AccountConfigured, ZonePlaced
  <2>2. fam' \in Asked(want) /\ fam' \in Families /\ (fam' = "AAAA" => "A" \notin Asked(want))
    BY <1>0, <1>4 DEF Asked, Families
  <2>3. /\ phase' \in {"pinned", "list"}
        /\ phase' = "pinned" => p = "cloudflare" /\ account.pinned # NoPin
    BY <1>4 DEF Start
  <2>4. /\ StoreInv /\ MineInv /\ zone \subseteq RecordType /\ fetched' \subseteq zone
        /\ p = "bunny" => fetched' = zone
    BY <1>0, <1>4 DEF TypeOK
  <2>5. TypeOK'
    BY <1>0, <1>4, <2>1, <2>2, <2>3, <2>4 DEF TypeOK, Phases, PlacedWell
  <2>6. ShapeInv'
    <3>1. results'[fam'] = "none" /\ results'["AAAA"] = "none" /\ result' = "none"
      BY <1>0, <1>4, <2>2 DEF NoResults, Families, ShapeInv
    <3>2. Asked(want)' = Asked(want) /\ account' = account
      BY <1>0 DEF Asked
    <3> QED  BY <1>0, <1>4, <2>2, <2>3, <3>1, <3>2 DEF ShapeInv, FamPhases
  <2>7. TargetInv' /\ ReadyInv'
    BY <2>3 DEF TargetInv, ReadyInv
  <2>8. FetchInv'
    <3>1. SUFFICES ASSUME p = "bunny" PROVE FetchInv'
      BY <1>0 DEF FetchInv
    <3>2. IsFiniteSet(zone) /\ (\A r \in zone : r.id < serial) /\ \A r, s \in zone : r.id = s.id => r = s
      BY <1>0, <3>1 DEF StoreInv, RecordApis
    <3>3. FetchedIds'
      BY <1>0, <2>4, <3>1, <3>2 DEF FetchedIds, Same
    <3>4. \A f \in Families : Foretold(f)'
      BY <1>0, <2>4, <3>1 DEF Foretold, Same
    <3> QED  BY <2>4, <3>1, <3>2, <3>3, <3>4, <1>0 DEF FetchInv
  <2>9. DoneInv'
    BY <1>0, <1>4, <2>3 DEF DoneInv, NoResults
  <2> QED  BY <1>1, <2>5, <2>6, <2>7, <2>8, <2>9 DEF CallInv
<1> QED  BY <1>2, <1>3, <1>4

LEMMA RefreshKeeps ==
    ASSUME SyncInv, NEW done \in BOOLEAN, NEW reply \in Replies \ {"none"}, Refresh(done, reply)
    PROVE  CallInv'
<1>0. /\ IInv /\ TypeOK /\ ShapeInv /\ StoreInv /\ MineInv /\ DoneInv
      /\ phase = "refresh" /\ account.provider \in RecordApis /\ account.provider \notin QueryProviders
      /\ UNCHANGED <<account, foreign, disturbed, want, at, fetched, calls, zone, serial, mine, page, target>>
      /\ \A f \in Asked(want) : results[f] \in {"ok", "skipped"}
  BY RecordNotQuery DEF SyncInv, CallInv, Refresh, ShapeInv, others
<1>1. PICK r \in {"throw", "fail", "ok"} : Return(r)
  BY DEF Refresh
<1>2. StoreInv' /\ MineInv'
  BY <1>0 DEF StoreInv, MineInv, Once, Findable
<1>3. r \in {"ok", "skipped"} /\ Undisturbed => \A f \in Carried : Good(f)'
  <2>1. \A f \in Families : Good(f)' <=> Good(f)
    BY <1>0, KeptHost
  <2> QED  BY <1>0, <2>1 DEF DoneInv, Carried, Asked
<1>4. /\ (zone \subseteq RecordType)' /\ serial' \in Nat /\ (mine \subseteq 0 .. serial)'
      /\ dirty' \in BOOLEAN /\ page' \in 1 .. MaxPages /\ target'.id \in Nat
      /\ (at.zone \in Zones \cup {NoZone})' /\ (fetched \subseteq RecordType)'
  BY <1>0 DEF TypeOK, Refresh
<1>5. r \in Results /\ phase \notin {"load", "idle"}
  BY <1>0, <1>1 DEF Results
<1> QED  BY <1>0, <1>1, <1>2, <1>3, <1>4, <1>5, ReturnKeeps

(***************************************************************************)
(* The query providers                                                     *)
(***************************************************************************)

LEMMA QueryNameIsFull ==
    ASSUME IInv, ShapeInv, phase = "query"
    PROVE  QueryName = FullName(account) /\ QueryName \in Seq(STRING)
<1>1. account \in Accounts /\ AcceptedNow /\ account.provider \in QueryProviders /\ Bindable
  BY DEF IInv, ShapeInv
<1>2. Configured(account)
  BY <1>1, AccountConfigured
<1>3. FullName(account) \in Seq(STRING)
  BY <1>2, FullNameSeq
<1>4. CASE account.provider = "namecheap"
  <2>1. ~Unbound
    BY <1>1, PlacedIsBound
  <2> QED  BY <1>1, <1>2, <1>3, <1>4, <2>1, BoundIsFullName DEF Unbound, Bindable, QueryName
<1>5. CASE account.provider # "namecheap"
  BY <1>1, <1>2, <1>3, <1>5, QueriedIsFullName DEF QueryName
<1> QED  BY <1>4, <1>5

\* A query that is carried out leaves the host, of the families it carries, with the
\* addresses wanted and no others.
LEMMA QueriedIsGood ==
    ASSUME IInv, TypeOK, ShapeInv, StoreInv, phase = "query",
           zone' = Queried(Carries(account.provider, Asked(want))), UNCHANGED <<account, want>>
    PROVE  /\ zone' \subseteq RecordType /\ IsFiniteSet(zone')
           /\ \A f \in Carried : Good(f)'
<1> DEFINE fs == Carries(account.provider, Asked(want))
           new == {AtHost(f, want[f], IF f = "A" THEN 1 ELSE 2) : f \in fs}
           old == {r \in zone : r.name # QueryName \/ r.type \notin fs}
<1>1. fs \subseteq Asked(want) /\ fs \subseteq Families /\ Carried = fs
  BY DEF Carries, Asked, Carried, ShapeInv
<1>2. zone' = old \cup new
  BY DEF Queried
<1>3. \A f \in fs : want[f] \in Values
  BY <1>1, WantAssumption DEF Asked, TypeOK, NoWant
<1>4. QueryName = FullName(account) /\ QueryName \in Seq(STRING)
  BY QueryNameIsFull
<1>5. \A f \in fs : LET r == AtHost(f, want[f], IF f = "A" THEN 1 ELSE 2)
                    IN  /\ r \in RecordType /\ r.name = QueryName /\ r.type = f
                        /\ r.value = want[f] /\ r.tuned = TRUE
  BY <1>1, <1>3, <1>4 DEF AtHost, RecordType
<1>6. IsFiniteSet(zone')
  <2>1. IsFiniteSet(old)
    BY FS_Subset DEF StoreInv
  <2>2. new \subseteq {AtHost("A", want["A"], 1)} \cup {AtHost("AAAA", want["AAAA"], 2)}
    BY <1>1 DEF Families
  <2>3. IsFiniteSet({AtHost("A", want["A"], 1)} \cup {AtHost("AAAA", want["AAAA"], 2)})
    BY FS_Singleton, FS_Union
  <2>4. IsFiniteSet(new)
    BY <2>2, <2>3, FS_Subset
  <2> HIDE DEF old, new
  <2>5. IsFiniteSet(old \cup new)
    BY <2>1, <2>4, FS_Union
  <2> QED  BY <1>2, <2>5
<1>7. zone' \subseteq RecordType
  BY <1>2, <1>5 DEF TypeOK
<1>8. ASSUME NEW f \in fs PROVE Good(f)'
  <2>1. AtHost(f, want[f], IF f = "A" THEN 1 ELSE 2) \in Held(f)'
    BY <1>2, <1>4, <1>5, <1>8 DEF Held, Mine
  <2>2. RecordedAs(f)'
    BY <1>5, <1>8, <2>1 DEF RecordedAs
  <2>3. ASSUME NEW r \in Held(f)' PROVE r.value = want[f]
    <3>1. r \in new /\ r.type = f
      BY <1>2, <1>4, <1>8, <2>3 DEF Held, Mine
    <3> QED  BY <1>5, <3>1
  <2> QED  BY <2>2, <2>3 DEF Good, Alone
<1> QED  BY <1>1, <1>6, <1>7, <1>8

LEMMA QueryKeeps ==
    ASSUME SyncInv,
           \/ \E done, http2xx \in BOOLEAN, word \in Words : Query(done, word, http2xx)
           \/ \E done \in BOOLEAN : QueryLost(done)
    PROVE  CallInv'
<1>0. /\ IInv /\ TypeOK /\ ShapeInv /\ StoreInv /\ MineInv /\ phase = "query"
      /\ account.provider \in QueryProviders /\ account.provider \notin RecordApis
      /\ UNCHANGED <<account, foreign, disturbed, want, at, page, fetched, target, calls, serial, mine, dirty>>
  BY RecordNotQuery DEF SyncInv, CallInv, Query, QueryLost, ShapeInv, others, call
<1> DEFINE wished == zone' = Queried(Carries(account.provider, Asked(want)))
<1>1. zone' = zone \/ wished
  BY DEF Query, QueryLost
<1>2. PICK r \in {"ok", "skipped", "fail", "throw"} : Return(r) /\ (r \in {"ok", "skipped"} => wished)
  <2>1. CASE \E done \in BOOLEAN : QueryLost(done)
    BY <2>1 DEF QueryLost
  <2>2. CASE \E done, http2xx \in BOOLEAN, word \in Words : Query(done, word, http2xx)
    <3>1. PICK done \in BOOLEAN, http2xx \in BOOLEAN, word \in Words : Query(done, word, http2xx)
      BY <2>2
    <3> DEFINE r == QueryAnswer(account.provider, word, http2xx)
    <3>2. /\ r \in {"ok", "skipped", "fail"}
          /\ r = "ok" => word = "good" /\ http2xx
          /\ r = "skipped" => word = "nochg"
      <4>1. /\ InterpretNicUpdateBody(word, http2xx) \in {"ok", "skipped", "fail"}
            /\ InterpretNicUpdateBody(word, http2xx) = "ok" => word = "good" /\ http2xx
            /\ InterpretNicUpdateBody(word, http2xx) = "skipped" => word = "nochg"
            /\ DuckDnsAnswer(word, http2xx) \in {"ok", "fail"}
            /\ DuckDnsAnswer(word, http2xx) = "ok" => word = "good" /\ http2xx
            /\ NamecheapAnswer(word, http2xx) \in {"ok", "fail"}
            /\ NamecheapAnswer(word, http2xx) = "ok" => word = "good" /\ http2xx
        BY DEF InterpretNicUpdateBody, DuckDnsAnswer, NamecheapAnswer
      <4> QED  BY <1>0, <4>1 DEF QueryAnswer, QueryProviders, NicProviders
    <3>3. Return(r)
      BY <3>1 DEF Query
    <3>4. r \in {"ok", "skipped"} => wished
      BY <3>1, <3>2 DEF Query
    <3> QED  BY <3>2, <3>3, <3>4
  <2> QED  BY <2>1, <2>2
<1>3. zone' \subseteq RecordType /\ IsFiniteSet(zone') /\ (wished => \A f \in Carried : Good(f)')
  BY <1>0, <1>1, QueriedIsGood DEF StoreInv, TypeOK
<1> HIDE DEF wished
<1>4. StoreInv'
  BY <1>0, <1>3 DEF StoreInv, QueryProviders, NicProviders
<1>5. MineInv'
  BY <1>0 DEF MineInv
<1>6. /\ serial' \in Nat /\ (mine \subseteq 0 .. serial)'
      /\ dirty' \in BOOLEAN /\ page' \in 1 .. MaxPages /\ target'.id \in Nat
      /\ (at.zone \in Zones \cup {NoZone})' /\ (fetched \subseteq RecordType)'
  BY <1>0 DEF TypeOK
<1>7. r \in Results /\ phase \notin {"load", "idle"}
  BY <1>0, <1>2 DEF Results
<1> QED  BY <1>0, <1>2, <1>3, <1>4, <1>5, <1>6, <1>7, ReturnKeeps

(***************************************************************************)
(* Every step                                                              *)
(***************************************************************************)

LEMMA CallKeeps ==
    ASSUME SyncInv, NEW w \in Wants, Call(w)
    PROVE  CallInv'
<1>0. /\ IInv /\ TypeOK /\ ShapeInv /\ StoreInv /\ MineInv
      /\ phase = "idle" /\ Bindable /\ account \in Accounts /\ results = NoResults
      /\ UNCHANGED <<account, foreign, zone, serial, mine, dirty>>
      /\ want' = w /\ disturbed' = FALSE /\ calls' = calls + 1 /\ calls < MaxCalls /\ calls \in 0 .. MaxCalls
  BY DEF SyncInv, CallInv, Call, IInv, ShapeInv, FamPhases, server, TypeOK
<1>1. \/ /\ \E r \in {"missing", "fail"} : Return(r)
         /\ UNCHANGED <<at, page, fetched, target>>
      \/ /\ Asked(w) # {}
         /\ \/ account.provider \in QueryProviders /\ phase' = "query"
            \/ account.provider \notin QueryProviders /\ phase' = "zone"
         /\ result' = "none" /\ results' = NoResults /\ fam' = "A"
         /\ at' = Nowhere /\ page' = 1 /\ fetched' = {} /\ target' = Skip
  BY <1>0 DEF Call
<1>2. StoreInv' /\ MineInv'
  BY <1>0, KeptStore DEF KeepsStore
<1>3. /\ phase' \in {"idle", "query", "zone"}
      /\ results' = NoResults /\ fam' = "A"
      /\ result' \in {"missing", "fail", "none"}
      /\ phase' \in {"query", "zone"} => result' = "none"
      /\ phase' = "query" => account.provider \in QueryProviders
      /\ phase' = "zone" => account.provider \in RecordApis /\ Asked(w) # {}
      /\ (at.zone \in Zones \cup {NoZone})' /\ page' \in 1 .. MaxPages
      /\ (fetched \subseteq RecordType)' /\ target'.id \in Nat
  <2>1. account.provider \in RecordApis \cup QueryProviders
    BY <1>0, AccountAssumption
  <2>2. CASE /\ \E r \in {"missing", "fail"} : Return(r)
             /\ UNCHANGED <<at, page, fetched, target>>
    BY <1>0, <2>2 DEF Return, TypeOK
  <2>3. CASE /\ Asked(w) # {}
             /\ \/ account.provider \in QueryProviders /\ phase' = "query"
                \/ account.provider \notin QueryProviders /\ phase' = "zone"
             /\ result' = "none" /\ results' = NoResults /\ fam' = "A"
             /\ at' = Nowhere /\ page' = 1 /\ fetched' = {} /\ target' = Skip
    <3>1. Nowhere.zone = NoZone /\ Skip.id = 0 /\ 1 \in 1 .. MaxPages
      BY ValueAssumption DEF Nowhere, InZone, Skip, Act
    <3> QED  BY <2>1, <2>3, <3>1
  <2> QED  BY <1>1, <2>2, <2>3
<1>4. TypeOK'
  <2>1. calls' \in 0 .. MaxCalls
    BY <1>0, CountAssumption
  <2> QED  BY <1>0, <1>3, <2>1 DEF TypeOK, Phases, Results, NoResults, Families
<1>5. ShapeInv'
  <2>1. Bindable'
    BY <1>0 DEF Bindable
  <2> QED  BY <1>0, <1>3, <2>1 DEF ShapeInv, FamPhases, Asked
<1>6. TargetInv' /\ FetchInv' /\ ReadyInv'
  BY <1>3 DEF TargetInv, FetchInv, ReadyInv
<1>7. DoneInv'
  BY <1>3 DEF DoneInv, NoResults
<1> QED  BY <1>2, <1>4, <1>5, <1>6, <1>7 DEF CallInv

\* Somebody else takes records away, or adds one under a new id.
LEMMA ForeignKeeps ==
    ASSUME SyncInv, Removes \/ Adds
    PROVE  CallInv'
<1>0. /\ IInv /\ TypeOK /\ ShapeInv /\ StoreInv /\ MineInv /\ TargetInv /\ FetchInv
      /\ serial \in Nat /\ zone \subseteq RecordType /\ mine \subseteq 0 .. serial /\ account \in Accounts /\ AcceptedNow
  BY DEF SyncInv, CallInv, TypeOK, IInv, Removes, Adds, Foreign
<1>1. /\ UNCHANGED <<account, mine, dirty, want, at, page, fetched, target, fam, phase, results, result, calls>>
      /\ disturbed' = TRUE /\ foreign' = foreign + 1 /\ phase \notin {"load", "idle"}
  BY DEF Removes, Adds, Foreign, call
<1>2. FullName(account) \in Seq(STRING)
  BY <1>0, AccountConfigured, FullNameSeq
<1>3. \/ serial' = serial /\ zone' \subseteq zone
      \/ /\ serial' = serial + 1
         /\ \E new \in RecordType :
              /\ zone' = zone \cup {new}
              /\ new.id = serial /\ new.zone \in Zones /\ new.name = FullName(account)
              /\ IsSuffix(ZoneName[new.zone], new.name)
  <2>1. CASE Removes
    BY <2>1 DEF Removes, Foreign
  <2>2. CASE Adds
    <3>1. PICK z \in Zones, f \in Families, v \in Values :
             /\ IsSuffix(ZoneName[z], FullName(account))
             /\ zone' = zone \cup {[id |-> serial, zone |-> z, name |-> FullName(account), type |-> f,
                                    value |-> v, tuned |-> TRUE]}
             /\ serial' = serial + 1
      BY <2>2 DEF Adds, Foreign
    <3> DEFINE new == [id |-> serial, zone |-> z, name |-> FullName(account), type |-> f,
                       value |-> v, tuned |-> TRUE]
    <3>2. new \in RecordType /\ new.id = serial /\ new.zone = z /\ new.name = FullName(account)
      BY <1>0, <1>2 DEF RecordType
    <3> HIDE DEF new
    <3> QED  BY <3>1, <3>2 DEF new
  <2> QED  BY <2>1, <2>2
<1>4. /\ serial' \in Nat /\ serial <= serial' /\ IsFiniteSet(zone') /\ zone' \subseteq RecordType
      /\ \A r \in zone' : r \in zone \/ (r.id = serial /\ r.zone \in Zones /\ r.name = FullName(account)
                                         /\ IsSuffix(ZoneName[r.zone], r.name) /\ serial' = serial + 1)
      /\ \A r, s \in zone' : r.id = serial /\ s.id = serial => r = s \/ r \in zone \/ s \in zone
  <2>1. CASE serial' = serial /\ zone' \subseteq zone
    BY <1>0, <2>1, FS_Subset DEF StoreInv
  <2>2. CASE serial' = serial + 1 /\ \E new \in RecordType :
               /\ zone' = zone \cup {new}
               /\ new.id = serial /\ new.zone \in Zones /\ new.name = FullName(account)
               /\ IsSuffix(ZoneName[new.zone], new.name)
    <3>1. PICK new \in RecordType :
             /\ zone' = zone \cup {new}
             /\ new.id = serial /\ new.zone \in Zones /\ new.name = FullName(account)
             /\ IsSuffix(ZoneName[new.zone], new.name)
      BY <2>2
    <3>2. IsFiniteSet(zone')
      BY <1>0, <3>1, FS_AddElement DEF StoreInv
    <3> QED  BY <1>0, <2>2, <3>1, <3>2
  <2> QED  BY <1>3, <2>1, <2>2
<1>5. mine' \subseteq 0 .. serial'
  BY <1>0, <1>1, <1>4
<1>6. TypeOK'
  BY <1>0, <1>1, <1>4, <1>5 DEF TypeOK
<1>7. ShapeInv'
  BY <1>0, <1>1 DEF ShapeInv, Asked, Bindable
<1>8. account.provider \in RecordApis => \A r \in zone : r.id \in Nat /\ r.id < serial /\ r.id # serial
  BY <1>0 DEF StoreInv, RecordType
<1>9. StoreInv'
  <2>1. ASSUME account.provider \in RecordApis, NEW r \in zone'
        PROVE  r.id < serial' /\ r.zone \in Zones /\ IsSuffix(ZoneName[r.zone], r.name)
    BY <1>0, <1>4, <1>8, <2>1 DEF StoreInv
  <2>2. ASSUME account.provider \in RecordApis, NEW r \in zone', NEW s \in zone', r.id = s.id PROVE r = s
    BY <1>0, <1>4, <1>8, <2>2 DEF StoreInv
  <2>3. ASSUME account.provider \in {"digitalocean", "contabo"}, NEW r \in zone', NEW z \in Zones
        PROVE  Ordinary(r.name, ZoneName[z])
    BY <1>0, <1>4, <2>3, OrdinaryHost DEF StoreInv
  <2> QED  BY <1>1, <1>4, <2>1, <2>2, <2>3 DEF StoreInv
<1>10. \A r \in zone' : r.id \in mine => r \in zone
  BY <1>0, <1>4 DEF MineInv
<1>11. MineInv'
  <2>1. \A i \in mine : i < serial'
    <3>1. \A i \in mine : i \in Nat /\ i < serial
      BY <1>0 DEF MineInv
    <3> QED  BY <1>0, <1>4, <3>1
  <2> QED  BY <1>0, <1>1, <1>10, <2>1 DEF MineInv, Once, Findable
<1>12. TargetInv'
  <2>1. ASSUME phase \in {"record", "write"}, target.what = "edit"
        PROVE  target.id < serial' /\ \A r \in zone' : r.id = target.id => IsOurs(r)
    <3>1. target.id \in Nat /\ target.id < serial /\ \A r \in zone : r.id = target.id => IsOurs(r)
      BY <1>0, <2>1 DEF TargetInv, TypeOK
    <3> QED  BY <1>0, <1>4, <3>1
  <2> QED  BY <1>0, <1>1, <1>10, <2>1 DEF TargetInv, IsOurs, Once, Findable
<1>13. FetchInv'
  <2>1. SUFFICES ASSUME account.provider = "bunny", phase \in {"list", "write"} PROVE FetchInv'
    BY <1>1 DEF FetchInv
  <2>2. /\ IsFiniteSet(fetched) /\ FetchedIds /\ fetched \subseteq RecordType
        /\ \A f \in Families : Ahead(f) => Foretold(f)
    BY <1>0, <2>1 DEF FetchInv, TypeOK
  <2>3. FetchedIds'
    <3>1. \A s \in fetched : s.id \in Nat /\ s.id < serial
      BY <2>2 DEF FetchedIds, RecordType
    <3>2. \A s \in fetched : s.id < serial' /\ s.id # serial
      BY <1>0, <1>4, <3>1
    <3> QED  BY <1>1, <1>4, <2>2, <3>2 DEF FetchedIds, Same
  <2>4. ASSUME NEW f \in Families, Ahead(f) PROVE Foretold(f)'
    <3>1. Foretold(f)
      BY <2>2, <2>4
    <3> QED  BY <1>1, <1>10, <3>1 DEF Foretold, Same
  <2>5. \A f \in Families : Ahead(f)' <=> Ahead(f)
    BY <1>1 DEF Ahead
  <2> QED  BY <1>1, <2>2, <2>3, <2>4, <2>5 DEF FetchInv
<1>14. DoneInv' /\ ReadyInv'
  BY <1>1 DEF DoneInv, ReadyInv, Undisturbed
<1> QED  BY <1>6, <1>7, <1>9, <1>11, <1>12, <1>13, <1>14 DEF CallInv

LEMMA LoadKeeps ==
    ASSUME SyncInv, LoadConfig
    PROVE  CallInv'
<1>0. /\ TypeOK /\ ShapeInv /\ StoreInv /\ MineInv /\ DoneInv /\ phase = "load"
      /\ result \in {"none", "rejected"}
      /\ phase' \in {"load", "idle"} /\ result' \in {"none", "rejected"}
      /\ UNCHANGED <<account, zone, serial, mine, dirty, foreign, disturbed, want, at, page, fetched, target,
                     fam, results, calls>>
  BY DEF SyncInv, CallInv, IInv, LoadConfig, server, others, call
<1>1. TypeOK' /\ ShapeInv'
  BY <1>0 DEF TypeOK, ShapeInv, FamPhases, Phases, Results
<1>2. StoreInv' /\ MineInv'
  BY <1>0, KeptStore DEF KeepsStore
<1>3. TargetInv' /\ FetchInv' /\ ReadyInv'
  BY <1>0 DEF TargetInv, FetchInv, ReadyInv
<1>4. DoneInv'
  BY <1>0 DEF DoneInv, ShapeInv, FamPhases, NoResults
<1> QED  BY <1>1, <1>2, <1>3, <1>4 DEF CallInv

LEMMA InitSync == Init => SyncInv
<1> SUFFICES ASSUME Init PROVE SyncInv
  OBVIOUS
<1>1. IInv
  BY InitIInv
<1>2. /\ account \in Accounts /\ zone \in Contents[account.contents] /\ serial = FirstSerial
      /\ phase = "load" /\ want = NoWant /\ fam = "A" /\ at = Nowhere /\ page = 1 /\ fetched = {}
      /\ target = Skip /\ results = NoResults /\ result = "none"
      /\ calls = 0 /\ foreign = 0 /\ disturbed = FALSE /\ mine = {} /\ dirty = FALSE
  BY DEF Init
<1>3. /\ FirstSerial \in Nat /\ zone \subseteq RecordType /\ IsFiniteSet(zone)
      /\ \A r \in zone : r.id < serial /\ r.zone \in Zones /\ IsSuffix(ZoneName[r.zone], r.name)
      /\ \A r, s \in zone : r.id = s.id => r = s
  BY <1>2, ContentsAssumption
<1>4. TypeOK
  <2>1. Nowhere.zone = NoZone /\ Skip.id = 0
    BY DEF Nowhere, InZone, Skip, Act
  <2>2. /\ phase \in Phases /\ want \in Wants \cup {NoWant} /\ fam \in Families
        /\ results \in [Families -> {"none", "ok", "skipped", "fail"}] /\ result \in Results
    BY <1>2 DEF Phases, Results, NoResults, Families
  <2>3. page \in 1 .. MaxPages /\ calls \in 0 .. MaxCalls /\ foreign \in Nat /\ mine \subseteq 0 .. serial
    BY <1>2, ValueAssumption, CountAssumption
  <2>4. at.zone \in Zones \cup {NoZone} /\ target.id \in Nat
    BY <1>2, <2>1
  <2>5. serial \in Nat /\ fetched \subseteq RecordType /\ disturbed \in BOOLEAN /\ dirty \in BOOLEAN
    BY <1>2, <1>3
  <2> QED  BY <1>2, <1>3, <2>2, <2>3, <2>4, <2>5 DEF TypeOK
<1>5. StoreInv
  <2>1. ASSUME account.provider \in {"digitalocean", "contabo"}, NEW r \in zone, NEW z \in Zones
        PROVE  Ordinary(r.name, ZoneName[z])
    <3>1. r.name \in {q.name : q \in UNION Contents[account.contents]}
      BY <1>2
    <3> QED  BY <1>2, <2>1, <3>1, NameAssumption DEF Ordinary
  <2> QED  BY <1>3, <2>1 DEF StoreInv
<1>6. ShapeInv /\ MineInv /\ TargetInv /\ FetchInv /\ DoneInv /\ ReadyInv
  BY <1>2 DEF ShapeInv, MineInv, TargetInv, FetchInv, DoneInv, ReadyInv, FamPhases, NoResults
<1> QED  BY <1>1, <1>4, <1>5, <1>6 DEF SyncInv, CallInv

LEMMA NextSync ==
    ASSUME SyncInv, [Next]_vars
    PROVE  SyncInv'
<1>0. IInv'
  BY NextIInv DEF SyncInv
<1>1. CASE LoadConfig
  BY <1>0, <1>1, LoadKeeps DEF SyncInv
<1>2. CASE \E w \in Wants : Call(w)
  BY <1>0, <1>2, CallKeeps DEF SyncInv
<1>3. CASE Removes \/ Adds
  BY <1>0, <1>3, ForeignKeeps DEF SyncInv
<1>4. CASE \E reply \in Replies : Zone(reply) \/ Pinned(reply)
  BY <1>0, <1>4, ZoneKeeps, PinnedKeeps DEF SyncInv
<1>5. CASE \E reply \in Replies \ {"none"} : List(reply) \/ Record(reply)
  BY <1>0, <1>5, ListKeeps, RecordKeeps DEF SyncInv
<1>6. CASE \E done \in BOOLEAN, reply \in Replies \ {"none"} : Write(done, reply) \/ Refresh(done, reply)
  BY <1>0, <1>6, WriteKeeps, RefreshKeeps DEF SyncInv
<1>7. CASE \/ \E done, http2xx \in BOOLEAN, word \in Words : Query(done, word, http2xx)
           \/ \E done \in BOOLEAN : QueryLost(done)
  BY <1>0, <1>7, QueryKeeps DEF SyncInv
<1>8. CASE UNCHANGED vars
  <2>1. /\ TypeOK /\ ShapeInv /\ StoreInv /\ MineInv /\ TargetInv /\ FetchInv /\ DoneInv /\ ReadyInv
        /\ UNCHANGED <<account, zone, serial, mine, dirty, foreign, disturbed, want, at, page, fetched, target,
                       fam, phase, results, result, calls>>
    BY <1>8 DEF SyncInv, CallInv, vars, server, others, call
  <2>2. StoreInv' /\ MineInv'
    BY <2>1, KeptStore DEF KeepsStore
  <2>3. TypeOK' /\ ShapeInv' /\ TargetInv'
    BY <2>1 DEF TypeOK, ShapeInv, TargetInv, Asked, Bindable, IsOurs, Once, Findable
  <2>4. FetchInv'
    BY <2>1 DEF FetchInv, FetchedIds, Foretold, Ahead, Same
  <2>5. /\ \A f \in Families : Good(f)' <=> Good(f)
        /\ Carried' = Carried /\ Carried \subseteq Families /\ (Undisturbed' <=> Undisturbed)
    BY <2>1, KeptHost DEF Carried, Carries, Asked, Undisturbed
  <2>6. DoneInv'
    BY <2>1, <2>5 DEF DoneInv
  <2>7. ReadyInv'
    BY <2>1, <2>5 DEF ReadyInv, Ours, Held, Mine, Within
  <2> QED  BY <1>0, <2>2, <2>3, <2>4, <2>6, <2>7 DEF SyncInv, CallInv
<1> QED  BY <1>1, <1>2, <1>3, <1>4, <1>5, <1>6, <1>7, <1>8 DEF Next, Request

LEMMA SyncInvariance == Spec => []SyncInv
BY InitSync, NextSync, PTL DEF Spec

(***************************************************************************)
(* The theorems                                                            *)
(***************************************************************************)

\* Type correctness of a call, whatever the provider answers and the zone holds.
THEOREM TypeCorrect == Spec => []TypeOK
<1>1. SyncInv => TypeOK
  BY DEF SyncInv, CallInv
<1> QED  BY <1>1, SyncInvariance, PTL

\* A call that reports success has recorded every family it carried, also where zones are
\* nested, and then perhaps beside a record of the host in another zone.
THEOREM SuccessIsWritten ==
    Spec => [](phase = "idle" /\ result \in {"ok", "skipped"} /\ Undisturbed =>
                 \A f \in Carried : RecordedAs(f))
<1>1. SyncInv => (phase = "idle" /\ result \in {"ok", "skipped"} /\ Undisturbed =>
                    \A f \in Carried : RecordedAs(f))
  BY DEF SyncInv, CallInv, DoneInv, Good
<1> QED  BY <1>1, SyncInvariance, PTL

\* A call that reports success has recorded every family it carried, at any number of
\* accounts, zones and records; where no zone is inside another, at the exact providers
\* with no other address beside it (the update and upsert functions of lib/providers).
THEOREM SuccessIsRecorded == ASSUME DisjointZones PROVE Spec => []OkMeansRecorded
<1>1. SyncInv => OkMeansRecorded
  BY DEF SyncInv, CallInv, DoneInv, Undisturbed, OkMeansRecorded, Good, RecordedAs, Alone
<1> QED  BY <1>1, SyncInvariance, PTL

\* A create whose answer was lost is found again: an account without a pinned record,
\* whose listing fits the pages, never keeps two records of its own making for one family.
THEOREM CreatesOnce == Spec => []NoDuplicate
<1>1. SyncInv => NoDuplicate
  <2>1. SUFFICES ASSUME SyncInv, Once, NEW f \in Families
                 PROVE  Cardinality({r \in zone : r.id \in mine /\ r.type = f}) <= 1
    BY DEF NoDuplicate, Once, Findable
  <2> DEFINE own == {r \in zone : r.id \in mine /\ r.type = f}
  <2>2. \A r, s \in own : r = s
    BY <2>1 DEF SyncInv, CallInv, MineInv
  <2> HIDE DEF own
  <2>3. own = {} \/ \E r : own = {r}
    BY <2>2
  <2>4. CASE own = {}
    <3>1. Cardinality(own) = 0
      BY <2>4, FS_EmptySet
    <3> QED  BY <3>1 DEF own
  <2>5. CASE \E r : own = {r}
    <3>1. Cardinality(own) = 1
      BY <2>5, FS_Singleton
    <3> QED  BY <3>1 DEF own
  <2> QED  BY <2>3, <2>4, <2>5
<1> QED  BY <1>1, SyncInvariance, PTL

\* What a step of the call itself changes in the zones: nothing, or records of the host
\* and the family in hand, or those of the host that a query names.
LEMMA ZoneChanges ==
    ASSUME SyncInv, Request \/ LoadConfig \/ (\E w \in Wants : Call(w)) \/ UNCHANGED vars
    PROVE  /\ account' = account
           /\ \/ zone' = zone
              \/ phase = "write" /\ Stored
              \/ phase = "query" /\ zone' = Queried(Carried)
<1>0. phase = "query" => Carried = Carries(account.provider, Asked(want))
  BY DEF SyncInv, CallInv, ShapeInv, Carried
<1>1. CASE \E done \in BOOLEAN, reply \in Replies \ {"none"} : Write(done, reply)
  <2>1. PICK done \in BOOLEAN, reply \in Replies \ {"none"} : Write(done, reply)
    BY <1>1
  <2>2. (done => Stored) /\ (~done => KeepsStore)
    BY <2>1, WriteStores
  <2> QED  BY <2>1, <2>2 DEF Write, KeepsStore
<1>2. CASE \E done \in BOOLEAN, reply \in Replies \ {"none"} : Refresh(done, reply)
  BY <1>2 DEF Refresh
<1>3. CASE \/ \E done, http2xx \in BOOLEAN, word \in Words : Query(done, word, http2xx)
           \/ \E done \in BOOLEAN : QueryLost(done)
  BY <1>0, <1>3 DEF Query, QueryLost
<1>4. CASE \E reply \in Replies : Zone(reply) \/ Pinned(reply)
  BY <1>4 DEF Zone, Pinned, server
<1>5. CASE \E reply \in Replies \ {"none"} : List(reply) \/ Record(reply)
  BY <1>5 DEF List, Record, server
<1>6. CASE LoadConfig \/ (\E w \in Wants : Call(w)) \/ UNCHANGED vars
  BY <1>6 DEF LoadConfig, Call, vars, server
<1> QED  BY <1>1, <1>2, <1>3, <1>4, <1>5, <1>6 DEF Request

\* A record that a write takes away or puts there is the host's, of the family in hand.
LEMMA StoredTouches ==
    ASSUME SyncInv, phase = "write", Stored
    PROVE  /\ fam \in Asked(want) /\ Asked(want) = Carried
           /\ \A r \in zone \ zone' : IsOurs(r)
           /\ \A r \in zone' \ zone : IsOurs(r)
<1>1. IInv /\ TypeOK /\ ShapeInv /\ TargetInv /\ phase \in FamPhases
  BY DEF SyncInv, CallInv, FamPhases
<1>2. account.provider \notin QueryProviders
  BY <1>1, AtPlaced
<1> QED  BY <1>1, <1>2, StoredRecords DEF ShapeInv, Carried

\* No request of a call touches a record of another name, nor one of a family the call
\* does not carry, except for a host outside its zone (OthersUntouched): neither a stale
\* record id nor a wrong zone id nor an apex alias leads to one.
THEOREM OthersStay == Spec => OthersUntouched
<1> DEFINE Other(r) == ~Mine(r) \/ r.type \notin Carried
           A == foreign' = foreign /\ ~Misplaced => {r \in zone' : Other(r)} = {r \in zone : Other(r)}
<1>1. SyncInv /\ [Next]_vars => A
  <2>1. SUFFICES ASSUME SyncInv, [Next]_vars, foreign' = foreign, ~Misplaced
                 PROVE  {r \in zone' : Other(r)} = {r \in zone : Other(r)}
    OBVIOUS
  <2>2. ~(Removes \/ Adds)
    BY <2>1 DEF Removes, Adds, Foreign, SyncInv, CallInv, TypeOK
  <2>3. \/ zone' = zone
        \/ phase = "write" /\ Stored
        \/ phase = "query" /\ zone' = Queried(Carried)
    BY <2>1, <2>2, ZoneChanges DEF Next
  <2>4. CASE phase = "write" /\ Stored
    <3>1. /\ fam \in Carried
          /\ \A r \in zone \ zone' : IsOurs(r)
          /\ \A r \in zone' \ zone : IsOurs(r)
      BY <2>1, <2>4, StoredTouches
    <3>2. at.name = FullName(account)
      BY <2>1, <2>4, AtPlaced DEF SyncInv, CallInv, FamPhases, Stored
    <3>3. \A r : IsOurs(r) => ~Other(r)
      BY <3>1, <3>2 DEF IsOurs, Mine
    <3> HIDE DEF Other
    <3> QED  BY <3>1, <3>3
  <2>5. CASE phase = "query" /\ zone' = Queried(Carried)
    <3>1. QueryName = FullName(account)
      BY <2>1, <2>5, QueryNameIsFull DEF SyncInv, CallInv
    <3>2. \A r : (r.name = QueryName /\ r.type \in Carried) <=> ~Other(r)
      BY <3>1 DEF Mine
    <3>3. \A r \in zone' : r \in zone \/ ~Other(r)
      BY <2>5, <3>2 DEF Queried, AtHost
    <3>4. \A r \in zone : r \in zone' \/ ~Other(r)
      BY <2>5, <3>2 DEF Queried
    <3> HIDE DEF Other
    <3> QED  BY <3>3, <3>4
  <2> QED  BY <2>3, <2>4, <2>5
<1> QED  BY <1>1, SyncInvariance, PTL DEF Spec, OthersUntouched

(***************************************************************************)
(* A call is what a cycle of the updater takes it for                      *)
(***************************************************************************)

HeldValues(f) == {r.value : r \in Held(f)}
Sought(f) == IF f \in Carried THEN want[f] ELSE NoValue
Busy == phase \notin {"load", "idle"}

\* The values of a family stay, or those sought join or replace them.
Moved(f) ==
    \/ HeldValues(f)' = HeldValues(f)
    \/ /\ f \in Carried /\ want[f] # NoValue
       /\ want[f] \in HeldValues(f)' /\ HeldValues(f)' \subseteq HeldValues(f) \cup {want[f]}

LEMMA SoughtTypes ==
    ASSUME TypeOK
    PROVE  /\ \A f \in Families : Sought(f) \in Values \cup {NoValue} /\ (f \in Carried => want[f] # NoValue)
           /\ \A f \in Families : HeldValues(f) \subseteq Values
           /\ Carried \subseteq Families
<1>1. want \in [Families -> Values \cup {NoValue}]
  BY WantAssumption DEF TypeOK, NoWant
<1>2. \A f \in Carried : f \in Families /\ want[f] # NoValue
  BY DEF Carried, Carries, Asked
<1>3. \A f : HeldValues(f) \subseteq Values
  BY DEF HeldValues, Held, TypeOK, RecordType
<1> QED  BY <1>1, <1>2, <1>3 DEF Sought

LEMMA StoredMoves ==
    ASSUME SyncInv, phase = "write", Stored, account' = account, NEW f \in Families
    PROVE  Moved(f)
<1>0. /\ IInv /\ TypeOK /\ ShapeInv /\ TargetInv
      /\ target.what \in {"edit", "editAll", "set", "create"}
  BY DEF SyncInv, CallInv, ShapeInv
<1>1. /\ fam \in Carried /\ want[fam] # NoValue
      /\ \A r \in zone \ zone' : IsOurs(r)
      /\ \A r \in zone' \ zone : IsOurs(r)
  BY <1>0, StoredTouches, SoughtTypes
<1>2. CASE at.name # FullName(account) \/ f # fam
  <2>1. Held(f)' = Held(f)
    BY <1>1, <1>2 DEF Held, Mine, IsOurs
  <2> QED  BY <2>1 DEF Moved, HeldValues
<1>3. CASE at.name = FullName(account) /\ f = fam
  <2>1. /\ zone' = (zone \ Replaced) \cup Put /\ (\A r \in Put : Wanted(r))
    BY <1>0, WriteReplaces DEF Stored
  <2>2. CASE Put = {}
    <3>1. Replaced = {} /\ zone' = zone
      BY <1>0, <2>1, <2>2 DEF Put
    <3> QED  BY <3>1 DEF Moved, HeldValues, Held, Mine
  <2>3. CASE Put # {}
    <3>1. PICK r \in Put : r \in zone' /\ Wanted(r)
      BY <2>1, <2>3
    <3>2. r.name = FullName(account) /\ r.type = f /\ r.value = want[f]
      BY <1>3, <3>1 DEF Wanted
    <3>3. r \in Held(f)'
      BY <3>1, <3>2 DEF Held, Mine
    <3>4. want[f] \in HeldValues(f)'
      BY <3>2, <3>3 DEF HeldValues
    <3>5. \A s \in Held(f)' : s \in Held(f) \/ s.value = want[f]
      BY <1>3, <2>1 DEF Held, Mine, Wanted
    <3>6. HeldValues(f)' \subseteq HeldValues(f) \cup {want[f]}
      BY <3>5 DEF HeldValues
    <3> QED  BY <1>1, <1>3, <3>4, <3>6 DEF Moved
  <2> QED  BY <2>2, <2>3
<1> QED  BY <1>2, <1>3

LEMMA QueriedMoves ==
    ASSUME SyncInv, phase = "query", zone' = Queried(Carried), account' = account, NEW f \in Families
    PROVE  Moved(f)
<1>1. QueryName = FullName(account) /\ (f \in Carried => want[f] # NoValue)
  BY QueryNameIsFull, SoughtTypes DEF SyncInv, CallInv
<1>2. CASE f \notin Carried
  <2>1. Held(f)' = Held(f)
    BY <1>2 DEF Held, Mine, Queried, AtHost
  <2> QED  BY <2>1 DEF Moved, HeldValues
<1>3. CASE f \in Carried
  <2> DEFINE r == AtHost(f, want[f], IF f = "A" THEN 1 ELSE 2)
  <2>1. r \in zone' /\ r.name = FullName(account) /\ r.type = f /\ r.value = want[f]
    BY <1>1, <1>3 DEF Queried, AtHost
  <2> HIDE DEF r
  <2>2. r \in Held(f)'
    BY <2>1 DEF Held, Mine
  <2>3. \A s \in Held(f)' : s.value = want[f]
    BY <1>1, <1>3 DEF Held, Mine, Queried, AtHost
  <2> QED  BY <1>1, <1>3, <2>1, <2>2, <2>3 DEF Moved, HeldValues
<1> QED  BY <1>2, <1>3

\* A request is a piece of the call's work or its end.
LEMMA RequestGoesOn ==
    ASSUME Request
    PROVE  Busy /\ UNCHANGED <<account, want, disturbed>>
BY DEF Request, Zone, Pinned, List, Record, Write, Refresh, Query, QueryLost, others, call, Busy

LEMMA RequestRefines ==
    ASSUME SyncInv, SyncInv', Request
    PROVE  CallSpec!Work \/ CallSpec!End
<1>0. /\ Busy /\ UNCHANGED <<account, want, disturbed>>
      /\ TypeOK /\ ShapeInv /\ ShapeInv' /\ DoneInv' /\ result = "none"
  BY RequestGoesOn DEF SyncInv, CallInv, ShapeInv, Busy
<1>1. \A f \in Families : Moved(f)
  <2>1. \/ zone' = zone
        \/ phase = "write" /\ Stored
        \/ phase = "query" /\ zone' = Queried(Carried)
    BY ZoneChanges
  <2>2. CASE zone' = zone
    BY <1>0, <2>2 DEF Moved, HeldValues, Held, Mine
  <2> QED  BY <1>0, <2>1, <2>2, StoredMoves, QueriedMoves
<1>2. CallSpec!Moves
  BY <1>1 DEF CallSpec!Moves, Moved, HeldValues
<1>3. Carried' = Carried /\ (Misplaced' <=> Misplaced)
  BY <1>0 DEF Carried, Misplaced, Asked
<1>4. CASE phase' \notin {"load", "idle"}
  <2>1. result' = "none"
    BY <1>0, <1>4 DEF ShapeInv
  <2> QED  BY <1>0, <1>2, <1>3, <1>4, <2>1 DEF CallSpec!Work, Busy
<1>5. CASE phase' \in {"load", "idle"}
  <2>1. phase' = "idle" /\ result' \in {"ok", "skipped", "fail", "throw"}
    <3>1. phase = "query" => account.provider \in QueryProviders
      BY <1>0 DEF ShapeInv
    <3> QED  BY <1>5, <3>1, RequestEnds DEF Ends, Answers
  <2>2. result' \in {"ok", "skipped"} /\ ~disturbed /\ ~Misplaced =>
           \A f \in Families : f \in Carried => want[f] \in HeldValues(f)'
    <3>1. SUFFICES ASSUME result' \in {"ok", "skipped"}, ~disturbed, ~Misplaced, NEW f \in Families, f \in Carried
                   PROVE  want[f] \in HeldValues(f)'
      OBVIOUS
    <3>2. Good(f)'
      BY <1>0, <1>3, <2>1, <3>1 DEF DoneInv, Undisturbed
    <3> QED  BY <1>0, <3>2 DEF Good, RecordedAs, HeldValues
  <2> QED  BY <1>0, <1>2, <1>3, <1>5, <2>1, <2>2 DEF CallSpec!End, CallSpec!Recorded, Busy, HeldValues
<1> QED  BY <1>4, <1>5

LEMMA CallRefines ==
    ASSUME SyncInv, SyncInv', NEW w \in Wants, Call(w)
    PROVE  CallSpec!Begin
<1>0. phase = "idle" /\ account' = account /\ zone' = zone
  BY DEF Call, server
<1>1. \/ phase' = "idle" /\ result' \in {"missing", "fail"}
      \/ phase' \in {"query", "zone"} /\ result' = "none"
  BY CallEnds DEF SyncInv, IInv, Call
<1>2. \A f \in Families : HeldValues(f)' = HeldValues(f)
  BY <1>0 DEF HeldValues, Held, Mine
<1>3. \A f \in Families : (IF f \in Carried THEN want[f] ELSE NoValue)' \in Values \cup {NoValue}
  <2>1. want' \in [Families -> Values \cup {NoValue}]
    BY WantAssumption DEF Call
  <2> QED  BY <2>1
<1> QED  BY <1>0, <1>1, <1>2, <1>3 DEF CallSpec!Begin, HeldValues

LEMMA ForeignRefines ==
    ASSUME SyncInv, SyncInv', Removes \/ Adds
    PROVE  CallSpec!Disturb
<1>1. UNCHANGED <<account, want, phase, result>> /\ disturbed' = TRUE
  BY DEF Removes, Adds, Foreign, call
<1>2. \A f \in Families : HeldValues(f)' \subseteq Values
  BY DEF HeldValues, Held, SyncInv, CallInv, TypeOK, RecordType
<1>3. Carried' = Carried
  BY <1>1 DEF Carried, Asked
<1> QED  BY <1>1, <1>2, <1>3 DEF CallSpec!Disturb, HeldValues

LEMMA InitCall == Init => CallSpec!Init
<1> SUFFICES ASSUME Init PROVE CallSpec!Init
  OBVIOUS
<1>1. TypeOK
  BY InitSync DEF SyncInv, CallInv
<1>2. /\ phase = "load" /\ result = "none" /\ want = NoWant /\ disturbed = FALSE
  BY DEF Init
<1>3. \A f \in Families : HeldValues(f) \subseteq Values
  BY <1>1, SoughtTypes
<1> QED  BY <1>2, <1>3 DEF CallSpec!Init, HeldValues, NoWant, Misplaced

LEMMA StepRefines ==
    ASSUME SyncInv, SyncInv', [Next]_vars
    PROVE  [CallSpec!Next]_CallSpec!vars
<1>1. CASE LoadConfig
  <2>1. /\ UNCHANGED <<account, zone, want, disturbed>> /\ phase = "load" /\ phase' \in {"load", "idle"}
        /\ result \in {"none", "rejected"} /\ result' \in {"none", "rejected"}
    BY <1>1 DEF LoadConfig, server, others, call, SyncInv, IInv
  <2>2. /\ Carried' = Carried /\ (Misplaced' <=> Misplaced)
        /\ \A f \in Families : Held(f)' = Held(f)
    BY <2>1, KeptHost DEF Carried, Asked
  <2> QED  BY <2>1, <2>2 DEF CallSpec!vars
<1>2. CASE \E w \in Wants : Call(w)
  BY <1>2, CallRefines DEF CallSpec!Next
<1>3. CASE Request
  BY <1>3, RequestRefines DEF CallSpec!Next
<1>4. CASE Removes \/ Adds
  BY <1>4, ForeignRefines DEF CallSpec!Next
<1>5. CASE UNCHANGED vars
  <2>1. UNCHANGED <<account, zone, want, disturbed, phase, result>>
    BY <1>5 DEF vars, server, others, call
  <2>2. /\ Carried' = Carried /\ (Misplaced' <=> Misplaced)
        /\ \A f \in Families : Held(f)' = Held(f)
    BY <2>1, KeptHost DEF Carried, Asked
  <2> QED  BY <2>1, <2>2 DEF CallSpec!vars
<1> QED  BY <1>1, <1>2, <1>3, <1>4, <1>5 DEF Next

\* A call implements ProviderCall, whichever the provider: until somebody else writes to
\* the zone, a reported success means that every family is recorded, and a failed call
\* leaves each family as it was or as it was asked to be.
THEOREM CallImplementsProviderCall == Spec => ImplementsProviderCall
<1>1. SyncInv /\ SyncInv' /\ [Next]_vars => [CallSpec!Next]_CallSpec!vars
  BY StepRefines
<1> QED  BY <1>1, InitCall, SyncInvariance, PTL DEF Spec, ImplementsProviderCall, CallSpec!Spec
===============================================================================
