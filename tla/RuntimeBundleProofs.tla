------------------------- MODULE RuntimeBundleProofs -------------------------
(***************************************************************************)
(* Proofs about RuntimeBundle, for every number of families, services,     *)
(* appenders, cycles and targets, every history limit and backlog limit.   *)
(***************************************************************************)
EXTENDS RuntimeBundle, SequenceTheorems, TLAPS

Events == [by : Appenders, cycle : Nat]

\* The resolvers are asked in their order, after the services.
LookupInv ==
    /\ D!TypeOK
    /\ \A f \in Families :
         /\ at[f] \in {"resolve", "request"} => tried[f] < Endpoints /\ queried[f] = {}
         /\ at[f] = "opendns" => queried[f] = {"opendns"}
         /\ at[f] = "google" => queried[f] = D!Resolvers
    /\ D!SourcesExhausted
    /\ D!NoQueryAfterDeadline

\* What the bundle and its history hold.
BundleType ==
    /\ step \in [Appenders -> E!Steps]
    /\ cycle \in [Appenders -> Nat]
    /\ loaded \in [Appenders -> Seq(Events)]
    /\ file \in Seq(Events)
    /\ appended \in Seq(Events)
    /\ raced \in BOOLEAN
    /\ pending \subseteq Nat
    /\ stage \in {"running", "stopping", "flushing", "gone"}
    /\ last \in Nat

\* From the flush on the cycles that stop() waited for are over, and what they have left
\* pending is what the flush waits for.
DrainInv ==
    /\ last <= cycle[Self]
    /\ stage \in {"flushing", "gone"} => Over(last)
    /\ stage = "flushing" => \A n \in pending : n <= last => n \in flushed
    /\ NothingPendingAtExit

\* The events of cycles whose event has been recorded, if it ever is.
Past == {e \in Events :
           /\ e.cycle <= cycle[e.by]
           /\ step[e.by] \in {"cycle", "load", "replace"} => e.cycle < cycle[e.by]}

Recorded(s) == E!InOrder(s) /\ \A i \in 1 .. Len(s) : s[i] \in Past

HistoryInv ==
    /\ Len(file) <= MaxEvents
    /\ Recorded(file)
    /\ \A a \in Appenders : Recorded(loaded[a])

\* Without a race one append at most is between its read and its replacement, and what it
\* has read is still there.
RaceInv ==
    raced \/ /\ file = E!Kept(appended)
             /\ \A a \in Appenders : step[a] = "replace" =>
                   /\ loaded[a] = file
                   /\ \A b \in Appenders \ {a} : step[b] # "replace"

-----------------------------------------------------------------------------

\* A lookup goes through all its sources, and none is asked after the deadline.
LEMMA LookupStep ==
    ASSUME LookupInv, D!Next
    PROVE  LookupInv'
<1> USE LookupAssumption
    DEF LookupInv, D!TypeOK, D!SourcesExhausted, D!NoQueryAfterDeadline, D!Waiting, D!Settled,
        D!Resolvers, D!Goto
<1>1. CASE D!Deadline
  BY <1>1 DEF D!Deadline
<1>2. ASSUME NEW f \in Families, D!TimesOut(f) PROVE LookupInv'
  BY <1>2 DEF D!TimesOut
<1>3. ASSUME NEW f \in Families, at[f] \in {"resolve", "request"}, D!NextEndpoint(f),
             aborted' = aborted
      PROVE LookupInv'
  <2>1. tried' = [tried EXCEPT ![f] = @ + 1] /\ tried[f] < Endpoints /\ tried[f] \in Nat
    BY <1>3 DEF D!NextEndpoint
  <2>2. CASE tried'[f] < Endpoints
    BY <1>3, <2>1, <2>2 DEF D!NextEndpoint
  <2>3. CASE ~(tried'[f] < Endpoints)
    <3>1. tried'[f] = Endpoints
      BY <2>1, <2>3
    <3>2. D!FallBack(f)
      BY <1>3, <2>3 DEF D!NextEndpoint
    <3>3. /\ orphaned' = orphaned
          /\ \/ /\ at' = [at EXCEPT ![f] = "failed"] /\ queried' = queried
                /\ aborted \/ ~DnsFallback
             \/ /\ at' = [at EXCEPT ![f] = "opendns"] /\ DnsFallback
                /\ queried' = [queried EXCEPT ![f] = queried[f] \cup {"opendns"}]
      BY <3>2 DEF D!FallBack, D!WithTimeout
    <3> QED  BY <1>3, <2>1, <3>1, <3>3
  <2> QED  BY <2>2, <2>3
<1>4. ASSUME NEW f \in Families, NEW b \in BOOLEAN, D!HostResolved(f, b) PROVE LookupInv'
  BY <1>3, <1>4 DEF D!HostResolved
<1>5. ASSUME NEW f \in Families, NEW b \in BOOLEAN, D!HttpsAnswers(f, b) PROVE LookupInv'
  BY <1>3, <1>5 DEF D!HttpsAnswers
<1>6. ASSUME NEW f \in Families, NEW b \in BOOLEAN, D!OpenDnsAnswers(f, b) PROVE LookupInv'
  BY <1>6 DEF D!OpenDnsAnswers, D!WithTimeout
<1>7. ASSUME NEW f \in Families, NEW b \in BOOLEAN, D!GoogleAnswers(f, b) PROVE LookupInv'
  BY <1>7 DEF D!GoogleAnswers
<1> QED  BY <1>1, <1>2, <1>4, <1>5, <1>6, <1>7 DEF D!Next, D!Step

\* The other steps of the bundle leave the lookup alone, begin it or take its result.
LEMMA LookupInvStep ==
    ASSUME LookupInv, [Next]_vars
    PROVE  LookupInv'
<1>1. ASSUME UNCHANGED lookups PROVE LookupInv'
  BY <1>1 DEF lookups, LookupInv, D!TypeOK, D!SourcesExhausted, D!NoQueryAfterDeadline
<1>2. ASSUME NEW label \in {"resolve", "idle"}, D!Restart(label) PROVE LookupInv'
  <2>1. /\ at' \in [Families -> {label}] /\ tried' \in [Families -> {0}]
        /\ queried' \in [Families -> {{}}] /\ aborted' = FALSE /\ orphaned' = {}
    BY <1>2 DEF D!Restart, LookupInv, D!NoQueryAfterDeadline
  <2>2. 0 \in 0 .. Endpoints /\ 0 < Endpoints
    BY LookupAssumption
  <2> QED
    BY <2>1, <2>2 DEF LookupInv, D!TypeOK, D!SourcesExhausted, D!NoQueryAfterDeadline, D!Waiting
<1>3. ASSUME D!Begin \/ D!End PROVE LookupInv'
  BY <1>2, <1>3 DEF D!Begin, D!End
<1>4. ASSUME NEW a \in Appenders, OtherAppender(a) PROVE LookupInv'
  BY <1>1, <1>4 DEF OtherAppender
<1>5. CASE BeginCycle
  BY <1>3, <1>5 DEF BeginCycle
<1>6. CASE Discover
  BY <1>6, LookupStep DEF Discover
<1>7. CASE EndCycle
  BY <1>3, <1>7 DEF EndCycle
<1>8. CASE OnCycleComplete \/ Deliver \/ Stop \/ BeginFlush \/ EndFlush
  BY <1>1, <1>8 DEF OnCycleComplete, Deliver, Stop, BeginFlush, EndFlush
<1>9. CASE UNCHANGED vars
  BY <1>1, <1>9 DEF vars
<1> QED  BY <1>4, <1>5, <1>6, <1>7, <1>8, <1>9 DEF Next

-----------------------------------------------------------------------------

\* What remains of a sequence is its last events.
LEMMA KeptFacts ==
    ASSUME NEW s \in Seq(Events)
    PROVE  /\ E!Kept(s) \in Seq(Events)
           /\ Len(E!Kept(s)) = IF Len(s) > MaxEvents THEN MaxEvents ELSE Len(s)
           /\ \A i \in 1 .. Len(E!Kept(s)) : E!Kept(s)[i] = s[Len(s) - Len(E!Kept(s)) + i]
<1> DEFINE m == IF Len(s) > MaxEvents THEN Len(s) - MaxEvents + 1 ELSE 1
           n == Len(s)
<1>1. n \in Nat /\ m \in Int /\ 1 <= m /\ \A i \in m .. n : s[i] \in Events
  BY ElementOfSeq, LenProperties, LimitAssumption
<1>2. E!Kept(s) = SubSeq(s, m, n)
  BY DEF E!Kept
<1> HIDE DEF m, n
<1>3. /\ SubSeq(s, m, n) \in Seq(Events)
      /\ Len(SubSeq(s, m, n)) = IF m <= n THEN n - m + 1 ELSE 0
      /\ \A i \in 1 .. n - m + 1 : SubSeq(s, m, n)[i] = s[m + i - 1]
  BY <1>1, SubSeqProperties
<1>4. n - m + 1 = (IF n > MaxEvents THEN MaxEvents ELSE n) /\ (m <= n \/ n = 0)
  BY <1>1, LimitAssumption DEF m, n
<1>5. Len(E!Kept(s)) = n - m + 1
  BY <1>1, <1>2, <1>3, <1>4, LimitAssumption
<1>6. \A i \in 1 .. Len(E!Kept(s)) : n - Len(E!Kept(s)) + i = m + i - 1
  BY <1>1, <1>5
<1>7. n = Len(s)
  BY DEF n
<1> QED  BY <1>2, <1>3, <1>4, <1>5, <1>6, <1>7

\* Keeping the last events after each append is keeping the last events of all.
LEMMA KeptAgain ==
    ASSUME NEW s \in Seq(Events), NEW e \in Events
    PROVE  E!Kept(Append(E!Kept(s), e)) = E!Kept(Append(s, e))
<1> DEFINE k == E!Kept(s)
           u == Append(k, e)
           v == Append(s, e)
           l == E!Kept(u)
           r == E!Kept(v)
<1>1. /\ k \in Seq(Events)
      /\ Len(k) = IF Len(s) > MaxEvents THEN MaxEvents ELSE Len(s)
      /\ \A i \in 1 .. Len(k) : k[i] = s[Len(s) - Len(k) + i]
  BY KeptFacts
<1> HIDE DEF k
<1>2. /\ u \in Seq(Events) /\ Len(u) = Len(k) + 1
      /\ v \in Seq(Events) /\ Len(v) = Len(s) + 1
      /\ Len(k) \in Nat /\ Len(s) \in Nat
  BY <1>1
<1> HIDE DEF u, v
<1>3. /\ l \in Seq(Events)
      /\ Len(l) = IF Len(u) > MaxEvents THEN MaxEvents ELSE Len(u)
      /\ \A i \in 1 .. Len(l) : l[i] = u[Len(u) - Len(l) + i]
  BY ONLY <1>2, KeptFacts, Zenon
<1>4. /\ r \in Seq(Events)
      /\ Len(r) = IF Len(v) > MaxEvents THEN MaxEvents ELSE Len(v)
      /\ \A i \in 1 .. Len(r) : r[i] = v[Len(v) - Len(r) + i]
  BY ONLY <1>2, KeptFacts, Zenon
<1> HIDE DEF l, r
<1>5. Len(l) = Len(r) /\ Len(r) \in Nat /\ Len(r) <= Len(s) + 1 /\ Len(r) <= Len(k) + 1
  BY <1>1, <1>2, <1>3, <1>4, LimitAssumption
<1>6. ASSUME NEW i \in 1 .. Len(l) PROVE l[i] = r[i]
  <2> DEFINE x == Len(u) - Len(l) + i
             y == Len(v) - Len(r) + i
  <2>1. l[i] = u[x] /\ r[i] = v[y]
    BY <1>3, <1>4, <1>5, <1>6
  <2>2. x \in 1 .. Len(k) + 1 /\ y \in 1 .. Len(s) + 1 /\ y = Len(s) - Len(k) + x
    BY <1>2, <1>5, <1>6
  <2> HIDE DEF x, y
  <2>3. CASE x = Len(k) + 1
    <3>1. y = Len(s) + 1
      BY <1>2, <2>2, <2>3
    <3>2. u[Len(k) + 1] = e /\ v[Len(s) + 1] = e
      BY <1>1, <1>2 DEF u, v
    <3> QED  BY <2>1, <2>3, <3>1, <3>2
  <2>4. CASE x # Len(k) + 1
    <3>1. x \in 1 .. Len(k) /\ y \in 1 .. Len(s)
      BY <1>2, <2>2, <2>4
    <3>2. u[x] = k[x] /\ v[y] = s[y]
      BY <1>1, <1>2, <3>1 DEF u, v
    <3> QED  BY <1>1, <2>1, <2>2, <3>1, <3>2
  <2> QED  BY <2>3, <2>4
<1>7. l = r
  BY <1>3, <1>4, <1>5, <1>6, SeqEqual
<1> QED  BY <1>7 DEF k, l, r, u, v

-----------------------------------------------------------------------------

\* What a step does to the events: a step of one appender, a delivery, or nothing.
LEMMA EventCases ==
    ASSUME [Next]_vars
    PROVE  \/ \E a \in Appenders :
                \/ E!BeginCycle(a) \/ E!Throw(a)
                \/ \E result \in E!Statuses, forced \in BOOLEAN : E!Emit(a, result, forced)
                \/ E!Load(a) \/ E!Replace(a) \/ E!Notify(a)
           \/ E!Deliver
           \/ UNCHANGED events
<1> USE AppenderAssumption DEF E!Handle
<1>1. CASE BeginCycle
  BY <1>1 DEF BeginCycle
<1>2. CASE EndCycle
  BY <1>2 DEF EndCycle
<1>3. CASE OnCycleComplete
  BY <1>3 DEF OnCycleComplete
<1>4. ASSUME NEW a \in Appenders, OtherAppender(a)
      PROVE  \/ E!BeginCycle(a) \/ E!Emit(a, "updated", FALSE)
             \/ E!Load(a) \/ E!Replace(a) \/ E!Notify(a)
  BY <1>4 DEF OtherAppender
<1>5. "updated" \in E!Statuses /\ FALSE \in BOOLEAN
  BY DEF E!Statuses
<1>6. CASE Deliver
  BY <1>6 DEF Deliver
<1>7. CASE Discover \/ Stop \/ BeginFlush \/ EndFlush \/ UNCHANGED vars
  BY <1>7 DEF Discover, Stop, BeginFlush, EndFlush, vars
<1> QED  BY <1>1, <1>2, <1>3, <1>4, <1>5, <1>6, <1>7 DEF Next

LEMMA EventTyped ==
    ASSUME BundleType, NEW a \in Appenders
    PROVE  E!Event(a) \in Events /\ E!Event(a).by = a /\ E!Event(a).cycle = cycle[a]
BY DEF BundleType, Events, E!Event

LEMMA BundleTypeStep ==
    ASSUME BundleType, [Next]_vars
    PROVE  BundleType'
<1> USE DEF BundleType, E!Steps, E!Goto
<1>1. stage' \in {"running", "stopping", "flushing", "gone"} /\ last' \in Nat
  BY AppenderAssumption
     DEF Next, BeginCycle, Discover, EndCycle, OnCycleComplete, OtherAppender, Deliver, Stop,
         BeginFlush, EndFlush, vars, owner
<1>2. CASE UNCHANGED events
  BY <1>1, <1>2 DEF events
<1>3. CASE E!Deliver
  BY <1>1, <1>3 DEF E!Deliver, E!SettleDelivery
<1>4. ASSUME NEW a \in Appenders, E!BeginCycle(a) \/ E!Throw(a) PROVE BundleType'
  <2>1. cycle[a] + 1 \in Nat
    OBVIOUS
  <2>2. cycle' \in [Appenders -> Nat]
    BY <1>4, <2>1 DEF E!BeginCycle, E!Throw
  <2>3. step' \in [Appenders -> E!Steps]
    BY <1>4 DEF E!BeginCycle, E!Throw
  <2> QED  BY <1>1, <1>4, <2>2, <2>3 DEF E!BeginCycle, E!Throw
<1>5. ASSUME NEW a \in Appenders, NEW result \in E!Statuses, NEW forced \in BOOLEAN,
             E!Emit(a, result, forced)
      PROVE  BundleType'
  BY <1>1, <1>5 DEF E!Emit
<1>6. ASSUME NEW a \in Appenders, E!Load(a) PROVE BundleType'
  BY <1>1, <1>6 DEF E!Load
<1>7. ASSUME NEW a \in Appenders, E!Replace(a) PROVE BundleType'
  <2>1. /\ E!Event(a) \in Events
        /\ Append(loaded[a], E!Event(a)) \in Seq(Events)
        /\ Append(appended, E!Event(a)) \in Seq(Events)
    BY EventTyped
  <2>2. E!Kept(Append(loaded[a], E!Event(a))) \in Seq(Events)
    BY <2>1, KeptFacts
  <2>3. file' \in Seq(Events) /\ appended' \in Seq(Events)
    BY <1>7, <2>1, <2>2 DEF E!Replace
  <2>4. loaded' \in [Appenders -> Seq(Events)]
    <3>1. << >> \in Seq(Events)
      BY EmptySeq
    <3> QED  BY <1>7, <3>1 DEF E!Replace
  <2> QED  BY <1>1, <1>7, <2>3, <2>4 DEF E!Replace
<1>8. ASSUME NEW a \in Appenders, E!Notify(a) PROVE BundleType'
  <2>1. pending' \subseteq pending \cup {cycle[a]} /\ cycle[a] \in Nat
    BY <1>8 DEF E!Notify
  <2>2. step' \in [Appenders -> E!Steps]
    BY <1>8 DEF E!Notify
  <2> QED  BY <1>1, <1>8, <2>1, <2>2 DEF E!Notify
<1> QED  BY EventCases, <1>2, <1>3, <1>4, <1>5, <1>6, <1>7, <1>8

\* A flush begins when the cycles that stop() waited for are over: what is added later is
\* of a later cycle.
LEMMA DrainStep ==
    ASSUME BundleType, DrainInv, [Next]_vars
    PROVE  DrainInv'
<1> USE AppenderAssumption DEF DrainInv, NothingPendingAtExit, BundleType, Over
<1>1. CASE BeginCycle
  BY <1>1 DEF BeginCycle, E!BeginCycle, E!Goto, owner
<1>2. CASE Discover
  BY <1>2 DEF Discover, events, owner
<1>3. CASE EndCycle
  BY <1>3 DEF EndCycle, InCycle, E!Throw, E!Emit, E!Goto, owner
<1>4. CASE OnCycleComplete
  <2>1. UNCHANGED <<stage, last, flushed, cycle>> /\ step[Self] # "idle"
    BY <1>4 DEF OnCycleComplete, E!Handle, E!Load, E!Replace, E!Notify, owner
  <2>2. cycle[Self] = last \/ cycle[Self] > last
    OBVIOUS
  <2>3. pending' \subseteq pending \cup {cycle[Self]}
    BY <1>4 DEF OnCycleComplete, E!Handle, E!Load, E!Replace, E!Notify
  <2>4. Over(last) => Over(last)'
    BY <2>1
  <2>5. last <= cycle[Self] /\ (stage \in {"flushing", "gone"} => Over(last))
    OBVIOUS
  <2>6. stage \in {"flushing", "gone"} => cycle[Self] > last
    BY <2>1, <2>2
  <2> QED  BY <2>1, <2>3, <2>4, <2>6
<1>5. ASSUME NEW a \in Appenders, OtherAppender(a) PROVE DrainInv'
  BY <1>5
     DEF OtherAppender, E!BeginCycle, E!Emit, E!Handle, E!Load, E!Replace, E!Notify, E!Goto, owner
<1>6. CASE Deliver
  BY <1>6 DEF Deliver, E!Deliver, E!SettleDelivery, owner
<1>7. CASE Stop \/ BeginFlush
  BY <1>7 DEF Stop, BeginFlush, Stopped, events
<1>9. CASE EndFlush
  <2>1. /\ stage = "flushing" /\ flushed \cap pending = {} /\ stage' = "gone"
        /\ UNCHANGED <<last, cycle, step, pending>>
    BY <1>9 DEF EndFlush, events
  <2>2. \A n \in pending : n > last
    BY <2>1
  <2> QED  BY <2>1, <2>2
<1>8. CASE UNCHANGED vars
  BY <1>8 DEF vars, events, owner
<1> QED  BY <1>1, <1>2, <1>3, <1>4, <1>5, <1>6, <1>7, <1>8, <1>9 DEF Next

\* What is past stays past.
LEMMA PastStep ==
    ASSUME BundleType, [Next]_vars
    PROVE  Past \subseteq Past'
<1> USE DEF BundleType, Past, Events, E!Goto, E!Steps
<1>1. CASE UNCHANGED events \/ E!Deliver
  BY <1>1 DEF events, E!Deliver, E!SettleDelivery
<1>2. ASSUME NEW a \in Appenders, E!BeginCycle(a) PROVE Past \subseteq Past'
  <2>1. step[a] = "idle" /\ step' = [step EXCEPT ![a] = "cycle"]
    BY <1>2 DEF E!BeginCycle
  <2>2. cycle' = [cycle EXCEPT ![a] = cycle[a] + 1]
    BY <1>2 DEF E!BeginCycle
  <2> SUFFICES ASSUME NEW e \in Past PROVE e \in Past'
    OBVIOUS
  <2>3. CASE e.by = a
    BY <2>1, <2>2, <2>3
  <2>4. CASE e.by # a
    BY <2>1, <2>2, <2>4
  <2> QED  BY <2>3, <2>4
<1>3. ASSUME NEW a \in Appenders,
             step[a] \in {"cycle", "load", "replace"} \/ step'[a] \notin {"cycle", "load", "replace"},
             step' = [step EXCEPT ![a] = step'[a]], cycle' = cycle
      PROVE  Past \subseteq Past'
  BY <1>3
<1>4. ASSUME NEW a \in Appenders, E!Throw(a) PROVE Past \subseteq Past'
  BY <1>3, <1>4 DEF E!Throw
<1>5. ASSUME NEW a \in Appenders, NEW result \in E!Statuses, NEW forced \in BOOLEAN,
             E!Emit(a, result, forced)
      PROVE  Past \subseteq Past'
  BY <1>3, <1>5 DEF E!Emit
<1>6. ASSUME NEW a \in Appenders, E!Load(a) \/ E!Replace(a) \/ E!Notify(a)
      PROVE Past \subseteq Past'
  BY <1>3, <1>6 DEF E!Load, E!Replace, E!Notify
<1> QED  BY EventCases, <1>1, <1>2, <1>4, <1>5, <1>6

\* What an append writes: the events it has read, the new one after them.
LEMMA ReplacementFacts ==
    ASSUME BundleType, HistoryInv, [Next]_vars, NEW a \in Appenders, E!Replace(a),
           NEW s, s = E!Kept(Append(loaded[a], E!Event(a)))
    PROVE  /\ Len(s) <= MaxEvents
           /\ E!InOrder(s)
           /\ \A i \in 1 .. Len(s) : s[i] \in Past'
<1> DEFINE l == loaded[a]
           e == E!Event(a)
           u == Append(l, e)
           d == Len(u) - Len(s)
<1>1. /\ e \in Events /\ e.by = a /\ e.cycle = cycle[a]
      /\ l \in Seq(Events) /\ E!InOrder(l) /\ \A i \in 1 .. Len(l) : l[i] \in Past
  BY EventTyped DEF BundleType, HistoryInv, Recorded
<1>2. step[a] = "replace" /\ step' = [step EXCEPT ![a] = "notify"] /\ cycle' = cycle
  BY DEF E!Replace, E!Goto
<1>3. e \in Past'
  BY <1>1, <1>2 DEF Past, BundleType, Events
<1>4. \A x \in Past : x.by = a => x.cycle < e.cycle
  BY <1>1, <1>2 DEF Past
<1> HIDE DEF l, e
<1>5. /\ u \in Seq(Events) /\ Len(u) = Len(l) + 1 /\ Len(l) \in Nat
      /\ u[Len(u)] = e
      /\ \A i \in 1 .. Len(l) : u[i] = l[i]
  BY <1>1
<1>6. s = E!Kept(u)
  BY DEF l, e
<1> HIDE DEF u
<1>7. ASSUME NEW i \in 1 .. Len(u) PROVE u[i] \in Past'
  BY <1>1, <1>3, <1>5, PastStep
<1>8. ASSUME NEW i \in 1 .. Len(u), NEW j \in 1 .. Len(u), i < j, u[i].by = u[j].by
      PROVE  u[i].cycle < u[j].cycle
  <2>1. i \in 1 .. Len(l)
    BY <1>5, <1>8
  <2>2. CASE j = Len(u)
    BY <1>1, <1>4, <1>5, <1>8, <2>1, <2>2
  <2>3. CASE j # Len(u)
    <3>1. j \in 1 .. Len(l)
      BY <1>5, <2>3
    <3> QED  BY <1>1, <1>5, <1>8, <2>1, <3>1 DEF E!InOrder
  <2> QED  BY <2>2, <2>3
<1>9. /\ E!Kept(u) \in Seq(Events)
      /\ Len(E!Kept(u)) = IF Len(u) > MaxEvents THEN MaxEvents ELSE Len(u)
      /\ \A i \in 1 .. Len(E!Kept(u)) : E!Kept(u)[i] = u[Len(u) - Len(E!Kept(u)) + i]
  BY ONLY <1>5, KeptFacts, Zenon
<1>10. /\ Len(s) \in Nat /\ Len(s) <= MaxEvents /\ d \in Nat /\ d + Len(s) = Len(u)
       /\ \A i \in 1 .. Len(s) : d + i \in 1 .. Len(u) /\ s[i] = u[d + i]
  <2>1. /\ Len(s) = IF Len(u) > MaxEvents THEN MaxEvents ELSE Len(u)
        /\ \A i \in 1 .. Len(s) : s[i] = u[d + i]
    BY <1>6, <1>9
  <2>2. Len(u) \in Nat /\ d = Len(u) - Len(s)
    BY <1>5
  <2> HIDE DEF d
  <2>3. Len(s) \in Nat /\ Len(s) <= MaxEvents /\ d \in Nat /\ d + Len(s) = Len(u)
    BY <2>1, <2>2, LimitAssumption
  <2>4. \A i \in 1 .. Len(s) : d + i \in 1 .. Len(u)
    BY <2>2, <2>3
  <2> QED  BY <2>1, <2>3, <2>4
<1> HIDE DEF d
<1>11. E!InOrder(s)
  <2> SUFFICES ASSUME NEW i \in 1 .. Len(s), NEW j \in 1 .. Len(s), i < j, s[i].by = s[j].by
               PROVE  s[i].cycle < s[j].cycle
    BY DEF E!InOrder
  <2>1. d + i < d + j
    BY <1>10
  <2> QED  BY <1>8, <1>10, <2>1
<1>12. \A i \in 1 .. Len(s) : s[i] \in Past'
  BY <1>7, <1>10
<1> QED  BY <1>10, <1>11, <1>12

LEMMA HistoryStep ==
    ASSUME BundleType, HistoryInv, [Next]_vars
    PROVE  HistoryInv'
<1>1. Past \subseteq Past'
  BY PastStep
<1>2. CASE file' = file /\ loaded' = loaded
  BY <1>1, <1>2 DEF HistoryInv, Recorded, E!InOrder
<1>3. ASSUME NEW a \in Appenders, E!Load(a) PROVE HistoryInv'
  <2>1. file' = file /\ (loaded' = loaded \/ loaded' = [loaded EXCEPT ![a] = file])
    BY <1>3 DEF E!Load
  <2> QED  BY <1>1, <2>1 DEF HistoryInv, Recorded, E!InOrder, BundleType
<1>4. ASSUME NEW a \in Appenders, E!Replace(a) PROVE HistoryInv'
  <2>1. /\ Len(file') <= MaxEvents /\ E!InOrder(file')
        /\ \A i \in 1 .. Len(file') : file'[i] \in Past'
    <3>1. CASE file' = file
      BY <1>1, <3>1 DEF HistoryInv, Recorded, E!InOrder
    <3>2. CASE file' = E!Kept(Append(loaded[a], E!Event(a)))
      BY <1>4, <3>2, ReplacementFacts
    <3> QED  BY <1>4, <3>1, <3>2 DEF E!Replace
  <2>2. loaded' = [loaded EXCEPT ![a] = << >>]
    BY <1>4 DEF E!Replace
  <2>3. E!InOrder(<< >>) /\ Len(<< >>) = 0
    BY DEF E!InOrder
  <2>4. loaded \in [Appenders -> Seq(Events)]
    BY DEF BundleType
  <2>5. Recorded(<< >>)'
    BY <2>3 DEF Recorded, E!InOrder
  <2>6. ASSUME NEW b \in Appenders PROVE Recorded(loaded[b])'
    <3>1. CASE b = a
      BY <2>2, <2>4, <2>5, <3>1 DEF Recorded, E!InOrder
    <3>2. CASE b # a
      <4>1. loaded'[b] = loaded[b]
        BY <2>2, <2>4, <3>2
      <4> QED  BY <1>1, <4>1 DEF HistoryInv, Recorded, E!InOrder
    <3> QED  BY <3>1, <3>2
  <2> QED  BY <2>1, <2>6 DEF HistoryInv, Recorded, E!InOrder
<1>5. ASSUME NEW a \in Appenders, E!BeginCycle(a) \/ E!Throw(a) \/ E!Notify(a) PROVE HistoryInv'
  BY <1>2, <1>5 DEF E!BeginCycle, E!Throw, E!Notify
<1>6. ASSUME NEW a \in Appenders, NEW result \in E!Statuses, NEW forced \in BOOLEAN,
             E!Emit(a, result, forced)
      PROVE  HistoryInv'
  BY <1>2, <1>6 DEF E!Emit
<1>7. CASE UNCHANGED events \/ E!Deliver
  BY <1>2, <1>7 DEF events, E!Deliver, E!SettleDelivery
<1> QED  BY EventCases, <1>3, <1>4, <1>5, <1>6, <1>7

\* One append at most is between its read and its replacement, or there was a race.
LEMMA RaceStep ==
    ASSUME BundleType, RaceInv, [Next]_vars
    PROVE  RaceInv'
<1> USE DEF BundleType, RaceInv, E!Goto
<1>1. CASE UNCHANGED events \/ E!Deliver
  BY <1>1 DEF events, E!Deliver, E!SettleDelivery
<1>2. ASSUME NEW a \in Appenders, step'[a] # "replace", step' = [step EXCEPT ![a] = step'[a]],
             file' = file, appended' = appended, loaded' = loaded, raced' = raced
      PROVE  RaceInv'
  BY <1>2
<1>3. ASSUME NEW a \in Appenders, E!BeginCycle(a) \/ E!Throw(a) \/ E!Notify(a) PROVE RaceInv'
  BY <1>2, <1>3 DEF E!BeginCycle, E!Throw, E!Notify
<1>4. ASSUME NEW a \in Appenders, NEW result \in E!Statuses, NEW forced \in BOOLEAN,
             E!Emit(a, result, forced)
      PROVE  RaceInv'
  BY <1>2, <1>4 DEF E!Emit
<1>5. ASSUME NEW a \in Appenders, E!Load(a) PROVE RaceInv'
  BY <1>5 DEF E!Load
<1>6. ASSUME NEW a \in Appenders, E!Replace(a) PROVE RaceInv'
  <2> SUFFICES ASSUME ~raced' PROVE RaceInv'
    OBVIOUS
  <2>1. /\ ~raced /\ step[a] = "replace" /\ loaded[a] = file /\ file = E!Kept(appended)
        /\ step' = [step EXCEPT ![a] = "notify"]
        /\ \A b \in Appenders \ {a} : step[b] # "replace"
    BY <1>6 DEF E!Replace
  <2>2. \A b \in Appenders : step'[b] # "replace"
    BY <2>1
  <2>3. file' = E!Kept(appended')
    <3>1. CASE UNCHANGED <<file, appended>>
      BY <2>1, <3>1
    <3>2. CASE /\ file' = E!Kept(Append(loaded[a], E!Event(a)))
               /\ appended' = Append(appended, E!Event(a))
      <4>1. E!Event(a) \in Events /\ appended \in Seq(Events)
        BY EventTyped
      <4>2. E!Kept(Append(E!Kept(appended), E!Event(a))) = E!Kept(Append(appended, E!Event(a)))
        BY <4>1, KeptAgain
      <4> QED  BY <2>1, <3>2, <4>2
    <3> QED  BY <1>6, <3>1, <3>2 DEF E!Replace
  <2> QED  BY <2>2, <2>3
<1> QED  BY EventCases, <1>1, <1>3, <1>4, <1>5, <1>6

-----------------------------------------------------------------------------

IInv == LookupInv /\ BundleType /\ DrainInv /\ HistoryInv /\ RaceInv

LEMMA InitIInv == Init => IInv
<1> SUFFICES ASSUME Init PROVE IInv
  OBVIOUS
<1>1. LookupInv
  <2>1. 0 \in 0 .. Endpoints /\ 0 < Endpoints
    BY LookupAssumption
  <2> QED  BY <2>1 DEF Init, D!Init, LookupInv, D!TypeOK, D!SourcesExhausted,
                       D!NoQueryAfterDeadline
<1>2. BundleType /\ DrainInv
  <2>1. /\ last = 0 /\ cycle[Self] = 0 /\ stage = "running"
        /\ step \in [Appenders -> {"idle"}] /\ cycle \in [Appenders -> {0}]
    BY AppenderAssumption DEF Init, E!Init
  <2>2. DrainInv
    BY <2>1 DEF DrainInv, NothingPendingAtExit
  <2>3. /\ file = << >> /\ appended = << >> /\ raced = FALSE /\ pending = {}
        /\ loaded = [a \in Appenders |-> << >>]
    BY DEF Init, E!Init
  <2>4. /\ file \in Seq(Events) /\ appended \in Seq(Events)
        /\ loaded \in [Appenders -> Seq(Events)]
    <3>1. << >> \in Seq(Events)
      BY EmptySeq
    <3> QED  BY <2>3, <3>1
  <2>5. BundleType
    <3>1. /\ step \in [Appenders -> E!Steps] /\ cycle \in [Appenders -> Nat]
          /\ last \in Nat /\ stage \in {"running", "stopping", "flushing", "gone"}
      BY <2>1 DEF E!Steps
    <3>2. raced \in BOOLEAN /\ pending \subseteq Nat
      BY <2>3
    <3> QED  BY <2>4, <3>1, <3>2 DEF BundleType
  <2> QED  BY <2>2, <2>5
<1>3. HistoryInv
  <2>1. /\ Len(<< >>) = 0 /\ file = << >> /\ 0 <= MaxEvents
        /\ \A a \in Appenders : loaded[a] = << >>
    BY LimitAssumption DEF Init, E!Init
  <2>2. Recorded(<< >>)
    BY <2>1 DEF Recorded, E!InOrder
  <2> QED  BY <2>1, <2>2 DEF HistoryInv
<1>4. RaceInv
  <2>1. file = << >> /\ appended = << >> /\ \A a \in Appenders : step[a] = "idle"
    BY DEF Init, E!Init
  <2>2. << >> \in Seq(Events) /\ Len(<< >>) = 0
    BY EmptySeq
  <2>3. E!Kept(<< >>) \in Seq(Events) /\ Len(E!Kept(<< >>)) = 0
    <3>1. PICK s \in Seq(Events) : s = << >>
      BY <2>2
    <3>2. /\ E!Kept(s) \in Seq(Events)
          /\ Len(E!Kept(s)) = IF Len(s) > MaxEvents THEN MaxEvents ELSE Len(s)
      BY ONLY <3>1, KeptFacts, Zenon
    <3>3. Len(s) = 0
      BY <2>2, <3>1
    <3>4. E!Kept(s) \in Seq(Events) /\ Len(E!Kept(s)) = 0
      BY ONLY <3>2, <3>3, LimitAssumption
    <3> QED  BY ONLY <3>1, <3>4, Zenon
  <2>4. E!Kept(<< >>) = << >>
    BY <2>3, EmptySeq
  <2> QED  BY <2>1, <2>4 DEF RaceInv
<1> QED  BY <1>1, <1>2, <1>3, <1>4 DEF IInv

LEMMA Invariance == Spec => []IInv
<1>1. IInv /\ [Next]_vars => IInv'
  BY LookupInvStep, BundleTypeStep, DrainStep, HistoryStep, RaceStep DEF IInv
<1> QED  BY InitIInv, <1>1, PTL DEF Spec

\* SourcesExhausted: a family is reported missing only after the deadline or when every
\* source was asked, and DNS is asked only when every HTTPS service has failed.
THEOREM NoSourceSkipped == Spec => []SourcesExhausted
<1>1. IInv => SourcesExhausted
  BY DEF IInv, LookupInv, SourcesExhausted
<1> QED  BY <1>1, Invariance, PTL

\* NoQueryAfterDeadline: no DNS query is made under an aborted signal, where nobody would
\* handle its failure.
THEOREM NoOrphanedQuery == Spec => []NoQueryAfterDeadline
<1>1. IInv => NoQueryAfterDeadline
  BY DEF IInv, LookupInv, NoQueryAfterDeadline
<1> QED  BY <1>1, Invariance, PTL

\* HistoryFaithful: the history file is bounded and in order, and, unless two appends
\* overlapped, it is the last maxEvents events that were appended.
THEOREM HistoryIsFaithful == Spec => []HistoryFaithful
<1>1. IInv => HistoryFaithful
  BY DEF IInv, HistoryInv, RaceInv, Recorded, HistoryFaithful, E!HistoryFaithful
<1> QED  BY <1>1, Invariance, PTL

\* NothingPendingAtExit: after stop() and flushNotifications() no delivery of a cycle that
\* had begun before the stop() is outstanding and none can be added, whatever cycles begin
\* later, although the flush waits for a snapshot only.
THEOREM FlushDrains == Spec => []NothingPendingAtExit
<1>1. IInv => NothingPendingAtExit
  BY DEF IInv, DrainInv
<1> QED  BY <1>1, Invariance, PTL
=============================================================================
