-------------------------- MODULE UpdateCycleProofs --------------------------
(***************************************************************************)
(* Proofs about UpdateCycle, for every set of hosts, families, addresses   *)
(* and policies, every failover chain, retry budget and number of crashes. *)
(*                                                                         *)
(* The invariants come in layers, each proved with the ones before it:     *)
(* types and the shape of a cycle, the single load, then the order of the  *)
(* addresses, the truth of the report and the state file.                  *)
(***************************************************************************)
EXTENDS UpdateCycle, TLAPS

\* A cycle in the part that calls providers and saves.
Updating == phase \in {"host", "call", "save"}

\* The request, the hosts to do and the results belong together.
ShapeInv ==
    /\ phase = "idle" => req = NoReq
    /\ phase # "idle" => req \in Requests
    /\ Updating => ~req.dryRun
    /\ todo \subseteq req.hosts
    /\ phase = "call" => host \in todo
    /\ phase \notin {"host", "call"} => todo = {}
    /\ \A h \in Hosts : results[h] # "none" => h \in req.hosts \ todo
    /\ Updating => \A h \in req.hosts : results[h] = "none" => h \in todo

TypeInv == TypeOK /\ ShapeInv

\* The part of TypeOK about the cycle, and the rest of it.
CycleTyped ==
    /\ phase \in Phases
    /\ req \in Requests \cup {NoReq}
    /\ ip \in PublicIPs
    /\ todo \subseteq Enabled
    /\ host \in Enabled \cup {NoHost}
    /\ leg \in 0..Len(Standbys)
    /\ attempt \in 1..MaxAttempts
    /\ results \in [Hosts -> Outcomes]
    /\ event \in Statuses

DataTyped ==
    /\ policy \in Policies
    /\ public \in PublicIPs
    /\ dns \in [Hosts -> PublicIPs]
    /\ currentIP \in PublicIPs
    /\ hostState \in [Hosts -> PublicIPs]
    /\ stateLoaded \in BOOLEAN
    /\ disk \in [Hosts -> PublicIPs]
    /\ writing \in [Hosts -> PublicIPs]
    /\ loading \in {"no", "reading", "read"}
    /\ readBack \in [Hosts -> PublicIPs]
    /\ crashes \in 0..MaxCrashes
    /\ behind \in BOOLEAN
    /\ delivered \in [Hosts -> PublicIPs]

\* While the state is not loaded, nothing has happened yet.
LoadInv ==
    /\ phase = "load" => loading # "no"
    /\ loading = "read" => readBack = disk
    /\ loading # "no" => stateLoaded
    /\ loading # "no" \/ ~stateLoaded =>
         /\ phase \in {"idle", "load"}
         /\ hostState = NoCheckpoints
         /\ delivered = NoCheckpoints
         /\ currentIP = NoIP

\* An address, if there is one, is not newer than another.
Upto(a, b) == \A f \in Families : a[f] # NoAddr => b[f] # NoAddr /\ a[f] <= b[f]
\* The same, where both have one.
NotAfter(a, b) == \A f \in Families : a[f] # NoAddr /\ b[f] # NoAddr => a[f] <= b[f]

\* Everything the program remembers, the network has assigned.
KnownInv ==
    /\ Upto(currentIP, public) /\ Upto(ip, public)
    /\ \A h \in Hosts :
         /\ Upto(hostState[h], public) /\ Upto(disk[h], public)
         /\ Upto(writing[h], public) /\ Upto(readBack[h], public)

\* What a host has accepted since the start, its checkpoint has or is newer.
DeliveredInv == \A h \in Hosts : Upto(delivered[h], hostState[h])

AnyAccepted == \E g \in req.hosts : results[g] \in {"ok", "skipped"}

\* No checkpoint is newer than the baseline, unless the cycle that made it so is
\* about to move the baseline to its address.
BaselineInv ==
    \A h \in Enabled, f \in Families :
        currentIP[f] # NoAddr /\ hostState[h][f] # NoAddr =>
            \/ hostState[h][f] <= currentIP[f]
            \/ Updating /\ ip[f] # NoAddr /\ AnyAccepted

\* No checkpoint is newer than the address a cycle works with.
TargetInv == Updating => \A h \in Enabled : NotAfter(hostState[h], ip)

OrderInv == KnownInv /\ DeliveredInv /\ BaselineInv /\ TargetInv

\* A host that counts as accepted has the cycle's address in its checkpoint.
AcceptedInv ==
    Updating => \A h \in req.hosts :
        results[h] \notin {"none", "failed"} => ~IpChanged(ip, hostState[h])

ReportInv == AcceptedInv /\ SuccessMeansCommitted

\* The file has the checkpoints, or the cycle is going to save them.
FileInv ==
    /\ phase = "save" => writing = hostState
    /\ stateLoaded /\ loading = "no" /\ ~behind =>
         disk = hostState \/ (Updating /\ StateChanged)

-----------------------------------------------------------------------------
(***************************************************************************)
(* The operators                                                           *)
(***************************************************************************)

LEMMA NoIPTyped == NoIP \in PublicIPs /\ NoCheckpoints \in [Hosts -> PublicIPs]
BY DEF NoIP, PublicIPs, NoCheckpoints

LEMMA MergeFacts ==
    ASSUME NEW a \in PublicIPs, NEW b \in PublicIPs
    PROVE  /\ MergePresentFamilies(a, b) \in PublicIPs
           /\ \A f \in Families :
                MergePresentFamilies(a, b)[f] = IF b[f] # NoAddr THEN b[f] ELSE a[f]
BY DEF MergePresentFamilies, PublicIPs

\* The policy takes each family from the discovery or the baseline, or drops it.
LEMMA PolicyFacts ==
    ASSUME NEW d \in PublicIPs, NEW p \in PublicIPs, NEW pol
    PROVE  /\ ApplyIpPolicy(d, p, pol) \in PublicIPs
           /\ \A f \in Families : ApplyIpPolicy(d, p, pol)[f] \in {NoAddr, d[f], p[f]}
BY DEF ApplyIpPolicy, PublicIPs

LEMMA LearnableFacts ==
    ASSUME TypeOK, NEW next \in Learnable
    PROVE  /\ next \in PublicIPs
           /\ \A f \in Families : next[f] \in {NoAddr, public[f], currentIP[f]}
<1>1. PICK found \in SUBSET Families : next = ApplyIpPolicy(Discovered(found), currentIP, policy)
  BY DEF Learnable
<1>2. /\ Discovered(found) \in PublicIPs
      /\ \A f \in Families : Discovered(found)[f] \in {public[f], NoAddr}
  BY DEF Discovered, TypeOK, PublicIPs
<1>3. currentIP \in PublicIPs
  BY DEF TypeOK
<1> QED
  BY <1>1, <1>2, <1>3, PolicyFacts

LEMMA RefreshedFacts ==
    ASSUME NEW c \in [Hosts -> PublicIPs], NEW base \in PublicIPs
    PROVE  /\ Refreshed(c, base) \in PublicIPs
           /\ Refreshed(c, base) = base \/ \A h \in Enabled : Refreshed(c, base) = c[h]
<1>1. CASE \E g \in Enabled : \A h \in Enabled : c[h] = c[g] /\ c[h] # NoIP
  <2>1. (CHOOSE h \in Enabled : TRUE) \in Enabled /\ Enabled \subseteq Hosts
    BY HostAssumption DEF Enabled
  <2> QED
    BY <1>1, <2>1 DEF Refreshed
<1>2. CASE ~ \E g \in Enabled : \A h \in Enabled : c[h] = c[g] /\ c[h] # NoIP
  BY <1>2 DEF Refreshed
<1> QED
  BY <1>1, <1>2

LEMMA BaselineFacts ==
    ASSUME TypeOK
    PROVE  CommittedBaseline \in PublicIPs
BY MergeFacts DEF CommittedBaseline, TypeOK

LEMMA RequestFacts ==
    /\ \A r \in Requests : r.hosts \subseteq Enabled /\ r.hosts # {}
    /\ NoReq \notin Requests /\ NoReq.hosts = {} /\ NoReq.dryRun = FALSE
<1>1. \A r \in Requests : r.hosts \subseteq Enabled /\ r.hosts # {}
  BY DEF Requests
<1>2. NoReq.hosts = {} /\ NoReq.dryRun = FALSE
  BY DEF NoReq
<1> QED
  BY <1>1, <1>2

LEMMA NoResultsTyped == NoResults \in [Hosts -> Outcomes] /\ \A h \in Hosts : NoResults[h] = "none"
BY DEF NoResults, Outcomes

-----------------------------------------------------------------------------
(***************************************************************************)
(* Types and the shape of a cycle                                          *)
(***************************************************************************)

LEMMA InitTypeInv == Init => TypeInv
<1> SUFFICES ASSUME Init PROVE TypeInv
  OBVIOUS
<1>1. public \in PublicIPs
  BY NumberAssumption DEF Init, PublicIPs
<1>2. NoHost \notin Hosts /\ 0 \in 0..Len(Standbys) /\ 1 \in 1..MaxAttempts /\ 0 \in 0..MaxCrashes
  BY HostAssumption, StandbyAssumption, NumberAssumption
<1>3. TypeOK
  BY <1>1, <1>2, NoIPTyped, NoResultsTyped DEF Init, TypeOK, Phases, Statuses
<1>4. ShapeInv
  BY NoResultsTyped, RequestFacts DEF Init, ShapeInv, Updating
<1> QED
  BY <1>3, <1>4 DEF TypeInv

LEMMA TypeParts == TypeOK <=> CycleTyped /\ DataTyped
BY DEF TypeOK, CycleTyped, DataTyped

\* What the ways to suspend a cycle leave behind.
LEMMA EndCycleTyped ==
    ASSUME EndCycle, event' \in Statuses
    PROVE  CycleTyped' /\ ShapeInv'
<1>1. 0 \in 0..Len(Standbys) /\ 1 \in 1..MaxAttempts
  BY StandbyAssumption, NumberAssumption
<1>2. CycleTyped'
  BY <1>1, NoIPTyped, NoResultsTyped DEF EndCycle, CycleTyped, Phases
<1>3. ShapeInv'
  BY NoResultsTyped, RequestFacts DEF EndCycle, ShapeInv, Updating
<1> QED
  BY <1>2, <1>3

LEMMA EmitTyped ==
    ASSUME TypeInv, phase # "idle", ip' \in PublicIPs, NEW status \in Statuses, Emit(status)
    PROVE  CycleTyped' /\ ShapeInv'
<1>1. 0 \in 0..Len(Standbys) /\ 1 \in 1..MaxAttempts
  BY StandbyAssumption, NumberAssumption
<1>2. req' = req /\ req \in Requests
  BY DEF Emit, TypeInv, ShapeInv
<1>3. CycleTyped'
  BY <1>1, <1>2, NoResultsTyped DEF Emit, CycleTyped, Phases
<1>4. ShapeInv'
  BY <1>2, NoResultsTyped DEF Emit, ShapeInv, Updating
<1> QED
  BY <1>3, <1>4

LEMMA HostDoneTyped ==
    ASSUME TypeInv, phase = "call", event' = event,
           NEW outcome \in Outcomes \ {"none"}, HostDone(outcome)
    PROVE  CycleTyped' /\ ShapeInv'
<1>1. 0 \in 0..Len(Standbys) /\ 1 \in 1..MaxAttempts
  BY StandbyAssumption, NumberAssumption
<1>2. results \in [Hosts -> Outcomes] /\ results' = [results EXCEPT ![host] = outcome]
  BY DEF HostDone, TypeInv, TypeOK
<1>3. CycleTyped'
  BY <1>1, <1>2 DEF HostDone, TypeInv, TypeOK, CycleTyped, Phases
<1>4. host \in req.hosts /\ req.hosts \subseteq Hosts /\ todo \subseteq req.hosts
  BY RequestFacts DEF TypeInv, TypeOK, ShapeInv, Enabled
<1>5. \A h \in Hosts : results'[h] = IF h = host THEN outcome ELSE results[h]
  BY <1>2
<1>6. ShapeInv'
  BY <1>4, <1>5 DEF HostDone, TypeInv, ShapeInv, Updating
<1> QED
  BY <1>3, <1>6

LEMMA EnterLegTyped ==
    ASSUME TypeInv, phase \in {"host", "call"}, event' = event,
           NEW h \in todo, NEW k \in 0..Len(Standbys), EnterLeg(h, k)
    PROVE  CycleTyped' /\ ShapeInv'
<1>1. CASE <<Target(k), h>> \in Unbindable
  BY <1>1, EndCycleTyped DEF EnterLeg, TypeInv, TypeOK
<1>2. CASE <<Target(k), h>> \notin Unbindable
  <2>1. 1 \in 1..MaxAttempts
    BY NumberAssumption
  <2>2. CycleTyped'
    BY <1>2, <2>1 DEF EnterLeg, TypeInv, TypeOK, CycleTyped, Phases
  <2>3. ShapeInv'
    BY <1>2 DEF EnterLeg, TypeInv, ShapeInv, Updating
  <2> QED
    BY <2>2, <2>3
<1> QED
  BY <1>1, <1>2

LEMMA SummarizeTyped ==
    ASSUME TypeInv, phase # "idle", Summarize
    PROVE  CycleTyped' /\ ShapeInv' /\ currentIP' \in PublicIPs
<1>1. CycleStatus \in Statuses
  BY DEF CycleStatus, Statuses
<1>2. ip' \in PublicIPs
  BY DEF Summarize, TypeInv, TypeOK
<1>3. CycleTyped' /\ ShapeInv'
  BY <1>1, <1>2, EmitTyped DEF Summarize
<1>4. currentIP' \in PublicIPs
  BY BaselineFacts, RefreshedFacts DEF Summarize, TypeInv, TypeOK
<1> QED
  BY <1>3, <1>4

LEMMA NextTypeInv ==
    ASSUME TypeInv, [Next]_vars
    PROVE  TypeInv'
<1> USE DEF world, records, memory, fileVars, loadVars, hostVars
<1>0. /\ CycleTyped /\ DataTyped /\ ShapeInv
      /\ req.hosts \subseteq Enabled /\ Enabled \subseteq Hosts /\ NoHost \notin Hosts
  BY TypeParts, RequestFacts, HostAssumption DEF TypeInv, TypeOK, Enabled
<1> SUFFICES DataTyped' /\ CycleTyped' /\ ShapeInv'
  BY DEF TypeInv, TypeOK, CycleTyped, DataTyped
<1>1. CASE StartLoads
  BY <1>0, <1>1 DEF StartLoads, DataTyped, CycleTyped, ShapeInv, Updating
<1>2. CASE ReadState
  BY <1>0, <1>2 DEF ReadState, DataTyped, CycleTyped, ShapeInv, Updating
<1>3. CASE ReadFails
  BY <1>0, <1>3 DEF ReadFails, AfterLoad, DataTyped, CycleTyped, ShapeInv, Updating, Phases
<1>4. CASE InstallState
  <2>1. currentIP' \in PublicIPs
    BY <1>0, <1>4, RefreshedFacts DEF InstallState, DataTyped
  <2>2. DataTyped'
    BY <1>0, <1>4, <2>1, NoIPTyped DEF InstallState, DataTyped
  <2>3. CycleTyped' /\ ShapeInv'
    BY <1>0, <1>4 DEF InstallState, AfterLoad, CycleTyped, ShapeInv, Updating, Phases
  <2> QED
    BY <2>2, <2>3
<1>5. CASE BeginCycle
  BY <1>0, <1>5, RequestFacts DEF BeginCycle, DataTyped, CycleTyped, ShapeInv, Updating, Phases
<1>6. CASE NoAddressFound
  <2>1. CycleTyped' /\ ShapeInv'
    BY <1>6, EmitTyped, NoIPTyped DEF NoAddressFound, Statuses
  <2> QED
    BY <1>0, <1>6, <2>1 DEF NoAddressFound, DataTyped
<1>7. CASE NothingPending
  <2>1. PICK next \in Learnable \ {NoIP} :
             /\ ip' = next
             /\ currentIP' = IF req.dryRun THEN currentIP ELSE MergePresentFamilies(currentIP, next)
    BY <1>7 DEF NothingPending
  <2>2. ip' \in PublicIPs /\ currentIP' \in PublicIPs
    BY <1>0, <2>1, LearnableFacts, MergeFacts, TypeParts DEF DataTyped
  <2>3. CycleTyped' /\ ShapeInv'
    BY <1>7, <2>2, EmitTyped DEF NothingPending, Statuses
  <2> QED
    BY <1>0, <1>7, <2>2, <2>3 DEF NothingPending, DataTyped
<1>8. CASE DryRun
  <2>1. ip' \in PublicIPs
    BY <1>8, LearnableFacts DEF DryRun, TypeInv
  <2>2. CycleTyped' /\ ShapeInv'
    BY <1>8, <2>1, EmitTyped DEF DryRun, Statuses
  <2> QED
    BY <1>0, <1>8, <2>2 DEF DryRun, DataTyped
<1>9. CASE BeginUpdates
  <2>1. PICK next \in Learnable \ {NoIP} :
             /\ ip' = next
             /\ todo' = Pending(next)
             /\ results' = [h \in Hosts |->
                              IF h \in req.hosts \ Pending(next) THEN "committed" ELSE "none"]
    BY <1>9 DEF BeginUpdates
  <2>2. ip' \in PublicIPs /\ todo' \subseteq req.hosts
    BY <2>1, LearnableFacts DEF TypeInv, Pending
  <2>3. CycleTyped'
    BY <1>0, <1>9, <2>1, <2>2 DEF BeginUpdates, CycleTyped, Phases, Outcomes
  <2>4. ShapeInv'
    BY <1>0, <1>9, <2>1, <2>2 DEF BeginUpdates, ShapeInv, Updating
  <2> QED
    BY <1>0, <1>9, <2>3, <2>4 DEF BeginUpdates, DataTyped
<1>10. CASE BeginHost
  <2>1. 0 \in 0..Len(Standbys)
    BY StandbyAssumption
  <2>2. CycleTyped' /\ ShapeInv'
    BY <1>10, <2>1, EnterLegTyped DEF BeginHost
  <2> QED
    BY <1>0, <1>10, <2>2 DEF BeginHost, DataTyped
<1>11. CASE ProviderAccepts
  <2>1. host \in Hosts /\ ip \in PublicIPs
    BY <1>0, <1>11 DEF ProviderAccepts, ShapeInv, CycleTyped
  <2>2. CycleTyped' /\ ShapeInv'
    BY <1>11, HostDoneTyped DEF ProviderAccepts, Outcomes
  <2>3. hostState' \in [Hosts -> PublicIPs] /\ delivered' \in [Hosts -> PublicIPs]
    BY <1>0, <1>11, <2>1, MergeFacts DEF ProviderAccepts, Checkpointed, DataTyped
  <2>4. dns' \in [Hosts -> PublicIPs]
    BY <1>0, <1>11, <2>1, MergeFacts DEF ProviderAccepts, DataTyped
  <2> QED
    BY <1>0, <1>11, <2>2, <2>3, <2>4 DEF ProviderAccepts, DataTyped
<1>12. CASE ProviderFails
  <2>1. host \in todo /\ host \in Hosts /\ ip \in PublicIPs /\ leg \in 0..Len(Standbys)
    BY <1>0, <1>12 DEF ProviderFails, ShapeInv, CycleTyped
  <2>2. dns' \in [Hosts -> PublicIPs]
    <3>1. PICK applied \in SUBSET {f \in Families : ip[f] # NoAddr} :
             dns' = [dns EXCEPT ![host] = [f \in Families |-> IF f \in applied THEN ip[f] ELSE @[f]]]
      BY <1>12 DEF ProviderFails
    <3>2. [f \in Families |-> IF f \in applied THEN ip[f] ELSE dns[host][f]] \in PublicIPs
      BY <1>0, <2>1 DEF DataTyped, PublicIPs
    <3> QED
      BY <1>0, <2>1, <3>1, <3>2 DEF DataTyped
  <2>3. phase = "call" /\ event' = event
    BY <1>12 DEF ProviderFails
  <2>4. ASSUME MayRetry, attempt' = attempt + 1, UNCHANGED <<phase, req, ip, todo, host, leg, results>>
        PROVE  CycleTyped' /\ ShapeInv'
    <3>1. attempt' \in 1..MaxAttempts
      BY <1>0, <2>4, NumberAssumption DEF MayRetry, CycleTyped
    <3> QED
      BY <1>0, <2>4, <2>3, <3>1 DEF CycleTyped, ShapeInv, Updating
  <2>5. ASSUME NEW next \in Later(host, leg), EnterLeg(host, next)
        PROVE  CycleTyped' /\ ShapeInv'
    <3>1. next \in 0..Len(Standbys)
      BY <2>1, StandbyAssumption DEF Later
    <3> QED
      BY <2>1, <2>5, <2>3, <3>1, EnterLegTyped
  <2>6. ASSUME HostDone("failed") PROVE CycleTyped' /\ ShapeInv'
    BY <2>6, <2>3, HostDoneTyped DEF Outcomes
  <2>7. CycleTyped' /\ ShapeInv'
    BY <1>12, <2>4, <2>5, <2>6 DEF ProviderFails
  <2> QED
    BY <1>0, <1>12, <2>2, <2>7 DEF ProviderFails, DataTyped
<1>13. CASE HostsDone
  <2>1. CASE StateChanged
    BY <1>0, <1>13, <2>1 DEF HostsDone, CycleTyped, DataTyped, ShapeInv, Updating, Phases
  <2>2. CASE ~StateChanged
    <3>1. CycleTyped' /\ ShapeInv' /\ currentIP' \in PublicIPs
      BY <1>13, <2>2, SummarizeTyped DEF HostsDone
    <3> QED
      BY <1>0, <1>13, <2>2, <3>1 DEF HostsDone, Summarize, DataTyped
  <2> QED
    BY <2>1, <2>2
<1>14. CASE SaveState
  <2>1. CycleTyped' /\ ShapeInv' /\ currentIP' \in PublicIPs
    BY <1>14, SummarizeTyped DEF SaveState
  <2> QED
    BY <1>0, <1>14, <2>1, NoIPTyped DEF SaveState, Summarize, DataTyped
<1>15. CASE Emitted
  <2>1. CycleTyped' /\ ShapeInv'
    BY <1>15, EndCycleTyped DEF Emitted, Statuses
  <2> QED
    BY <1>0, <1>15, <2>1 DEF Emitted, DataTyped
<1>16. CASE NetworkReassigns
  <2>1. public' \in PublicIPs
    BY <1>0, <1>16 DEF NetworkReassigns, DataTyped, PublicIPs
  <2> QED
    BY <1>0, <1>16, <2>1 DEF NetworkReassigns, DataTyped, CycleTyped, ShapeInv, Updating
<1>17. CASE Crash
  <2>1. CycleTyped' /\ ShapeInv'
    BY <1>17, EndCycleTyped DEF Crash, Statuses
  <2>2. disk' \in [Hosts -> PublicIPs]
    BY <1>0, <1>17 DEF Crash, DataTyped
  <2>3. crashes' \in 0..MaxCrashes
    BY <1>0, <1>17, NumberAssumption DEF Crash, DataTyped
  <2> QED
    BY <1>0, <1>17, <2>1, <2>2, <2>3, NoIPTyped DEF Crash, DataTyped
<1>18. CASE UNCHANGED vars
  BY <1>0, <1>18 DEF vars, DataTyped, CycleTyped, ShapeInv, Updating
<1> QED
  BY <1>1, <1>2, <1>3, <1>4, <1>5, <1>6, <1>7, <1>8, <1>9, <1>10, <1>11, <1>12, <1>13, <1>14,
     <1>15, <1>16, <1>17, <1>18 DEF Next, Load, Cycle

\* Every state of the cycle is well typed: retries and failover stay within their
\* limits, and addresses never mix with what stands for none.
THEOREM TypeCorrect == Spec => []TypeOK
<1>1. TypeInv => TypeOK
  BY DEF TypeInv
<1> QED
  BY <1>1, InitTypeInv, NextTypeInv, PTL DEF Spec

-----------------------------------------------------------------------------
(***************************************************************************)
(* The single load                                                         *)
(***************************************************************************)

LEMMA InitLoadInv == Init => LoadInv
BY DEF Init, LoadInv

LEMMA NextLoadInv ==
    ASSUME ~CallsDuringStart, LoadInv, [Next]_vars
    PROVE  LoadInv'
<1> USE DEF world, records, memory, fileVars, loadVars, LoadInv
<1>1. CASE Load
  BY <1>1 DEF Load, StartLoads, ReadState, ReadFails, InstallState, AfterLoad
<1>2. CASE BeginCycle
  BY <1>2 DEF BeginCycle
<1>3. CASE NoAddressFound \/ NothingPending \/ DryRun \/ BeginUpdates
  BY <1>3 DEF NoAddressFound, NothingPending, DryRun, BeginUpdates, Emit
<1>4. CASE BeginHost \/ ProviderAccepts \/ ProviderFails
  BY <1>4 DEF BeginHost, ProviderAccepts, ProviderFails, EnterLeg, HostDone, EndCycle
<1>5. CASE HostsDone \/ SaveState
  BY <1>5 DEF HostsDone, SaveState, Summarize, Emit
<1>6. CASE Emitted
  BY <1>6 DEF Emitted, EndCycle
<1>7. CASE NetworkReassigns
  BY <1>7 DEF NetworkReassigns
<1>8. CASE Crash
  BY <1>8 DEF Crash, EndCycle
<1>9. CASE UNCHANGED vars
  BY <1>9 DEF vars
<1> QED
  BY <1>1, <1>2, <1>3, <1>4, <1>5, <1>6, <1>7, <1>8, <1>9 DEF Next, Cycle

\* A dry run writes nothing, whatever it finds and whatever else goes on.
THEOREM DryRunWritesNothing == ASSUME ~CallsDuringStart PROVE Spec => DryRunInert
<1>1. ASSUME TypeInv, LoadInv, [Next]_vars
      PROVE  [req.dryRun /\ crashes' = crashes =>
                /\ dns' = dns
                /\ disk' = disk
                /\ phase # "load" => hostState' = hostState /\ currentIP' = currentIP]_vars
  <2> USE DEF world, records, memory, fileVars, loadVars
  <2> SUFFICES ASSUME req.dryRun, crashes' = crashes, Next
               PROVE  /\ dns' = dns
                      /\ disk' = disk
                      /\ phase # "load" => hostState' = hostState /\ currentIP' = currentIP
    BY <1>1
  <2>1. phase # "idle" /\ ~Updating
    BY <1>1, RequestFacts DEF TypeInv, ShapeInv
  <2>2. CASE Load
    BY <1>1, <2>1, <2>2 DEF Load, StartLoads, ReadState, ReadFails, InstallState, LoadInv
  <2>3. CASE BeginCycle
    BY <2>1, <2>3 DEF BeginCycle
  <2>4. CASE NoAddressFound \/ NothingPending \/ DryRun \/ BeginUpdates
    BY <2>4 DEF NoAddressFound, NothingPending, DryRun, BeginUpdates
  <2>5. CASE BeginHost \/ ProviderAccepts \/ ProviderFails \/ HostsDone \/ SaveState
    BY <2>1, <2>5 DEF Updating, BeginHost, ProviderAccepts, ProviderFails, HostsDone, SaveState
  <2>6. CASE Emitted \/ NetworkReassigns
    BY <2>6 DEF Emitted, NetworkReassigns
  <2>7. CASE Crash
    <3>1. crashes + 1 # crashes
      BY <1>1 DEF TypeInv, TypeOK
    <3> QED
      BY <2>7, <3>1 DEF Crash
  <2> QED
    BY <2>2, <2>3, <2>4, <2>5, <2>6, <2>7 DEF Next, Cycle
<1>2. TypeInv /\ LoadInv /\ [Next]_vars => TypeInv' /\ LoadInv'
  BY NextTypeInv, NextLoadInv
<1> QED
  BY <1>1, <1>2, InitTypeInv, InitLoadInv, PTL DEF Spec, DryRunInert

-----------------------------------------------------------------------------
(***************************************************************************)
(* The order of the addresses                                              *)
(***************************************************************************)

\* The network never gives an address back.
Upward == \A f \in Families, a, b \in Addresses : <<f, a, b>> \in Reassigns => a <= b

LEMMA FamilyTyped ==
    ASSUME NEW a \in PublicIPs, NEW f \in Families
    PROVE  a[f] = NoAddr \/ a[f] \in Nat
BY NumberAssumption DEF PublicIPs

LEMMA UptoFacts ==
    ASSUME NEW a \in PublicIPs
    PROVE  Upto(NoIP, a) /\ Upto(a, a)
<1>1. Upto(NoIP, a)
  BY DEF Upto, NoIP
<1>2. Upto(a, a)
  BY FamilyTyped DEF Upto
<1> QED
  BY <1>1, <1>2

LEMMA UptoTransitive ==
    ASSUME NEW a \in PublicIPs, NEW b \in PublicIPs, NEW c \in PublicIPs, Upto(a, b), Upto(b, c)
    PROVE  Upto(a, c)
<1> SUFFICES ASSUME NEW f \in Families, a[f] # NoAddr
             PROVE  c[f] # NoAddr /\ a[f] <= c[f]
  BY DEF Upto
<1>1. b[f] # NoAddr /\ a[f] <= b[f] /\ c[f] # NoAddr /\ b[f] <= c[f]
  BY DEF Upto
<1>2. a[f] \in Nat /\ b[f] \in Nat /\ c[f] \in Nat
  BY <1>1, FamilyTyped
<1> QED
  BY <1>1, <1>2

LEMMA UptoMerge ==
    ASSUME NEW a \in PublicIPs, NEW b \in PublicIPs, NEW c \in PublicIPs, Upto(a, c), Upto(b, c)
    PROVE  Upto(MergePresentFamilies(a, b), c)
BY MergeFacts DEF Upto

\* Both accept the same address: the order between them stays.
LEMMA MergeMonotone ==
    ASSUME NEW a \in PublicIPs, NEW b \in PublicIPs, NEW c \in PublicIPs, Upto(a, b)
    PROVE  Upto(MergePresentFamilies(a, c), MergePresentFamilies(b, c))
<1> SUFFICES ASSUME NEW f \in Families, MergePresentFamilies(a, c)[f] # NoAddr
             PROVE  /\ MergePresentFamilies(b, c)[f] # NoAddr
                    /\ MergePresentFamilies(a, c)[f] <= MergePresentFamilies(b, c)[f]
  BY DEF Upto
<1>1. CASE c[f] # NoAddr
  BY <1>1, MergeFacts, FamilyTyped
<1>2. CASE c[f] = NoAddr
  BY <1>2, MergeFacts DEF Upto
<1> QED
  BY <1>1, <1>2

\* An address that is not older only takes a checkpoint forward.
LEMMA MergeAdvances ==
    ASSUME NEW a \in PublicIPs, NEW b \in PublicIPs, NotAfter(a, b)
    PROVE  Upto(a, MergePresentFamilies(a, b))
<1> SUFFICES ASSUME NEW f \in Families, a[f] # NoAddr
             PROVE  /\ MergePresentFamilies(a, b)[f] # NoAddr
                    /\ a[f] <= MergePresentFamilies(a, b)[f]
  BY DEF Upto
<1>1. CASE b[f] # NoAddr
  BY <1>1, MergeFacts DEF NotAfter
<1>2. CASE b[f] = NoAddr
  BY <1>2, MergeFacts, FamilyTyped
<1> QED
  BY <1>1, <1>2

LEMMA LearnableKnown ==
    ASSUME TypeOK, Upto(currentIP, public), NEW next \in Learnable
    PROVE  Upto(next, public)
<1> SUFFICES ASSUME NEW f \in Families, next[f] # NoAddr
             PROVE  public[f] # NoAddr /\ next[f] <= public[f]
  BY DEF Upto
<1>1. public \in PublicIPs
  BY DEF TypeOK
<1>2. CASE next[f] = public[f]
  BY <1>1, <1>2, FamilyTyped
<1>3. CASE next[f] = currentIP[f]
  BY <1>3 DEF Upto
<1> QED
  BY <1>2, <1>3, LearnableFacts

\* A cycle works with a new address or with the baseline: neither is behind a
\* checkpoint when it begins.
LEMMA LearnableTarget ==
    ASSUME TypeOK, KnownInv, BaselineInv, ~Updating, NEW next \in Learnable, NEW h \in Enabled
    PROVE  NotAfter(hostState[h], next)
<1> SUFFICES ASSUME NEW f \in Families, hostState[h][f] # NoAddr, next[f] # NoAddr
             PROVE  hostState[h][f] <= next[f]
  BY DEF NotAfter
<1>1. h \in Hosts
  BY DEF Enabled
<1>2. CASE next[f] = public[f]
  BY <1>1, <1>2 DEF KnownInv, Upto
<1>3. CASE next[f] = currentIP[f]
  BY <1>3 DEF BaselineInv
<1> QED
  BY <1>2, <1>3, LearnableFacts

LEMMA RefreshedKnown ==
    ASSUME NEW c \in [Hosts -> PublicIPs], NEW base \in PublicIPs, NEW p \in PublicIPs,
           Upto(base, p), \A h \in Hosts : Upto(c[h], p)
    PROVE  Upto(Refreshed(c, base), p)
<1>1. PICK h \in Enabled : h \in Hosts
  BY HostAssumption DEF Enabled
<1> QED
  BY <1>1, RefreshedFacts

\* The baseline is at the end of a cycle at least where the checkpoints are.
LEMMA SummarizeBaseline ==
    ASSUME TypeInv, BaselineInv, TargetInv, Updating, Summarize
    PROVE  BaselineInv'
<1> SUFFICES ASSUME NEW h \in Enabled, NEW f \in Families,
                    currentIP'[f] # NoAddr, hostState[h][f] # NoAddr
             PROVE  hostState[h][f] <= currentIP'[f]
  BY DEF BaselineInv, Summarize
<1>1. h \in Hosts /\ hostState \in [Hosts -> PublicIPs] /\ currentIP \in PublicIPs /\ ip \in PublicIPs
  BY DEF Enabled, TypeInv, TypeOK
<1>2. currentIP' = Refreshed(hostState, CommittedBaseline) /\ CommittedBaseline \in PublicIPs
  BY BaselineFacts DEF Summarize, TypeInv
<1>3. CASE currentIP' = hostState[h]
  BY <1>1, <1>3, FamilyTyped
<1>4. CASE currentIP' = CommittedBaseline /\ currentIP'[f] = ip[f]
  BY <1>4 DEF TargetInv, NotAfter
<1>5. CASE currentIP' = CommittedBaseline /\ currentIP'[f] # ip[f]
  <2>1. currentIP'[f] = currentIP[f] /\ (Accepted = {} \/ ip[f] = NoAddr)
    BY <1>1, <1>5, MergeFacts DEF CommittedBaseline
  <2>2. Accepted = {} => ~AnyAccepted
    BY DEF Accepted, AnyAccepted
  <2> QED
    BY <2>1, <2>2 DEF BaselineInv
<1> QED
  BY <1>1, <1>2, <1>3, <1>4, <1>5, RefreshedFacts

LEMMA InitKnown == Init => KnownInv
<1> SUFFICES ASSUME Init PROVE KnownInv
  OBVIOUS
<1>1. public \in PublicIPs
  BY InitTypeInv DEF TypeInv, TypeOK
<1> QED
  BY <1>1, UptoFacts DEF Init, KnownInv, NoCheckpoints

LEMMA NextKnown ==
    ASSUME Upward, TypeInv, KnownInv, [Next]_vars
    PROVE  KnownInv'
<1> USE DEF world, records, memory, fileVars, loadVars, hostVars
<1>0. /\ TypeOK /\ ShapeInv
      /\ Upto(currentIP, public) /\ Upto(ip, public)
      /\ \A h \in Hosts : /\ Upto(hostState[h], public) /\ Upto(disk[h], public)
                          /\ Upto(writing[h], public) /\ Upto(readBack[h], public)
  BY DEF KnownInv, TypeInv
<1>1. /\ public \in PublicIPs /\ currentIP \in PublicIPs /\ ip \in PublicIPs
      /\ \A h \in Hosts : hostState[h] \in PublicIPs
  BY <1>0 DEF TypeOK
<1>2. Upto(NoIP, public) /\ \A h \in Hosts : NoCheckpoints[h] = NoIP
  BY <1>1, UptoFacts DEF NoCheckpoints
<1>3. \A next \in Learnable : Upto(next, public)
  BY <1>0, LearnableKnown
<1>4. CASE StartLoads \/ ReadState \/ ReadFails \/ BeginCycle
  BY <1>0, <1>4 DEF StartLoads, ReadState, ReadFails, BeginCycle, KnownInv
<1>5. CASE InstallState
  <2>1. readBack \in [Hosts -> PublicIPs]
    BY <1>0 DEF TypeOK
  <2>2. Upto(currentIP', public)
    BY <1>0, <1>1, <1>5, <2>1, RefreshedKnown DEF InstallState
  <2> QED
    BY <1>0, <1>2, <1>5, <2>2 DEF InstallState, KnownInv
<1>6. CASE NoAddressFound \/ DryRun \/ BeginUpdates
  BY <1>0, <1>2, <1>3, <1>6 DEF NoAddressFound, DryRun, BeginUpdates, KnownInv
<1>7. CASE NothingPending
  <2>1. PICK next \in Learnable :
             /\ ip' = next
             /\ currentIP' = IF req.dryRun THEN currentIP ELSE MergePresentFamilies(currentIP, next)
    BY <1>7 DEF NothingPending
  <2>2. next \in PublicIPs
    BY <1>0, LearnableFacts
  <2>3. Upto(currentIP', public)
    BY <1>0, <1>1, <1>3, <2>1, <2>2, UptoMerge
  <2> QED
    BY <1>0, <1>3, <1>7, <2>1, <2>3 DEF NothingPending, KnownInv
<1>8. CASE BeginHost \/ ProviderFails
  <2>1. ip' \in {ip, NoIP}
    BY <1>8 DEF BeginHost, ProviderFails, EnterLeg, EndCycle, HostDone
  <2> QED
    BY <1>0, <1>2, <1>8, <2>1 DEF BeginHost, ProviderFails, KnownInv
<1>9. CASE ProviderAccepts
  <2>1. ip' = ip
    BY <1>9 DEF ProviderAccepts, HostDone
  <2>2. \A h \in Hosts : hostState'[h] \in {hostState[h], MergePresentFamilies(hostState[h], ip)}
    BY <1>0, <1>9 DEF ProviderAccepts, Checkpointed, TypeOK
  <2>3. \A h \in Hosts : Upto(hostState'[h], public)
    BY <1>0, <1>1, <2>2, UptoMerge
  <2> QED
    BY <1>0, <1>9, <2>1, <2>3 DEF ProviderAccepts, KnownInv
<1>10. ASSUME Summarize PROVE Upto(currentIP', public) /\ Upto(ip', public)
  <2>1. Upto(CommittedBaseline, public)
    BY <1>0, <1>1, UptoMerge DEF CommittedBaseline
  <2>2. CommittedBaseline \in PublicIPs /\ hostState \in [Hosts -> PublicIPs]
    BY <1>0, BaselineFacts DEF TypeOK
  <2> QED
    BY <1>0, <1>1, <1>10, <2>1, <2>2, RefreshedKnown DEF Summarize
<1>11. CASE HostsDone
  BY <1>0, <1>10, <1>11 DEF HostsDone, Summarize, KnownInv
<1>12. CASE SaveState
  BY <1>0, <1>2, <1>10, <1>12 DEF SaveState, Summarize, KnownInv
<1>13. CASE Emitted
  BY <1>0, <1>2, <1>13 DEF Emitted, EndCycle, KnownInv
<1>14. CASE NetworkReassigns
  <2>1. public' \in PublicIPs
    BY <1>14, NextTypeInv DEF TypeInv, TypeOK
  <2>2. \A f \in Families : public[f] # NoAddr => public'[f] # NoAddr /\ public[f] <= public'[f]
    <3>1. PICK f \in Families, a \in Addresses :
               <<f, public[f], a>> \in Reassigns /\ public' = [public EXCEPT ![f] = a]
      BY <1>14 DEF NetworkReassigns
    <3>2. a # NoAddr /\ (public[f] # NoAddr => public[f] <= a)
      BY <1>1, <3>1, AddressAssumption DEF Upward, PublicIPs
    <3> QED
      BY <1>1, <3>1, <3>2, FamilyTyped DEF PublicIPs
  <2>3. Upto(public, public')
    BY <2>2 DEF Upto
  <2>4. \A a \in PublicIPs : Upto(a, public) => Upto(a, public')
    BY <1>1, <2>1, <2>3, UptoTransitive
  <2> QED
    BY <1>0, <1>1, <1>14, <2>4 DEF NetworkReassigns, KnownInv, TypeOK
<1>15. CASE Crash
  BY <1>0, <1>2, <1>15 DEF Crash, EndCycle, KnownInv
<1>16. CASE UNCHANGED vars
  BY <1>0, <1>16 DEF vars, KnownInv
<1> QED
  BY <1>4, <1>5, <1>6, <1>7, <1>8, <1>9, <1>11, <1>12, <1>13, <1>14, <1>15, <1>16
     DEF Next, Load, Cycle

LEMMA NextDelivered ==
    ASSUME ~CallsDuringStart, TypeInv, LoadInv, DeliveredInv, [Next]_vars
    PROVE  DeliveredInv'
<1> USE DEF world, records, memory, fileVars, loadVars
<1>1. CASE UNCHANGED <<hostState, delivered>>
  BY <1>1 DEF DeliveredInv
<1>2. CASE delivered' = NoCheckpoints
  <2>1. \A h \in Hosts : hostState'[h] \in PublicIPs
    BY NextTypeInv DEF TypeInv, TypeOK
  <2> QED
    BY <1>2, <2>1, UptoFacts DEF DeliveredInv, NoCheckpoints
<1>3. CASE ProviderAccepts
  <2>1. /\ hostState \in [Hosts -> PublicIPs] /\ delivered \in [Hosts -> PublicIPs]
        /\ ip \in PublicIPs
    BY DEF TypeInv, TypeOK
  <2>2. /\ hostState' = [hostState EXCEPT ![host] = MergePresentFamilies(@, ip)]
        /\ delivered' = [delivered EXCEPT ![host] = MergePresentFamilies(@, ip)]
    BY <1>3 DEF ProviderAccepts, Checkpointed
  <2> SUFFICES ASSUME NEW h \in Hosts PROVE Upto(delivered'[h], hostState'[h])
    BY DEF DeliveredInv
  <2>3. Upto(delivered[h], hostState[h]) /\ delivered[h] \in PublicIPs /\ hostState[h] \in PublicIPs
    BY <2>1 DEF DeliveredInv
  <2>4. CASE h = host
    BY <2>1, <2>2, <2>3, <2>4, MergeMonotone
  <2>5. CASE h # host
    BY <2>1, <2>2, <2>3, <2>5
  <2> QED
    BY <2>4, <2>5
<1>4. CASE InstallState \/ Crash
  BY <1>2, <1>4 DEF InstallState, Crash, LoadInv
<1>5. CASE StartLoads \/ ReadState \/ ReadFails \/ BeginCycle \/ NetworkReassigns
  BY <1>1, <1>5 DEF StartLoads, ReadState, ReadFails, BeginCycle, NetworkReassigns
<1>6. CASE NoAddressFound \/ NothingPending \/ DryRun \/ BeginUpdates
  BY <1>1, <1>6 DEF NoAddressFound, NothingPending, DryRun, BeginUpdates
<1>7. CASE BeginHost \/ ProviderFails \/ HostsDone \/ SaveState \/ Emitted
  BY <1>1, <1>7 DEF BeginHost, ProviderFails, HostsDone, SaveState, Summarize, Emitted
<1>8. CASE UNCHANGED vars
  BY <1>1, <1>8 DEF vars
<1> QED
  BY <1>3, <1>4, <1>5, <1>6, <1>7, <1>8 DEF Next, Load, Cycle

LEMMA NextBaseline ==
    ASSUME ~CallsDuringStart, Unbindable = {}, TypeInv, LoadInv, KnownInv, BaselineInv, TargetInv,
           [Next]_vars
    PROVE  BaselineInv' /\ TargetInv'
<1> USE DEF world, records, memory, fileVars, loadVars, hostVars
<1>0. /\ TypeOK /\ ShapeInv /\ Enabled \subseteq Hosts
      /\ currentIP \in PublicIPs /\ ip \in PublicIPs /\ hostState \in [Hosts -> PublicIPs]
  BY DEF TypeInv, TypeOK, Enabled
\* Outside the updating part, an unchanged memory is enough.
<1>1. ASSUME ~Updating, ~Updating', UNCHANGED memory
      PROVE  BaselineInv' /\ TargetInv'
  BY <1>1 DEF BaselineInv, TargetInv
\* Within it, so is not to forget who has accepted.
<1>2. ASSUME Updating, Updating', UNCHANGED memory, ip' = ip, AnyAccepted => AnyAccepted'
      PROVE  BaselineInv' /\ TargetInv'
  BY <1>2 DEF BaselineInv, TargetInv
<1>3. CASE StartLoads \/ ReadState \/ ReadFails
  <2>1. ~Updating /\ ~Updating'
    BY <1>3 DEF StartLoads, ReadState, ReadFails, AfterLoad, LoadInv, Updating
  <2> QED
    BY <1>1, <1>3, <2>1 DEF StartLoads, ReadState, ReadFails
<1>4. CASE InstallState
  <2>1. ~Updating' /\ currentIP' = Refreshed(readBack, NoIP) /\ hostState' = readBack
    BY <1>4 DEF InstallState, AfterLoad, LoadInv, Updating
  <2>2. readBack \in [Hosts -> PublicIPs] /\ NoIP \in PublicIPs
    BY <1>0, NoIPTyped DEF TypeOK
  <2>3. CASE currentIP' = NoIP
    BY <2>1, <2>3 DEF BaselineInv, TargetInv, NoIP
  <2>4. CASE \A h \in Enabled : currentIP' = readBack[h]
    <3>1. \A h \in Enabled, f \in Families : readBack[h][f] # NoAddr => readBack[h][f] <= readBack[h][f]
      BY <1>0, <2>2, FamilyTyped
    <3> QED
      BY <2>1, <2>4, <3>1 DEF BaselineInv, TargetInv
  <2> QED
    BY <2>1, <2>2, <2>3, <2>4, RefreshedFacts
<1>5. CASE BeginCycle \/ NetworkReassigns
  BY <1>1, <1>2, <1>5 DEF BeginCycle, NetworkReassigns, Updating, AnyAccepted
<1>6. CASE NoAddressFound \/ DryRun \/ Emitted
  BY <1>1, <1>6 DEF NoAddressFound, DryRun, Emitted, Emit, EndCycle, Updating
<1>7. CASE NothingPending
  <2>1. PICK next \in Learnable :
             currentIP' = IF req.dryRun THEN currentIP ELSE MergePresentFamilies(currentIP, next)
    BY <1>7 DEF NothingPending
  <2>2. ~Updating /\ ~Updating' /\ hostState' = hostState
    BY <1>7 DEF NothingPending, Emit, Updating
  <2>3. next \in PublicIPs /\ \A h \in Enabled : NotAfter(hostState[h], next)
    BY <1>0, <2>2, LearnableFacts, LearnableTarget
  <2>4. \A f \in Families : currentIP'[f] \in {currentIP[f], next[f]}
    BY <1>0, <2>1, <2>3, MergeFacts
  <2> QED
    BY <2>2, <2>3, <2>4 DEF BaselineInv, TargetInv, NotAfter
<1>8. CASE BeginUpdates
  <2>1. ~Updating /\ Updating' /\ UNCHANGED memory /\ ip' \in Learnable
    BY <1>8 DEF BeginUpdates, Updating
  <2> QED
    BY <1>0, <2>1, LearnableTarget DEF BaselineInv, TargetInv
<1>9. CASE BeginHost
  BY <1>2, <1>9 DEF BeginHost, EnterLeg, Updating, AnyAccepted
<1>10. CASE ProviderAccepts
  <2>1. /\ Updating /\ Updating' /\ ip' = ip /\ req' = req /\ currentIP' = currentIP
        /\ host \in req.hosts /\ host \in Hosts
    BY <1>0, <1>10, RequestFacts DEF ProviderAccepts, HostDone, Updating, ShapeInv, TypeOK
  <2>2. results'[host] \in {"ok", "skipped"}
    BY <1>0, <1>10, <2>1 DEF ProviderAccepts, HostDone, TypeOK
  <2>3. AnyAccepted'
    BY <2>1, <2>2 DEF AnyAccepted
  <2>4. \A h \in Enabled, f \in Families : hostState'[h][f] \in {hostState[h][f], ip[f]}
    <3>1. \A h \in Enabled : hostState'[h] \in {hostState[h], MergePresentFamilies(hostState[h], ip)}
      BY <1>0, <1>10 DEF ProviderAccepts, Checkpointed
    <3> QED
      BY <1>0, <3>1, MergeFacts
  <2>5. TargetInv'
    BY <1>0, <2>1, <2>4, FamilyTyped DEF TargetInv, NotAfter
  <2>6. BaselineInv'
    BY <2>1, <2>3, <2>4 DEF BaselineInv
  <2> QED
    BY <2>5, <2>6
<1>11. CASE ProviderFails
  <2>1. /\ Updating /\ ip' = ip /\ req' = req /\ UNCHANGED memory /\ Updating'
        /\ results' = results \/ results' = [results EXCEPT ![host] = "failed"]
    BY <1>11 DEF ProviderFails, HostDone, EnterLeg, Updating
  <2>2. AnyAccepted => AnyAccepted'
    <3>1. host \in Hosts => results[host] = "none"
      BY <1>0, <1>11 DEF ProviderFails, ShapeInv
    <3>2. \A h \in Hosts : results[h] \in {"ok", "skipped"} => results'[h] = results[h]
      BY <1>0, <2>1, <3>1 DEF TypeOK
    <3>3. req.hosts \subseteq Hosts
      BY <1>0, RequestFacts DEF TypeOK
    <3> QED
      BY <2>1, <3>2, <3>3 DEF AnyAccepted
  <2> QED
    BY <1>2, <2>1, <2>2
<1>12. CASE HostsDone
  <2>1. CASE StateChanged
    BY <1>2, <1>12, <2>1 DEF HostsDone, Updating, AnyAccepted
  <2>2. CASE ~StateChanged
    BY <1>12, <2>2, SummarizeBaseline DEF HostsDone, Summarize, Emit, Updating, TargetInv
  <2> QED
    BY <2>1, <2>2
<1>13. CASE SaveState
  BY <1>13, SummarizeBaseline DEF SaveState, Summarize, Emit, Updating, TargetInv
<1>14. CASE Crash
  BY <1>14 DEF Crash, EndCycle, BaselineInv, TargetInv, NoIP, Updating
<1>15. CASE UNCHANGED vars
  BY <1>1, <1>2, <1>15 DEF vars, Updating, AnyAccepted
<1> QED
  BY <1>3, <1>4, <1>5, <1>6, <1>7, <1>8, <1>9, <1>10, <1>11, <1>12, <1>13, <1>14, <1>15
     DEF Next, Load, Cycle

LEMMA InitOrder == Init => OrderInv
<1> SUFFICES ASSUME Init PROVE OrderInv
  OBVIOUS
<1>1. DeliveredInv
  BY NoIPTyped, UptoFacts DEF Init, DeliveredInv, NoCheckpoints
<1>2. BaselineInv /\ TargetInv
  BY DEF Init, BaselineInv, TargetInv, Updating, NoIP
<1> QED
  BY <1>1, <1>2, InitKnown DEF OrderInv

\* The invariant of the order, where the network gives no address back, no call
\* comes in during start()'s load and every host can be bound.
LEMMA OrderInvariant ==
    ASSUME Upward, ~CallsDuringStart, Unbindable = {}
    PROVE  Spec => [](TypeInv /\ LoadInv /\ OrderInv)
<1>1. Init => TypeInv /\ LoadInv /\ OrderInv
  BY InitTypeInv, InitLoadInv, InitOrder
<1>2. TypeInv /\ LoadInv /\ OrderInv /\ [Next]_vars => (TypeInv /\ LoadInv /\ OrderInv)'
  BY NextTypeInv, NextLoadInv, NextKnown, NextDelivered, NextBaseline DEF OrderInv
<1> QED
  BY <1>1, <1>2, PTL DEF Spec

\* No provider is told an address older than one that the host is known to have
\* accepted, whatever the failures, host subsets, policies, crashes and failed saves.
THEOREM HostsNeverRegress ==
    ASSUME Upward, ~CallsDuringStart, Unbindable = {}
    PROVE  Spec => []NoRegress
<1>1. ASSUME TypeInv, OrderInv PROVE NoRegress
  <2> SUFFICES ASSUME phase = "call", NEW f \in Families, ip[f] # NoAddr
               PROVE  /\ hostState[host][f] # NoAddr => ip[f] >= hostState[host][f]
                      /\ delivered[host][f] # NoAddr => ip[f] >= delivered[host][f]
    BY DEF NoRegress
  <2>1. /\ host \in Enabled /\ host \in Hosts
        /\ ip \in PublicIPs /\ hostState[host] \in PublicIPs /\ delivered[host] \in PublicIPs
    BY <1>1 DEF TypeInv, TypeOK, ShapeInv, Enabled
  <2>2. hostState[host][f] # NoAddr => hostState[host][f] <= ip[f]
    BY <1>1, <2>1 DEF OrderInv, TargetInv, NotAfter, Updating
  <2>3. delivered[host][f] # NoAddr => hostState[host][f] # NoAddr /\ delivered[host][f] <= hostState[host][f]
    BY <1>1, <2>1 DEF OrderInv, DeliveredInv, Upto
  <2>4. /\ ip[f] \in Nat
        /\ hostState[host][f] = NoAddr \/ hostState[host][f] \in Nat
        /\ delivered[host][f] = NoAddr \/ delivered[host][f] \in Nat
    BY <2>1, FamilyTyped
  <2> QED
    BY <2>2, <2>3, <2>4
<1> QED
  BY <1>1, OrderInvariant, PTL

\* No checkpoint is lost or moved back while the process lives.
THEOREM CheckpointsAdvance ==
    ASSUME Upward, ~CallsDuringStart, Unbindable = {}
    PROVE  Spec => CheckpointsOnlyAdvance
<1>1. ASSUME TypeInv, LoadInv, OrderInv, [Next]_vars
      PROVE  [crashes' = crashes =>
                \A h \in Hosts, f \in Families :
                  hostState[h][f] # NoAddr =>
                    hostState'[h][f] # NoAddr /\ hostState'[h][f] >= hostState[h][f]]_vars
  <2> USE DEF world, records, memory, fileVars, loadVars
  <2>0. hostState \in [Hosts -> PublicIPs] /\ hostState' \in [Hosts -> PublicIPs] /\ ip \in PublicIPs
    BY <1>1, NextTypeInv DEF TypeInv, TypeOK
  <2> SUFFICES ASSUME Next, crashes' = crashes, NEW h \in Hosts
               PROVE  Upto(hostState[h], hostState'[h])
    <3>1. ASSUME NEW h \in Hosts, NEW f \in Families, Upto(hostState[h], hostState'[h]),
                 hostState[h][f] # NoAddr
          PROVE  hostState'[h][f] # NoAddr /\ hostState'[h][f] >= hostState[h][f]
      BY <2>0, <3>1, FamilyTyped DEF Upto
    <3> QED
      BY <1>1, <3>1
  <2>1. CASE hostState' = hostState
    BY <2>0, <2>1, UptoFacts
  <2>2. CASE InstallState
    <3>1. hostState[h] = NoIP
      BY <1>1, <2>2 DEF InstallState, LoadInv, NoCheckpoints
    <3> QED
      BY <2>0, <3>1, UptoFacts
  <2>3. CASE ProviderAccepts
    <3>1. host \in Enabled /\ NotAfter(hostState[host], ip)
      BY <1>1, <2>3 DEF ProviderAccepts, TypeInv, TypeOK, ShapeInv, OrderInv, TargetInv, Updating
    <3>2. hostState' = [hostState EXCEPT ![host] = MergePresentFamilies(@, ip)]
      BY <2>3 DEF ProviderAccepts, Checkpointed
    <3>3. CASE h = host
      BY <2>0, <3>1, <3>2, <3>3, MergeAdvances
    <3>4. CASE h # host
      BY <2>0, <3>2, <3>4, UptoFacts
    <3> QED
      BY <3>3, <3>4
  <2>4. CASE StartLoads \/ ReadState \/ ReadFails \/ BeginCycle \/ NetworkReassigns
    BY <2>1, <2>4 DEF StartLoads, ReadState, ReadFails, BeginCycle, NetworkReassigns
  <2>5. CASE NoAddressFound \/ NothingPending \/ DryRun \/ BeginUpdates
    BY <2>1, <2>5 DEF NoAddressFound, NothingPending, DryRun, BeginUpdates
  <2>6. CASE BeginHost \/ ProviderFails \/ HostsDone \/ SaveState \/ Emitted
    BY <2>1, <2>6 DEF BeginHost, ProviderFails, HostsDone, SaveState, Summarize, Emitted
  <2>7. CASE Crash
    <3>1. crashes + 1 # crashes
      BY <1>1 DEF TypeInv, TypeOK
    <3> QED
      BY <2>7, <3>1 DEF Crash
  <2> QED
    BY <2>2, <2>3, <2>4, <2>5, <2>6, <2>7 DEF Next, Load, Cycle
<1> QED
  BY <1>1, OrderInvariant, PTL DEF Spec, CheckpointsOnlyAdvance

-----------------------------------------------------------------------------
(***************************************************************************)
(* The report and the state file                                           *)
(***************************************************************************)

\* A host that has accepted an address pair is not pending for it, whatever it held
\* before: ipChanged and mergePresentFamilies agree on what a missing family means.
THEOREM MergedIsUnchanged ==
    ASSUME NEW a \in PublicIPs, NEW b \in PublicIPs
    PROVE  ~IpChanged(b, MergePresentFamilies(a, b))
BY MergeFacts DEF IpChanged

\* Under every policy an update is due just for a wanted family that was discovered with
\* another address: one that was not discovered, or is not wanted, never causes one
\* (applyIpPolicy, ipChanged).
THEOREM OnlyDiscoveredIsChange ==
    ASSUME NEW d \in PublicIPs, NEW p \in PublicIPs, NEW pol
    PROVE  IpChanged(ApplyIpPolicy(d, p, pol), p) <=>
             \E f \in Wanted(pol) : d[f] # NoAddr /\ d[f] # p[f]
<1>1. \A f \in Families : ApplyIpPolicy(d, p, pol)[f] =
        IF f \notin Wanted(pol) THEN NoAddr
        ELSE IF pol.missing = "keep" /\ d[f] = NoAddr THEN p[f] ELSE d[f]
  BY DEF ApplyIpPolicy
<1>2. Wanted(pol) \subseteq Families
  BY DEF Wanted
<1> QED  BY <1>1, <1>2 DEF IpChanged

\* Applying a policy to its own outcome changes nothing (applyIpPolicy).
THEOREM PolicyIsIdempotent ==
    ASSUME NEW d \in PublicIPs, NEW p \in PublicIPs, NEW pol
    PROVE  ApplyIpPolicy(ApplyIpPolicy(d, p, pol), p, pol) = ApplyIpPolicy(d, p, pol)
<1> DEFINE once == ApplyIpPolicy(d, p, pol)
<1>1. \A f \in Families : once[f] =
        IF f \notin Wanted(pol) THEN NoAddr
        ELSE IF pol.missing = "keep" /\ d[f] = NoAddr THEN p[f] ELSE d[f]
  BY DEF ApplyIpPolicy
<1> HIDE DEF once
<1>2. \A f \in Families : once[f] =
        IF f \notin Wanted(pol) THEN NoAddr
        ELSE IF pol.missing = "keep" /\ once[f] = NoAddr THEN p[f] ELSE once[f]
  BY <1>1
<1>3. once = [f \in Families |-> IF f \notin Wanted(pol) THEN NoAddr
                ELSE IF pol.missing = "keep" /\ once[f] = NoAddr THEN p[f] ELSE once[f]]
  BY <1>2 DEF once, ApplyIpPolicy
<1> QED  BY <1>3 DEF ApplyIpPolicy, once

\* Who has accepted stays accepted when another host fails.
LEMMA FailureKeepsResults ==
    ASSUME TypeInv, ProviderFails, phase' # "idle"
    PROVE  \A h \in Hosts : results'[h] # results[h] =>
              results[h] = "none" /\ results'[h] \in {"none", "failed"}
<1>1. results \in [Hosts -> Outcomes] /\ (host \in Hosts => results[host] = "none")
  BY DEF TypeInv, TypeOK, ShapeInv, ProviderFails
<1>2. results' \in {results, [results EXCEPT ![host] = "failed"]}
  BY DEF ProviderFails, HostDone, EnterLeg, EndCycle
<1> QED
  BY <1>1, <1>2

\* A successful status: every requested host is accepted.
LEMMA SummarizeReport ==
    ASSUME TypeInv, AcceptedInv, Updating, todo = {}, Summarize, hostState' = hostState
    PROVE  AcceptedInv' /\ SuccessMeansCommitted'
<1>1. phase' = "emit" /\ event' = CycleStatus /\ ip' = ip /\ req' = req
  BY DEF Summarize, Emit
<1>2. AcceptedInv'
  BY <1>1 DEF AcceptedInv, Updating
<1>3. ASSUME CycleStatus \in {"updated", "unchanged"}, NEW h \in req.hosts
      PROVE  ~IpChanged(ip, hostState[h])
  <2>1. Accepted = req.hosts
    BY <1>3 DEF CycleStatus
  <2>2. results[h] \notin {"none", "failed"}
    BY <1>3, <2>1 DEF Accepted, TypeInv, ShapeInv
  <2> QED
    BY <1>3, <2>2 DEF AcceptedInv
<1> QED
  BY <1>1, <1>2, <1>3 DEF SuccessMeansCommitted

LEMMA NextReport ==
    ASSUME ~CallsDuringStart, TypeInv, LoadInv, ReportInv, [Next]_vars
    PROVE  ReportInv'
<1> USE DEF world, records, memory, fileVars, loadVars, hostVars, ReportInv
<1>0. AcceptedInv /\ SuccessMeansCommitted /\ TypeOK /\ ShapeInv
  BY DEF TypeInv
<1>1. CASE ~Updating' /\ phase' # "emit"
  BY <1>1 DEF AcceptedInv, SuccessMeansCommitted
<1>2. ASSUME UNCHANGED <<hostState, phase, req, ip, results, event>>
      PROVE  ReportInv'
  BY <1>0, <1>2 DEF AcceptedInv, SuccessMeansCommitted, Updating
<1>3. CASE StartLoads \/ ReadState \/ NetworkReassigns
  BY <1>2, <1>3 DEF StartLoads, ReadState, NetworkReassigns
<1>4. CASE ReadFails \/ InstallState
  BY <1>1, <1>4 DEF ReadFails, InstallState, AfterLoad, LoadInv, Updating
<1>5. CASE BeginCycle \/ Emitted \/ Crash
  BY <1>1, <1>5 DEF BeginCycle, Emitted, Crash, EndCycle, Updating
<1>6. CASE NoAddressFound \/ DryRun
  BY <1>6 DEF NoAddressFound, DryRun, Emit, AcceptedInv, SuccessMeansCommitted, Updating
<1>7. CASE NothingPending
  <2>1. PICK next \in Learnable : ip' = next /\ Pending(next) = {}
    BY <1>7 DEF NothingPending
  <2>2. phase' = "emit" /\ req' = req /\ hostState' = hostState /\ req.hosts # {}
    BY <1>0, <1>7, RequestFacts DEF NothingPending, Emit, ShapeInv
  <2>3. \A h \in req.hosts : ~IpChanged(next, hostState[h])
    BY <2>1, <2>2 DEF Pending
  <2> QED
    BY <2>1, <2>2, <2>3 DEF AcceptedInv, SuccessMeansCommitted, Updating
<1>8. CASE BeginUpdates
  <2>1. PICK next \in Learnable :
             /\ ip' = next
             /\ results' = [h \in Hosts |->
                              IF h \in req.hosts \ Pending(next) THEN "committed" ELSE "none"]
    BY <1>8 DEF BeginUpdates
  <2>2. phase' = "host" /\ req' = req /\ hostState' = hostState /\ req.hosts \subseteq Hosts
    BY <1>0, <1>8, RequestFacts DEF BeginUpdates, TypeOK, Enabled
  <2>3. \A h \in req.hosts : results'[h] # "none" => ~IpChanged(next, hostState[h])
    BY <2>1, <2>2 DEF Pending
  <2> QED
    BY <2>1, <2>2, <2>3 DEF AcceptedInv, SuccessMeansCommitted, Updating
<1>9. CASE BeginHost
  BY <1>0, <1>1, <1>9 DEF BeginHost, EnterLeg, EndCycle, AcceptedInv, SuccessMeansCommitted, Updating
<1>10. CASE ProviderAccepts
  <2>1. /\ phase' = "host" /\ ip' = ip /\ req' = req /\ Updating
        /\ req.hosts \subseteq Hosts /\ ip \in PublicIPs /\ hostState \in [Hosts -> PublicIPs]
    BY <1>0, <1>10, RequestFacts DEF ProviderAccepts, HostDone, Updating, TypeOK, Enabled
  <2>2. hostState' = [hostState EXCEPT ![host] = MergePresentFamilies(@, ip)]
    BY <1>10 DEF ProviderAccepts, Checkpointed
  <2>3. \A h \in Hosts \ {host} : results'[h] = results[h]
    BY <1>0, <1>10 DEF ProviderAccepts, HostDone, TypeOK
  <2> SUFFICES ASSUME NEW h \in req.hosts, results'[h] \notin {"none", "failed"}
               PROVE  ~IpChanged(ip, hostState'[h])
    BY <2>1 DEF AcceptedInv, SuccessMeansCommitted
  <2>4. CASE h = host
    BY <2>1, <2>2, <2>4, MergedIsUnchanged
  <2>5. CASE h # host
    BY <1>0, <2>1, <2>2, <2>3, <2>5 DEF AcceptedInv
  <2> QED
    BY <2>4, <2>5
<1>11. CASE ProviderFails
  <2>1. CASE Updating'
    <3>1. /\ ip' = ip /\ req' = req /\ hostState' = hostState /\ Updating /\ phase' # "emit"
          /\ req.hosts \subseteq Hosts
      BY <1>0, <1>11, <2>1, RequestFacts
         DEF ProviderFails, HostDone, EnterLeg, EndCycle, Updating, TypeOK, Enabled
    <3> QED
      BY <1>0, <1>11, <2>1, <3>1, FailureKeepsResults DEF AcceptedInv, SuccessMeansCommitted, Updating
  <2>2. CASE ~Updating'
    BY <1>1, <1>11, <2>2 DEF ProviderFails, HostDone, EnterLeg, EndCycle, Updating
  <2> QED
    BY <2>1, <2>2
<1>12. CASE HostsDone
  <2>1. CASE StateChanged
    BY <1>0, <1>12, <2>1 DEF HostsDone, AcceptedInv, SuccessMeansCommitted, Updating
  <2>2. CASE ~StateChanged
    BY <1>0, <1>12, <2>2, SummarizeReport DEF HostsDone, Summarize, Updating
  <2> QED
    BY <2>1, <2>2
<1>13. CASE SaveState
  BY <1>0, <1>13, SummarizeReport DEF SaveState, Summarize, Updating, ShapeInv
<1>14. CASE UNCHANGED vars
  BY <1>2, <1>14 DEF vars
<1> QED
  BY <1>3, <1>4, <1>5, <1>6, <1>7, <1>8, <1>9, <1>10, <1>11, <1>12, <1>13, <1>14
     DEF Next, Load, Cycle

\* A cycle reported as a success has left every requested host with its address.
THEOREM ReportsAreTrue == ASSUME ~CallsDuringStart PROVE Spec => []SuccessMeansCommitted
<1>1. Init => TypeInv /\ LoadInv /\ ReportInv
  BY InitTypeInv, InitLoadInv DEF Init, ReportInv, AcceptedInv, SuccessMeansCommitted, Updating
<1>2. TypeInv /\ LoadInv /\ ReportInv /\ [Next]_vars => (TypeInv /\ LoadInv /\ ReportInv)'
  BY NextTypeInv, NextLoadInv, NextReport
<1>3. ReportInv => SuccessMeansCommitted
  BY DEF ReportInv
<1> QED
  BY <1>1, <1>2, <1>3, PTL DEF Spec

LEMMA NextFile ==
    ASSUME ~CallsDuringStart, Unbindable = {}, TypeInv, LoadInv, FileInv, [Next]_vars
    PROVE  FileInv'
<1> USE DEF world, records, memory, fileVars, loadVars, hostVars
<1>0. TypeOK /\ ShapeInv
  BY DEF TypeInv
\* Outside the updating part, the file has to be right already.
<1>1. ASSUME ~Updating, ~Updating', UNCHANGED <<disk, behind, hostState, loading, stateLoaded>>
      PROVE  FileInv'
  BY <1>1 DEF FileInv, Updating
<1>2. CASE StartLoads \/ ReadState \/ ReadFails
  BY <1>2 DEF StartLoads, ReadState, ReadFails, AfterLoad, LoadInv, FileInv
<1>3. CASE InstallState
  BY <1>3 DEF InstallState, AfterLoad, LoadInv, FileInv
<1>4. CASE BeginCycle
  BY <1>4 DEF BeginCycle, FileInv, Updating
<1>5. CASE NoAddressFound \/ NothingPending \/ DryRun \/ Emitted
  BY <1>1, <1>5 DEF NoAddressFound, NothingPending, DryRun, Emitted, Emit, EndCycle, Updating
<1>6. CASE BeginUpdates
  BY <1>6 DEF BeginUpdates, FileInv, Updating
<1>7. CASE BeginHost
  BY <1>7 DEF BeginHost, EnterLeg, FileInv, Updating, StateChanged
<1>8. CASE ProviderAccepts
  <2>1. host \in Hosts /\ results \in [Hosts -> Outcomes] /\ phase' = "host"
    BY <1>0, <1>8 DEF ProviderAccepts, HostDone, ShapeInv, TypeOK, Enabled
  <2>2. results'[host] \in {"ok", "skipped"}
    BY <1>8, <2>1 DEF ProviderAccepts, HostDone
  <2> QED
    BY <2>1, <2>2 DEF FileInv, Updating, StateChanged
<1>9. CASE ProviderFails
  <2>1. /\ phase = "call" /\ phase' \in {"host", "call"}
        /\ UNCHANGED <<disk, behind, hostState, loading, stateLoaded>>
    BY <1>9 DEF ProviderFails, HostDone, EnterLeg
  <2>2. StateChanged => StateChanged'
    BY <1>9, <2>1, FailureKeepsResults DEF StateChanged
  <2> QED
    BY <2>1, <2>2 DEF FileInv, Updating
<1>10. CASE HostsDone
  <2>1. CASE StateChanged
    BY <1>10, <2>1 DEF HostsDone, FileInv, Updating, StateChanged
  <2>2. CASE ~StateChanged
    BY <1>10, <2>2 DEF HostsDone, Summarize, Emit, FileInv, Updating
  <2> QED
    BY <2>1, <2>2
<1>11. CASE SaveState
  BY <1>11 DEF SaveState, Summarize, Emit, FileInv
<1>12. CASE NetworkReassigns
  BY <1>12 DEF NetworkReassigns, FileInv, Updating, StateChanged
<1>13. CASE Crash
  BY <1>13 DEF Crash, EndCycle, FileInv
<1>14. CASE UNCHANGED vars
  BY <1>14 DEF vars, FileInv, Updating, StateChanged
<1> QED
  BY <1>2, <1>3, <1>4, <1>5, <1>6, <1>7, <1>8, <1>9, <1>10, <1>11, <1>12, <1>13, <1>14
     DEF Next, Load, Cycle

\* Between cycles the state file holds every checkpoint, also those of cycles in
\* which other hosts failed, unless the last load or save has failed.
THEOREM CheckpointsArePersisted ==
    ASSUME ~CallsDuringStart, Unbindable = {}
    PROVE  Spec => []PersistedWhenIdle
<1>1. Init => TypeInv /\ LoadInv /\ FileInv
  BY InitTypeInv, InitLoadInv DEF Init, FileInv
<1>2. TypeInv /\ LoadInv /\ FileInv /\ [Next]_vars => (TypeInv /\ LoadInv /\ FileInv)'
  BY NextTypeInv, NextLoadInv, NextFile
<1>3. FileInv => PersistedWhenIdle
  BY DEF FileInv, PersistedWhenIdle, Updating
<1> QED
  BY <1>1, <1>2, <1>3, PTL DEF Spec

=============================================================================
