----------------------------- MODULE UpdateCycle -----------------------------
(***************************************************************************)
(* What one cycle of an updater session reads and writes (lib/updater.ts,  *)
(* checkOnce and the functions it calls): the discovered address, the      *)
(* policy baseline currentIP, the per-host checkpoints in memory and in    *)
(* the state file, and the provider calls with retries and failover.       *)
(*                                                                         *)
(* One cycle runs at a time: UpdaterLoop's NoOverlap.  Between two awaits  *)
(* the rest of the world moves: the public address changes, a start() of   *)
(* the same session loads the state file, the process crashes and comes    *)
(* back.  Addresses are numbers in the order the network assigns them.     *)
(***************************************************************************)
EXTENDS Naturals, Sequences, IpPolicy

CONSTANTS
    Hosts,          \* config.hosts
    DisabledHosts,  \* config.disabledHosts
    NoHost,
    Primary,        \* the session's own account
    Standbys,       \* failoverTargets, in order
    Covers,         \* Covers[t]: hosts enabled in standby t's account
    Unbindable,     \* <<target, host>>: configForHost throws
    Policies,       \* the policies an account may be configured with
    FirstAddr,      \* what the network has assigned at the start
    Reassigns,      \* <<f, a, b>>: the network may replace address a of family f by b
    MaxAttempts,    \* retryAttempts
    MaxCrashes,     \* bound on crashes
    CallsDuringStart \* do tool calls come in while start() loads the state?

Enabled == Hosts \ DisabledHosts

ASSUME HostAssumption    == DisabledHosts \subseteq Hosts /\ Enabled # {} /\ NoHost \notin Hosts
ASSUME StandbyAssumption == Standbys \in Seq(DOMAIN Covers)
ASSUME NumberAssumption  ==
    Addresses \subseteq Nat /\ FirstAddr \in Addresses /\ MaxAttempts \in Nat \ {0} /\ MaxCrashes \in Nat

VARIABLES
    policy,       \* the account's IP policy
    public,       \* the addresses the network has assigned
    dns,          \* the record of each host, as resolvers see it
    currentIP,    \* the baseline of the policy
    hostState,    \* the checkpoints; NoIP where there is none
    stateLoaded,
    disk,         \* the hosts of the state file
    writing,      \* the contents of the save that is under way
    loading,      \* the one call of stateStore.load: "no", "reading" or "read"
    readBack,     \* what it has read and not yet installed
    phase,        \* where the cycle is suspended
    req,          \* the cycle's options: [forced, dryRun, hosts]
    ip,           \* the address the cycle works with
    todo,         \* pending hosts not yet tried
    host,         \* the pending host being updated
    leg,          \* its position in the failover chain
    attempt,
    results,      \* what became of each target host so far
    event,        \* the status being reported to onCycleComplete
    crashes,
    behind,       \* History: the last load or save of the state file failed.
    delivered     \* History: what each host has accepted in this run of the process.

loadVars == <<stateLoaded, loading, readBack>>
hostVars == <<todo, host, leg, attempt, results>>
fileVars == <<disk, writing, behind>>
world    == <<policy, public, crashes>>
records  == <<dns, delivered>>
memory   == <<currentIP, hostState>>
vars == <<world, records, memory, fileVars, loadVars, phase, req, ip,
          hostVars, event>>

NoCheckpoints == [h \in Hosts |-> NoIP]
NoResults     == [h \in Hosts |-> "none"]
NoReq    == [forced |-> FALSE, dryRun |-> FALSE, hosts |-> {}]
Requests == [forced : BOOLEAN, dryRun : BOOLEAN, hosts : (SUBSET Enabled) \ {{}}]
Phases   == {"idle", "load", "discover", "host", "call", "save", "emit"}
Statuses == {"none", "skipped_no_ip", "unchanged", "dry_run", "updated", "partial", "error"}
\* "committed": not pending; "skipped": the provider found the record in place.
Outcomes == {"none", "committed", "skipped", "ok", "failed"}

Init ==
    /\ policy \in Policies
    /\ public = [f \in Families |-> FirstAddr]
    /\ dns = NoCheckpoints
    /\ delivered = NoCheckpoints
    /\ currentIP = NoIP
    /\ hostState = NoCheckpoints
    /\ stateLoaded = FALSE
    /\ disk = NoCheckpoints /\ writing = NoCheckpoints
    /\ loading = "no"
    /\ readBack = NoCheckpoints
    /\ phase = "idle"
    /\ req = NoReq
    /\ ip = NoIP
    /\ todo = {} /\ host = NoHost /\ leg = 0 /\ attempt = 1 /\ results = NoResults
    /\ event = "none"
    /\ crashes = 0
    /\ behind = FALSE

(***************************************************************************)
(* The policy baseline                                                     *)
(***************************************************************************)

\* refreshCurrentIP: when all enabled hosts share one checkpoint, the baseline is
\* that checkpoint.
Refreshed(checkpoints, base) ==
    IF \E g \in Enabled : \A h \in Enabled : checkpoints[h] = checkpoints[g] /\ checkpoints[h] # NoIP
      THEN checkpoints[CHOOSE h \in Enabled : TRUE]
      ELSE base

(***************************************************************************)
(* loadState: the first caller reads the file, every later one finds       *)
(* stateLoaded set and goes on, whether or not the read is over.           *)
(***************************************************************************)

\* The cycle that waits for its own load goes on to discovery.
AfterLoad == phase' = IF phase = "load" THEN "discover" ELSE phase

\* start() finds the state not loaded.
StartLoads ==
    /\ phase = "idle"
    /\ ~stateLoaded
    /\ stateLoaded' = TRUE
    /\ loading' = "reading"
    /\ UNCHANGED <<world, records, memory, fileVars, readBack, phase, req, ip, hostVars, event>>

ReadState ==
    /\ loading = "reading"
    /\ loading' = "read"
    /\ readBack' = disk
    /\ UNCHANGED <<world, records, memory, fileVars, stateLoaded, phase, req, ip, hostVars,
                   event>>

\* The file cannot be read: start without a checkpoint.
ReadFails ==
    /\ loading = "reading"
    /\ loading' = "no"
    /\ behind' = TRUE
    /\ AfterLoad
    /\ UNCHANGED <<world, records, memory, disk, writing, stateLoaded, readBack, req, ip,
                   hostVars, event>>

InstallState ==
    /\ loading = "read"
    /\ loading' = "no"
    /\ hostState' = readBack
    /\ currentIP' = Refreshed(readBack, currentIP)
    /\ readBack' = NoCheckpoints
    /\ AfterLoad
    /\ UNCHANGED <<world, records, fileVars, stateLoaded, req, ip, hostVars, event>>

(***************************************************************************)
(* checkOnce, up to the provider calls                                     *)
(***************************************************************************)

\* A tick, start() or a tool call, with hosts that are configured and enabled.
BeginCycle ==
    /\ phase = "idle"
    /\ loading = "no" \/ CallsDuringStart
    /\ req' \in Requests
    /\ stateLoaded' = TRUE
    /\ IF stateLoaded THEN phase' = "discover" /\ UNCHANGED loading
                      ELSE phase' = "load" /\ loading' = "reading"
    /\ UNCHANGED <<world, records, memory, fileVars, readBack, ip, hostVars, event>>

\* checkOnce settles, by its report or by a throw.
EndCycle ==
    /\ phase' = "idle"
    /\ req' = NoReq
    /\ ip' = NoIP
    /\ todo' = {} /\ host' = NoHost /\ leg' = 0 /\ attempt' = 1 /\ results' = NoResults

\* emitCycleComplete up to the await of onCycleComplete.
Emit(status) ==
    /\ phase' = "emit"
    /\ event' = status
    /\ UNCHANGED req
    /\ todo' = {} /\ host' = NoHost /\ leg' = 0 /\ attempt' = 1 /\ results' = NoResults

Emitted ==
    /\ phase = "emit"
    /\ event' = "none"
    /\ EndCycle
    /\ UNCHANGED <<world, records, memory, fileVars, loadVars>>

\* Each family's lookup finds the assigned address or fails.
Discovered(found) == [f \in Families |-> IF f \in found THEN public[f] ELSE NoAddr]

\* Mutant of Pending: a host is pending when its record is not the baseline's.
PendingByBaseline(next) ==
    IF req.forced \/ IpChanged(next, currentIP) THEN req.hosts ELSE {}

Pending(next) ==
    IF req.forced THEN req.hosts ELSE {h \in req.hosts : IpChanged(next, hostState[h])}

\* What the lookups and the policy can make of the present addresses.
Learnable == {ApplyIpPolicy(Discovered(found), currentIP, policy) : found \in SUBSET Families}

NoAddressFound ==
    /\ phase = "discover"
    /\ NoIP \in Learnable
    /\ ip' = NoIP
    /\ Emit("skipped_no_ip")
    /\ UNCHANGED <<world, records, memory, fileVars, loadVars>>

\* Mutant of NothingPending: a dry run moves the baseline, too.
NothingPendingDry ==
    /\ phase = "discover"
    /\ \E next \in Learnable \ {NoIP} :
         /\ Pending(next) = {}
         /\ ip' = next
         /\ currentIP' = MergePresentFamilies(currentIP, next)
    /\ Emit("unchanged")
    /\ UNCHANGED <<world, records, hostState, fileVars, loadVars>>

NothingPending ==
    /\ phase = "discover"
    /\ \E next \in Learnable \ {NoIP} :
         /\ Pending(next) = {}
         /\ ip' = next
         /\ currentIP' = IF req.dryRun THEN currentIP ELSE MergePresentFamilies(currentIP, next)
    /\ Emit("unchanged")
    /\ UNCHANGED <<world, records, hostState, fileVars, loadVars>>

DryRun ==
    /\ phase = "discover"
    /\ req.dryRun
    /\ \E next \in Learnable \ {NoIP} : Pending(next) # {} /\ ip' = next
    /\ Emit("dry_run")
    /\ UNCHANGED <<world, records, memory, fileVars, loadVars>>

BeginUpdates ==
    /\ phase = "discover"
    /\ ~req.dryRun
    /\ \E next \in Learnable \ {NoIP} :
         /\ Pending(next) # {}
         /\ ip' = next
         /\ todo' = Pending(next)
         /\ results' = [h \in Hosts |->
                          IF h \in req.hosts \ Pending(next) THEN "committed" ELSE "none"]
    /\ phase' = "host"
    /\ UNCHANGED <<world, records, memory, fileVars, loadVars, req, host, leg, attempt, event>>

(***************************************************************************)
(* updateHostWithFailover and updateWithRetry                              *)
(***************************************************************************)

\* The failover chain of a host: the account itself at position 0, then the
\* standbys that have the host enabled, in order.
Target(k) == IF k = 0 THEN Primary ELSE Standbys[k]
Later(h, k) == {i \in k + 1..Len(Standbys) : h \in Covers[Standbys[i]]}

\* Try the k-th target for h.  configForHost runs outside the try: when it throws,
\* the whole cycle rejects, with no save, no summary and no event.
EnterLeg(h, k) ==
    IF <<Target(k), h>> \in Unbindable
      THEN EndCycle
      ELSE /\ phase' = "call"
           /\ host' = h /\ leg' = k /\ attempt' = 1
           /\ UNCHANGED <<req, ip, todo, results>>

BeginHost ==
    /\ phase = "host"
    /\ \E h \in todo : EnterLeg(h, 0)
    /\ UNCHANGED <<world, records, memory, fileVars, loadVars, event>>

HostDone(outcome) ==
    /\ results' = [results EXCEPT ![host] = outcome]
    /\ todo' = todo \ {host}
    /\ host' = NoHost /\ leg' = 0 /\ attempt' = 1
    /\ phase' = "host"
    /\ UNCHANGED <<req, ip>>

\* Mutant of Checkpointed: the omitted families are forgotten.
CheckpointedWhole(h) == [hostState EXCEPT ![h] = ip]

Checkpointed(h) == [hostState EXCEPT ![h] = MergePresentFamilies(@, ip)]

\* The target accepts the address, or finds the record in place already.
ProviderAccepts ==
    /\ phase = "call"
    /\ hostState' = Checkpointed(host)
    /\ delivered' = [delivered EXCEPT ![host] = MergePresentFamilies(@, ip)]
    /\ \/ /\ dns' = [dns EXCEPT ![host] = MergePresentFamilies(@, ip)]
          /\ HostDone("ok")
       \/ /\ ~IpChanged(ip, dns[host])
          /\ HostDone("skipped")
          /\ UNCHANGED dns
    /\ UNCHANGED <<world, currentIP, fileVars, loadVars, event>>

MayRetry == attempt < MaxAttempts

\* The target fails: refused, partly applied, or applied with the answer lost.
\* Then another attempt, or (not worth retrying, out of attempts, stopping) the
\* next target, or the host has failed.
ProviderFails ==
    /\ phase = "call"
    /\ \E applied \in SUBSET {f \in Families : ip[f] # NoAddr} :
         dns' = [dns EXCEPT ![host] = [f \in Families |-> IF f \in applied THEN ip[f] ELSE @[f]]]
    /\ \/ /\ MayRetry
          /\ attempt' = attempt + 1
          /\ UNCHANGED <<phase, req, ip, todo, host, leg, results>>
       \/ \E next \in Later(host, leg) :
            /\ \A i \in Later(host, leg) : next <= i
            /\ EnterLeg(host, next)
       \/ /\ Later(host, leg) = {}
          /\ HostDone("failed")
    /\ UNCHANGED delivered
    /\ UNCHANGED <<world, memory, fileVars, loadVars, event>>

(***************************************************************************)
(* The end of the cycle                                                    *)
(***************************************************************************)

Accepted == {h \in req.hosts : results[h] # "failed"}

\* Mutant of CommittedBaseline: only a cycle without failures moves the baseline.
CommittedBaselineAllOk ==
    IF Accepted = req.hosts THEN MergePresentFamilies(currentIP, ip) ELSE currentIP

\* commitIP: any success moves the baseline.
CommittedBaseline ==
    IF Accepted # {} THEN MergePresentFamilies(currentIP, ip) ELSE currentIP

\* Mutant of CycleStatus: one success makes the cycle a success.
CycleStatusAny ==
    IF Accepted = {} THEN "error"
    ELSE IF \A h \in Accepted : results[h] # "ok" THEN "unchanged" ELSE "updated"

CycleStatus ==
    IF Accepted = {} THEN "error"
    ELSE IF Accepted # req.hosts THEN "partial"
    ELSE IF \A h \in req.hosts : results[h] # "ok" THEN "unchanged"
    ELSE "updated"

\* summarizeHostResults, refreshCurrentIP and the report.
Summarize ==
    /\ currentIP' = Refreshed(hostState, CommittedBaseline)
    /\ Emit(CycleStatus)
    /\ UNCHANGED <<world, records, hostState, loadVars, ip>>

\* Mutant of StateChanged: nothing is saved unless every host was accepted.
StateChangedAllOk == Accepted = req.hosts /\ \E h \in Hosts : results[h] \in {"ok", "skipped"}

StateChanged == \E h \in Hosts : results[h] \in {"ok", "skipped"}

HostsDone ==
    /\ phase = "host"
    /\ todo = {}
    /\ IF StateChanged
         THEN /\ phase' = "save"
              /\ writing' = hostState
              /\ UNCHANGED <<world, records, memory, disk, behind, loadVars, req, ip, hostVars,
                             event>>
         ELSE Summarize /\ UNCHANGED fileVars

\* stateStore.save succeeds, or fails (before or after the file was replaced) and
\* is only warned about.
SaveState ==
    /\ phase = "save"
    /\ \/ disk' = writing /\ behind' = FALSE
       \/ disk' \in {disk, writing} /\ behind' = TRUE
    /\ writing' = NoCheckpoints
    /\ Summarize

-----------------------------------------------------------------------------
(***************************************************************************)
(* The world                                                               *)
(***************************************************************************)

NetworkReassigns ==
    /\ \E f \in Families, a \in Addresses :
         /\ <<f, public[f], a>> \in Reassigns
         /\ public' = [public EXCEPT ![f] = a]
    /\ UNCHANGED <<policy, crashes, records, memory, fileVars, loadVars, phase, req, ip,
                   hostVars, event>>

\* The process dies and is started again.  The file is replaced atomically
\* (DurableFile): a crash in the middle of a save leaves the old or the new one.
Crash ==
    /\ crashes < MaxCrashes
    /\ crashes' = crashes + 1
    /\ disk' \in IF phase = "save" THEN {disk, writing} ELSE {disk}
    /\ writing' = NoCheckpoints
    /\ currentIP' = NoIP
    /\ hostState' = NoCheckpoints
    /\ stateLoaded' = FALSE
    /\ loading' = "no"
    /\ readBack' = NoCheckpoints
    /\ EndCycle
    /\ event' = "none"
    /\ behind' = FALSE
    /\ delivered' = NoCheckpoints
    /\ UNCHANGED <<policy, public, dns>>

-----------------------------------------------------------------------------

Load == StartLoads \/ ReadState \/ ReadFails \/ InstallState

Cycle ==
    \/ NoAddressFound \/ NothingPending \/ DryRun \/ BeginUpdates
    \/ BeginHost \/ ProviderAccepts \/ ProviderFails \/ HostsDone \/ SaveState \/ Emitted

Next == Load \/ BeginCycle \/ Cycle \/ NetworkReassigns \/ Crash

Spec == Init /\ [][Next]_vars
-----------------------------------------------------------------------------
(***************************************************************************)
(* Properties                                                              *)
(***************************************************************************)

TypeOK ==
    /\ policy \in Policies
    /\ public \in PublicIPs
    /\ dns \in [Hosts -> PublicIPs]
    /\ currentIP \in PublicIPs
    /\ hostState \in [Hosts -> PublicIPs]
    /\ stateLoaded \in BOOLEAN
    /\ disk \in [Hosts -> PublicIPs]
    /\ writing \in [Hosts -> PublicIPs]
    /\ loading \in {"no", "reading", "read"}
    /\ readBack \in [Hosts -> PublicIPs]
    /\ phase \in Phases
    /\ req \in Requests \cup {NoReq}
    /\ ip \in PublicIPs
    /\ todo \subseteq Enabled
    /\ host \in Enabled \cup {NoHost}
    /\ leg \in 0..Len(Standbys)
    /\ attempt \in 1..MaxAttempts
    /\ results \in [Hosts -> Outcomes]
    /\ event \in Statuses
    /\ crashes \in 0..MaxCrashes
    /\ behind \in BOOLEAN
    /\ delivered \in [Hosts -> PublicIPs]

\* A provider is never told an address older than one that the host is known to
\* have accepted, by its checkpoint or since the process started: a family kept
\* over a failed lookup cannot regress a host (the comment at updater.ts:820-821),
\* whatever mix of host subsets, partial cycles, forced cycles, restarts and failed
\* saves led there.
NoRegress ==
    phase = "call" =>
        \A known \in {hostState[host], delivered[host]}, f \in Families :
            ip[f] # NoAddr /\ known[f] # NoAddr => ip[f] >= known[f]

\* Within one run of the process no checkpoint is lost or moved back, family by
\* family ("clear" omits a family, it does not withdraw it).
CheckpointsOnlyAdvance ==
    [][crashes' = crashes =>
         \A h \in Hosts, f \in Families :
            hostState[h][f] # NoAddr =>
               hostState'[h][f] # NoAddr /\ hostState'[h][f] >= hostState[h][f]]_vars

\* A cycle reported as updated or unchanged leaves every host it was asked for
\* with a checkpoint of the cycle's address.
SuccessMeansCommitted ==
    phase = "emit" /\ event \in {"updated", "unchanged"} =>
        \A h \in req.hosts : ~IpChanged(ip, hostState[h])

\* Between cycles the state file holds the checkpoints, unless its last load or
\* save failed: a host's success is saved whatever became of the other hosts (LC-004).
PersistedWhenIdle ==
    phase = "idle" /\ stateLoaded /\ loading = "no" /\ ~behind => disk = hostState

\* A cycle that reports every host as up to date tells the truth of the records.
\* docs/providers.md:22-23 has "a partial failure retries only failed hosts", LC-004
\* "failed hosts must remain eligible for retry".  The checkpoint is not touched by
\* a failed update whose request took effect, though: when the network then gives
\* back the address of the checkpoint (or a failed lookup is filled in with it), the
\* host is not retried and its record stays wrong.
FailedHostsAreRetried ==
    phase = "emit" /\ event = "unchanged" => \A h \in req.hosts : ~IpChanged(ip, dns[h])

\* A dry run writes nothing: no record, no file, and once the state is loaded no
\* checkpoint and no baseline (FR-002).
DryRunInert ==
    [][req.dryRun /\ crashes' = crashes =>
         /\ dns' = dns
         /\ disk' = disk
         /\ phase # "load" => hostState' = hostState /\ currentIP' = currentIP]_vars
=============================================================================
