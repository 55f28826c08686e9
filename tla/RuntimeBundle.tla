---------------------------- MODULE RuntimeBundle ----------------------------
(***************************************************************************)
(* The runtime bundle of one account (lib/runtime.ts): cycles of its       *)
(* updater, each a discovery (Discovery) followed by what happens to its   *)
(* event (CycleEvents), until it is stopped and flushed: by the daemon on  *)
(* reload and shutdown, by the one-shot command after its only cycle.      *)
(* Between the two the provider calls of UpdateCycle decide the status.    *)
(***************************************************************************)
EXTENDS Naturals, FiniteSets

CONSTANTS Families, Endpoints, DnsFallback,
          Appenders, Self, Targets, NotifyOn, MaxEvents, MaxPending, MaxCycles

ASSUME LookupAssumption   == Endpoints \in Nat \ {0} /\ DnsFallback \in BOOLEAN
ASSUME AppenderAssumption == Self \in Appenders /\ MaxCycles \in [Appenders -> Nat]
ASSUME LimitAssumption    == MaxEvents \in Nat \ {0} /\ MaxPending \in Nat

VARIABLES at, tried, queried, aborted, orphaned,
          step, cycle, status, loaded, file, pending, owed, appended, raced,
          stage,      \* of the owner: "running", "stopping", "flushing" or "gone"
          last,       \* the last cycle that had begun when stop() was called
          flushed     \* the deliveries flushNotifications waits for

D == INSTANCE Discovery
E == INSTANCE CycleEvents

lookups == <<at, tried, queried, aborted, orphaned>>
events == <<step, cycle, status, loaded, file, pending, owed, appended, raced>>
owner == <<stage, last, flushed>>
vars == <<lookups, events, owner>>

Init ==
    /\ D!Init /\ E!Init
    /\ stage = "running"
    /\ last = 0
    /\ flushed = {}

\* checkOnce, guarded: one cycle at a time.  A stop() does not keep one from beginning: a
\* start() that goes on from its load, or a tool call, begins one after it.
BeginCycle ==
    /\ E!BeginCycle(Self)
    /\ D!Begin
    /\ UNCHANGED owner

InCycle == step[Self] = "cycle"

Discover ==
    /\ InCycle
    /\ D!Next
    /\ UNCHANGED <<events, owner>>

\* Both families have settled.  The IP policy (module IpPolicy) may do without a family
\* and may keep old addresses: the cycle is skipped at most when one was not found.
EndCycle ==
    /\ InCycle /\ ~D!Running
    /\ \/ E!Throw(Self)
       \/ \E result \in E!Statuses, forced \in BOOLEAN :
            /\ result = "skipped_no_ip" => \E f \in Families : at[f] = "failed"
            /\ E!Emit(Self, result, forced)
    /\ D!End
    /\ UNCHANGED owner

OnCycleComplete ==
    /\ E!Handle(Self)
    /\ UNCHANGED <<lookups, owner>>

\* The other processes: their cycles matter for the history file alone.
OtherAppender(a) ==
    /\ a # Self
    /\ E!BeginCycle(a) \/ E!Emit(a, "updated", FALSE) \/ E!Handle(a)
    /\ UNCHANGED <<lookups, owner>>

Deliver ==
    /\ E!Deliver
    /\ UNCHANGED <<lookups, owner>>

\* updater.stop(): waits for the cycle that is in flight now, its event included, and for
\* none that begins later.
Stop ==
    /\ stage = "running"
    /\ stage' = "stopping"
    /\ last' = cycle[Self]
    /\ UNCHANGED <<lookups, events, flushed>>

Over(n) == step[Self] = "idle" \/ cycle[Self] # n

StoppedAtOnce == stage = "stopping"
Stopped == stage = "stopping" /\ Over(last)

\* flushNotifications: a snapshot of what is pending.
BeginFlush ==
    /\ Stopped
    /\ stage' = "flushing"
    /\ flushed' = pending
    /\ UNCHANGED <<lookups, events, last>>

EndFlush ==
    /\ stage = "flushing"
    /\ flushed \cap pending = {}
    /\ stage' = "gone"
    /\ flushed' = {}
    /\ UNCHANGED <<lookups, events, last>>

Next ==
    \/ BeginCycle \/ Discover \/ EndCycle \/ OnCycleComplete \/ Deliver
    \/ \E a \in Appenders : OtherAppender(a)
    \/ Stop \/ BeginFlush \/ EndFlush

\* Lookups, file operations and requests end: each has a deadline of its own.  Nothing
\* is assumed of the other processes and of whoever stops the session, nor of what is left
\* when the owner goes on: the process may have ended.
Here == stage # "gone"
Fairness ==
    /\ WF_vars(Here /\ (Discover \/ EndCycle \/ OnCycleComplete))
    /\ WF_vars(Here /\ Deliver)
    /\ WF_vars(BeginFlush \/ EndFlush)

Spec == Init /\ [][Next]_vars /\ Fairness

(***************************************************************************)
(* Properties                                                              *)
(***************************************************************************)

\* When the session's owner goes on after stop() and flushNotifications(), to exit or to
\* replace the session, no delivery of a cycle that had begun before the stop() is
\* outstanding, and no event of one is on its way to become a delivery: although the flush
\* waits for a snapshot only, and cycles that begin later deliver beside it.
NothingPendingAtExit ==
    stage = "gone" => Over(last) /\ \A n \in pending : n > last

\* A cycle ends whatever the lookups and the history do; a backlog of notifications that is
\* full takes events again, whatever the deliveries do, unless the owner goes on; and a
\* stopped session is flushed, whatever begins after the stop (stages only go forward).
BacklogFull == Cardinality(pending) = MaxPending

CyclesAndBacklogEnd ==
    /\ []<>(step[Self] = "idle" \/ stage = "gone")
    /\ []<>(~BacklogFull \/ stage = "gone")
    /\ []<>(stage \in {"running", "gone"})

SourcesExhausted     == D!SourcesExhausted
NoQueryAfterDeadline == D!NoQueryAfterDeadline
HistoryFaithful      == E!HistoryFaithful
=============================================================================
