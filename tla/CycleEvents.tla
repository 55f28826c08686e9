----------------------------- MODULE CycleEvents -----------------------------
(***************************************************************************)
(* What happens to the event of a finished cycle: onCycleComplete of       *)
(* lib/runtime.ts with the history of lib/history.ts and the deliveries of *)
(* lib/notify.ts.  The history file may have a second appender: a one-shot *)
(* command beside the daemon.  A partial update counts as an error here,   *)
(* and dry runs are left out.                                              *)
(***************************************************************************)
EXTENDS Naturals, Sequences, FiniteSets

CONSTANTS
    Appenders,    \* the processes that append to the history file
    Self,         \* the one whose events are delivered
    Targets,      \* the notification services that are configured
    NotifyOn,     \* the statuses that are notified
    MaxEvents,    \* maxEvents of the history
    MaxPending,   \* maxPendingNotifications
    MaxCycles     \* bound on the cycles of each appender

VARIABLES
    step,        \* of onCycleComplete, for each appender
    cycle,       \* its cycles so far
    status,      \* of the cycle whose event is handled
    loaded,      \* what its append has read
    file,        \* the history file
    pending,     \* pendingNotifications: cycles with deliveries outstanding
    owed,        \* the targets that have not settled, for each pending cycle
    appended,    \* History: the events that reached the file, in order
    raced        \* History: have two appends overlapped?

vars == <<step, cycle, status, loaded, file, pending, owed, appended, raced>>

Statuses   == {"updated", "error", "unchanged", "skipped_no_ip"}
Recordable == {"updated", "error", "skipped_no_ip"}
Cycles     == 1 .. MaxCycles[Self]
Steps      == {"idle", "cycle", "load", "replace", "notify"}

Event(a) == [by |-> a, cycle |-> cycle[a]]

Init ==
    /\ step = [a \in Appenders |-> "idle"]
    /\ cycle = [a \in Appenders |-> 0]
    /\ status = [a \in Appenders |-> "unchanged"]
    /\ loaded = [a \in Appenders |-> <<>>]
    /\ file = <<>>
    /\ pending = {}
    /\ owed = [n \in Cycles |-> {}]
    /\ appended = <<>>
    /\ raced = FALSE

Goto(a, label) == step' = [step EXCEPT ![a] = label]

BeginCycle(a) ==
    /\ step[a] = "idle" /\ cycle[a] < MaxCycles[a]
    /\ cycle' = [cycle EXCEPT ![a] = @ + 1]
    /\ Goto(a, "cycle")
    /\ UNCHANGED <<status, loaded, file, pending, owed, appended, raced>>

\* emitCycleComplete: the event of the cycle, and what the history does with it.
Emit(a, result, forced) ==
    /\ step[a] = "cycle"
    /\ status' = [status EXCEPT ![a] = result]
    /\ Goto(a, IF forced \/ result \in Recordable THEN "load" ELSE "notify")
    /\ UNCHANGED <<cycle, loaded, file, pending, owed, appended, raced>>

\* A host that cannot be bound: the cycle throws, and there is no event.
Throw(a) ==
    /\ step[a] = "cycle"
    /\ Goto(a, "idle")
    /\ UNCHANGED <<cycle, status, loaded, file, pending, owed, appended, raced>>

\* append: read the events.  A failure is logged.
Load(a) ==
    /\ step[a] = "load"
    /\ \/ Goto(a, "replace") /\ loaded' = [loaded EXCEPT ![a] = file]
       \/ Goto(a, "notify") /\ UNCHANGED loaded
    /\ raced' = (raced \/ \E b \in Appenders \ {a} : step[b] = "replace")
    /\ UNCHANGED <<cycle, status, file, pending, owed, appended>>

\* The last maxEvents events, the new one included.
KeptAll(events) == events
Kept(events) == SubSeq(events, IF Len(events) > MaxEvents THEN Len(events) - MaxEvents + 1 ELSE 1,
                       Len(events))

\* append: replace the file.  It may fail before or after the new file is in place.
Replace(a) ==
    /\ step[a] = "replace"
    /\ \/ /\ file' = Kept(Append(loaded[a], Event(a)))
          /\ appended' = Append(appended, Event(a))
       \/ UNCHANGED <<file, appended>>
    /\ Goto(a, "notify")
    /\ loaded' = [loaded EXCEPT ![a] = <<>>]
    /\ UNCHANGED <<cycle, status, pending, owed, raced>>

\* The backlog has room and the event is one to notify: a request to every target.
\* Then the listeners, and the cycle is over.
Notify(a) ==
    /\ step[a] = "notify"
    /\ Goto(a, "idle")
    /\ IF a = Self /\ Cardinality(pending) < MaxPending /\ status[a] \in NotifyOn /\ Targets # {}
         THEN /\ pending' = pending \cup {cycle[a]}
              /\ owed' = [owed EXCEPT ![cycle[a]] = Targets]
         ELSE UNCHANGED <<pending, owed>>
    /\ status' = [status EXCEPT ![a] = "unchanged"]
    /\ UNCHANGED <<cycle, loaded, file, appended, raced>>

\* A request settles.  A failure is caught: it counts as settled.
SettleDeliveryOk(n, t, ok) ==
    /\ t \in owed[n]
    /\ owed' = [owed EXCEPT ![n] = @ \ {t}]
    /\ pending' = IF owed'[n] = {} /\ ok THEN pending \ {n} ELSE pending
    /\ UNCHANGED <<step, cycle, status, loaded, file, appended, raced>>

SettleDelivery(n, t, ok) ==
    /\ t \in owed[n]
    /\ owed' = [owed EXCEPT ![n] = @ \ {t}]
    /\ pending' = IF owed'[n] = {} THEN pending \ {n} ELSE pending
    /\ UNCHANGED <<step, cycle, status, loaded, file, appended, raced>>

Handle(a) == Load(a) \/ Replace(a) \/ Notify(a)
Deliver == \E n \in Cycles, t \in Targets, ok \in BOOLEAN : SettleDelivery(n, t, ok)

(***************************************************************************)
(* Properties                                                              *)
(***************************************************************************)

TypeOK ==
    /\ step \in [Appenders -> Steps]
    /\ \A a \in Appenders : cycle[a] \in 0 .. MaxCycles[a]
    /\ status \in [Appenders -> Statuses]
    /\ pending \subseteq Cycles
    /\ owed \in [Cycles -> SUBSET Targets]
    /\ raced \in BOOLEAN

InOrder(events) ==
    \A i, j \in 1 .. Len(events) :
        i < j /\ events[i].by = events[j].by => events[i].cycle < events[j].cycle

\* The history is bounded and holds each event at most once, each appender's in order;
\* and it is the last events recorded, unless two appenders were between read and
\* replacement at the same time (history.ts append is not atomic).
HistoryFaithful ==
    /\ Len(file) <= MaxEvents
    /\ InOrder(file)
    /\ raced \/ file = Kept(appended)
=============================================================================
