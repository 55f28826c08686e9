------------------------------ MODULE McpSessions ------------------------------
(***************************************************************************)
(* The MCP server over HTTP (lib/mcp/http.ts): its table of sessions with  *)
(* a limit and an idle time, the requests that open, use and delete them,  *)
(* the subscribers of /events, and the shutdown of lib/mcp.ts.  One step   *)
(* is what a handler does between two awaits.                              *)
(*                                                                         *)
(* A session is named by the request that opened it.                       *)
(***************************************************************************)
EXTENDS Integers, FiniteSets

CONSTANTS
    Requests,       \* the POST and DELETE requests to /mcp, numbered as they arrive
    Clients,        \* the subscribers of /events
    MaxSessions,    \* maxSessions
    MaxSseClients,  \* maxSseClients
    NoSession

ASSUME RequestAssumption == Requests \subseteq Nat /\ IsFiniteSet(Requests)
ASSUME LimitAssumption  == MaxSessions \in Nat /\ MaxSseClients \in Nat
ASSUME NoSessionAssumption == NoSession \notin Requests

VARIABLES
    pc,          \* where each request is
    target,      \* the session a request names
    cursor,      \* the age up to which a request has scanned the table
    sessions,    \* the session table
    pending,     \* pendingInitializations
    active,      \* activeRequests of each session
    idle,        \* sessions whose idle time has elapsed
    closing,     \* sessions whose closing flag is set
    born,        \* the place of each session in the order of the table; 0 before
    listening,   \* MCP servers listening for cycle events: created and not disposed
    disposals,   \* History: how often each server was disposed by its session's end
    expired,     \* History: sessions closed by idle expiry
    sse,         \* sseClients
    subscribed,  \* clients whose listener is registered
    stalled,     \* clients that do not read
    looping,     \* does the loop of an updater run?
    stage,       \* of the shutdown
    snapshot,    \* the sessions close() took down
    closeList    \* those of them it has still to visit

table    == <<sessions, active, idle, closing, born>>
servers  == <<listening, disposals, expired>>
events   == <<sse, subscribed, stalled, looping>>
request  == <<pc, target, cursor>>
shutdown == <<stage, snapshot, closeList>>
vars     == <<request, table, pending, servers, events, shutdown>>

Pcs    == {"new", "scan", "serving", "deleting", "connecting", "initializing", "opened", "done"}
Stages == {"up", "stopping", "closing", "draining", "exited"}

\* The requests between pendingInitializations += 1 and -= 1.
Initializing == {r \in Requests : pc[r] \in {"connecting", "initializing", "opened"}}
Opened       == {r \in Requests : born[r] # 0}

Init ==
    /\ pc = [r \in Requests |-> "new"]
    /\ target = [r \in Requests |-> NoSession]
    /\ cursor = [r \in Requests |-> 0]
    /\ sessions = {} /\ pending = 0
    /\ active = [r \in Requests |-> 0]
    /\ idle = {} /\ closing = {}
    /\ born = [r \in Requests |-> 0]
    /\ listening = {}
    /\ disposals = [r \in Requests |-> 0]
    /\ expired = {}
    /\ sse = {} /\ subscribed = {} /\ stalled = {} /\ looping = TRUE
    /\ stage = "up" /\ snapshot = {} /\ closeList = {}

Goto(r, label) == pc' = [pc EXCEPT ![r] = label]
Newborn == Cardinality(Opened) + 1

\* dispose(): the server's listener goes.
Dispose(s) ==
    /\ listening' = listening \ {s}
    /\ disposals' = [disposals EXCEPT ![s] = @ + 1]

\* closeSession, up to its first await; transport.close() calls onclose, which finds
\* the entry gone.
CloseSessionUnflagged(s) ==
    /\ closing' = closing \cup {s}
    /\ sessions' = sessions \ {s}
    /\ Dispose(s)

CloseSession(s) ==
    IF s \in closing
      THEN UNCHANGED <<closing, sessions, listening, disposals>>
      ELSE /\ closing' = closing \cup {s}
           /\ sessions' = sessions \ {s}
           /\ Dispose(s)

\* transport.onclose, when the SDK closes the transport by itself.
OnClose(s) ==
    /\ sessions' = sessions \ {s}
    /\ IF s \in sessions /\ s \notin closing
         THEN closing' = closing \cup {s} /\ Dispose(s)
         ELSE UNCHANGED <<closing, listening, disposals>>

(***************************************************************************)
(* Requests                                                                *)
(***************************************************************************)

Arrives(r) ==
    /\ pc[r] = "new"
    /\ \A q \in Requests : q < r => pc[q] # "new"
    /\ stage \notin {"draining", "exited"}

\* A POST comes in: with the id of a session the client was given, or without.
Post(r) ==
    /\ Arrives(r)
    /\ \E s \in Opened \cup {NoSession} : target' = [target EXCEPT ![r] = s]
    /\ Goto(r, "scan")
    /\ UNCHANGED <<cursor, table, pending, servers, events, shutdown>>

\* A DELETE comes in: on a session of the table, or 404.
Delete(r) ==
    /\ Arrives(r)
    /\ \E s \in Opened :
        /\ target' = [target EXCEPT ![r] = s]
        /\ IF s \in sessions
             THEN /\ active' = [active EXCEPT ![s] = @ + 1]
                  /\ idle' = idle \ {s}
                  /\ Goto(r, "deleting")
             ELSE Goto(r, "done") /\ UNCHANGED <<active, idle>>
    /\ UNCHANGED <<cursor, sessions, closing, born, pending, servers, events, shutdown>>

ExpirableBusy(s) == s \in idle
Expirable(s) == active[s] = 0 /\ s \in idle

\* POST: close the sessions that expired, in the order of the table, one at a time.
Expire(r) ==
    LET next == {s \in sessions : Expirable(s) /\ born[s] > cursor[r]}
    IN
    /\ pc[r] = "scan"
    /\ \E s \in next :
        /\ \A t \in next : born[s] <= born[t]
        /\ CloseSession(s)
        /\ expired' = expired \cup {s}
        /\ cursor' = [cursor EXCEPT ![r] = born[s]]
    /\ UNCHANGED <<pc, target, active, idle, born, pending, events, shutdown>>

Scanned(r) ==
    /\ pc[r] = "scan"
    /\ \A s \in sessions : Expirable(s) => born[s] <= cursor[r]

\* A request on a session of the table.
Serve(r) ==
    /\ Scanned(r)
    /\ cursor' = [cursor EXCEPT ![r] = 0]
    /\ target[r] \in sessions
    /\ Goto(r, "serving")
    /\ active' = [active EXCEPT ![target[r]] = @ + 1]
    /\ idle' = idle \ {target[r]}
    /\ UNCHANGED <<target, sessions, closing, born, pending, servers, events, shutdown>>

WithinLimitTable == Cardinality(sessions) < MaxSessions
WithinLimit == Cardinality(sessions) + pending < MaxSessions

RefuseUnknown(r) ==
    /\ Scanned(r)
    /\ cursor' = [cursor EXCEPT ![r] = 0]
    /\ target[r] \notin sessions \cup {NoSession}
    /\ Goto(r, "done")
    /\ UNCHANGED <<target, table, pending, servers, events, shutdown>>

\* 400: a session that is gone, or no session and not an initialize request; 503: the limit.
Refuse(r) ==
    /\ Scanned(r)
    /\ cursor' = [cursor EXCEPT ![r] = 0]
    /\ target[r] \notin sessions
    /\ Goto(r, "done")
    /\ UNCHANGED <<target, table, pending, servers, events, shutdown>>

\* An initialize request: create the server, which starts listening, and connect it.
Admit(r) ==
    /\ Scanned(r)
    /\ cursor' = [cursor EXCEPT ![r] = 0]
    /\ target[r] = NoSession
    /\ WithinLimit
    /\ pending' = pending + 1
    /\ listening' = listening \cup {r}
    /\ Goto(r, "connecting")
    /\ UNCHANGED <<target, table, disposals, expired, events, shutdown>>

Connect(r) ==
    /\ pc[r] = "connecting"
    /\ Goto(r, "initializing")
    /\ UNCHANGED <<target, cursor, table, pending, servers, events, shutdown>>

\* onsessioninitialized: the session enters the table.
SessionInitialized(r) ==
    /\ pc[r] = "initializing"
    /\ sessions' = sessions \cup {r}
    /\ active' = [active EXCEPT ![r] = 1]
    /\ born' = [born EXCEPT ![r] = Newborn]
    /\ Goto(r, "opened")
    /\ UNCHANGED <<target, cursor, idle, closing, pending, servers, events, shutdown>>

\* The finally of an initialisation that has opened a session.
Initialized(r) ==
    /\ pc[r] = "opened"
    /\ pending' = pending - 1
    /\ active' = [active EXCEPT ![r] = @ - 1]
    /\ idle' = idle \ {r}
    /\ Goto(r, "done")
    /\ UNCHANGED <<target, cursor, sessions, closing, born, servers, events, shutdown>>

InitializationFailsUndisposed(r) ==
    /\ pc[r] \in {"connecting", "initializing"}
    /\ pending' = pending - 1
    /\ Goto(r, "done")
    /\ UNCHANGED <<target, cursor, table, servers, events, shutdown>>

\* The finally of one that has not: connect threw, or the transport refused the request.
InitializationFails(r) ==
    /\ pc[r] \in {"connecting", "initializing"}
    /\ pending' = pending - 1
    /\ Dispose(r)
    /\ Goto(r, "done")
    /\ UNCHANGED <<target, cursor, table, expired, events, shutdown>>

\* handleRequest settles; the finally of the handler.
Settle(r) ==
    /\ active' = [active EXCEPT ![target[r]] = @ - 1]
    /\ idle' = idle \ {target[r]}
    /\ Goto(r, "done")

Served(r) ==
    /\ pc[r] = "serving"
    /\ Settle(r)
    /\ UNCHANGED <<target, cursor, sessions, closing, born, pending, servers, events, shutdown>>

\* DELETE: the transport closes the session, or refuses to.
Deleted(r) ==
    /\ pc[r] = "deleting"
    /\ Settle(r)
    /\ \/ OnClose(target[r])
       \/ UNCHANGED <<sessions, closing, listening, disposals>>
    /\ UNCHANGED <<target, cursor, born, pending, expired, events, shutdown>>

\* Time passes: a session has seen no request for sessionIdleMs.
IdleTimeElapses(s) ==
    /\ s \in sessions \ idle
    /\ idle' = idle \cup {s}
    /\ UNCHANGED <<request, sessions, active, closing, born, pending, servers, events, shutdown>>

(***************************************************************************)
(* The subscribers of /events                                              *)
(***************************************************************************)

Subscribe(c) ==
    /\ c \notin subscribed
    /\ stage \notin {"draining", "exited"}
    /\ Cardinality(sse) < MaxSseClients
    /\ sse' = sse \cup {c}
    /\ subscribed' = subscribed \cup {c}
    /\ UNCHANGED <<request, table, pending, servers, stalled, looping, shutdown>>

\* The tools start_loop and stop_loop.
ToggleLoop ==
    /\ stage # "exited"
    /\ looping' = ~looping
    /\ UNCHANGED <<request, table, pending, servers, sse, subscribed, stalled, shutdown>>

CycleEventKept ==
    /\ subscribed # {}
    /\ UNCHANGED vars

\* A cycle of a loop or of a tool call is complete.  The listener: a client that does not
\* take the event is dropped.
CycleEvent ==
    /\ stage # "exited"
    /\ subscribed \cap stalled # {}
    /\ sse' = sse \ stalled
    /\ subscribed' = subscribed \ stalled
    /\ stalled' = {}
    /\ UNCHANGED <<request, table, pending, servers, looping, shutdown>>

StopsReading(c) ==
    /\ c \in subscribed \ stalled
    /\ stalled' = stalled \cup {c}
    /\ UNCHANGED <<request, table, pending, servers, sse, subscribed, looping, shutdown>>

\* req.on('close', cleanup)
Disconnect(c) ==
    /\ c \in subscribed
    /\ sse' = sse \ {c}
    /\ subscribed' = subscribed \ {c}
    /\ stalled' = stalled \ {c}
    /\ UNCHANGED <<request, table, pending, servers, looping, shutdown>>

(***************************************************************************)
(* Shutdown: stop the updaters, flush the notifications, close()           *)
(***************************************************************************)

Shutdown ==
    /\ stage = "up"
    /\ stage' = "stopping"
    /\ looping' = FALSE
    /\ UNCHANGED <<request, table, pending, servers, sse, subscribed, stalled, snapshot, closeList>>

\* close(): end the subscribers and take down the list of the sessions.
BeginClose ==
    /\ stage = "stopping"
    /\ stage' = "closing"
    /\ snapshot' = sessions /\ closeList' = sessions
    /\ sse' = {}
    /\ UNCHANGED <<request, table, pending, servers, subscribed, stalled, looping>>

CloseNext ==
    /\ stage = "closing"
    /\ \E s \in closeList :
        /\ \A t \in closeList : born[s] <= born[t]
        /\ CloseSession(s)
        /\ closeList' = closeList \ {s}
    /\ UNCHANGED <<request, active, idle, born, pending, expired, events, stage, snapshot>>

\* sessions.clear(), then the listening socket is closed.
Clear ==
    /\ stage = "closing" /\ closeList = {}
    /\ sessions' = {}
    /\ stage' = "draining"
    /\ UNCHANGED <<request, active, idle, closing, born, pending, servers, events, snapshot, closeList>>

\* Every connection has ended: the process exits.
Exit ==
    /\ stage = "draining"
    /\ \A r \in Requests : pc[r] \in {"new", "done"}
    /\ subscribed = {}
    /\ stage' = "exited"
    /\ UNCHANGED <<request, table, pending, servers, events, snapshot, closeList>>

(***************************************************************************)
(* The specification                                                       *)
(***************************************************************************)

\* What a request does once it is there.
Proceed(r) ==
    \/ Expire(r) \/ Serve(r) \/ Refuse(r) \/ Admit(r)
    \/ Connect(r) \/ SessionInitialized(r) \/ Initialized(r) \/ InitializationFails(r)
    \/ Served(r) \/ Deleted(r)

Next ==
    \/ \E r \in Requests : Post(r) \/ Delete(r) \/ Proceed(r)
    \/ \E s \in Requests : IdleTimeElapses(s)
    \/ \E c \in Clients : Subscribe(c) \/ StopsReading(c) \/ Disconnect(c)
    \/ CycleEvent \/ ToggleLoop
    \/ Shutdown \/ BeginClose \/ CloseNext \/ Clear \/ Exit

\* A session was closed under its request: the transport may leave the request without
\* an answer.
Abandoned(r) == pc[r] \in {"serving", "deleting"} /\ target[r] \in closing

\* The transport settles what it was handed on an open session, and a loop that runs has
\* its cycles (UpdaterLoop's LoopKeepsChecking).  Nobody is made to send, read, start or
\* stop a loop, or shut down.
Fairness ==
    /\ \A r \in Requests : WF_vars(~Abandoned(r) /\ Proceed(r))
    /\ WF_vars(looping /\ CycleEvent)

Spec == Init /\ [][Next]_vars /\ Fairness

(***************************************************************************)
(* Properties                                                              *)
(***************************************************************************)

TypeOK ==
    /\ pc \in [Requests -> Pcs]
    /\ target \in [Requests -> Requests \cup {NoSession}]
    /\ cursor \in [Requests -> Nat] /\ born \in [Requests -> Nat]
    /\ active \in [Requests -> Int] /\ disposals \in [Requests -> Nat]
    /\ pending \in Int
    /\ sessions \subseteq Requests /\ idle \subseteq Requests /\ closing \subseteq Requests
    /\ listening \subseteq Requests /\ expired \subseteq Requests
    /\ sse \subseteq Clients /\ subscribed \subseteq Clients /\ stalled \subseteq Clients
    /\ looping \in BOOLEAN
    /\ stage \in Stages
    /\ snapshot \subseteq Requests /\ closeList \subseteq Requests

\* However the awaits of concurrent initialisations, expiries and deletions interleave,
\* no more than maxSessions MCP servers are alive (the check of POST /mcp, bridged by
\* pendingInitializations), until close() empties the table.
SessionLimit == stage \notin {"draining", "exited"} => Cardinality(listening) <= MaxSessions

\* Idle expiry never closes a session on which a request is being served, though the
\* idle time elapses while a long tool call runs (activeRequests).
ExpirySparesRequests ==
    \A r \in Requests :
        /\ pc[r] \in {"serving", "deleting"} => target[r] \notin expired
        /\ pc[r] = "opened" => r \notin expired

\* However expiry, DELETE and close() meet on a session, its server is disposed and
\* closed once (closeSession's flag, shared with onclose).
ClosedOnce == \A s \in Requests : disposals[s] <= 1

\* No MCP server and no subscriber keeps a listener on the updater after its session or
\* its stream is gone: a failed initialisation and a dropped client included.  Sessions
\* that open after close() has taken its list down are left to the exit.
NoListenerLeaks ==
    /\ sessions \subseteq listening
    /\ listening \subseteq sessions
            \cup {r \in Requests : pc[r] \in {"connecting", "initializing"}}
            \cup (IF stage \in {"draining", "exited"} THEN Opened \ snapshot ELSE {})
    /\ stage \in {"up", "stopping"} => subscribed = sse

\* Every request is answered, unless its session is closed under it.
RequestsEnd ==
    \A r \in Requests : (pc[r] \notin {"new", "done"}) ~> (pc[r] = "done" \/ Abandoned(r))

\* While a loop runs, a subscriber that does not read loses its listener at a following
\* event, and does not hold memory for ever (the listener of GET /events).  With every
\* loop stopped, by stop_loop or by the shutdown, it keeps the listener until it
\* disconnects: no event comes that would find it.
StalledSubscribersDropped ==
    \A c \in Clients : (c \in stalled) ~> (c \notin subscribed \/ ~looping)
=============================================================================
