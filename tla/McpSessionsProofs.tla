-------------------------- MODULE McpSessionsProofs --------------------------
(***************************************************************************)
(* Proofs about McpSessions, for every number of requests, subscribers,    *)
(* and sessions allowed.                                                   *)
(***************************************************************************)
EXTENDS McpSessions, FiniteSetTheorems, TLAPS

\* The servers that have been created and are not in the table yet.
Entering == {r \in Requests : pc[r] \in {"connecting", "initializing"}}

\* The requests that activeRequests of a session counts.
Users(s) == {r \in Requests : \/ pc[r] \in {"serving", "deleting"} /\ target[r] = s
                              \/ pc[r] = "opened" /\ r = s}

\* What has a place in the table was opened by a request that got that far.
OpenInv ==
    /\ \A r \in Requests : born[r] # 0 => pc[r] \in {"opened", "done"}
    /\ \A r \in Requests : pc[r] = "opened" => born[r] # 0
    /\ \A r \in Requests : pc[r] \in {"serving", "deleting"} => target[r] \in Opened
    /\ sessions \subseteq Opened
    /\ closing \subseteq Opened
    /\ snapshot \subseteq Opened

\* A server listens until it is disposed, which the closing flag or the failure of its
\* initialisation records.
ServerInv ==
    /\ sessions \cup Entering \subseteq listening
    /\ closing \cap listening = {}
    /\ \A s \in Requests :
          disposals[s] # 0 => /\ disposals[s] = 1
                              /\ s \in closing \/ (pc[s] = "done" /\ born[s] = 0)
    /\ expired \subseteq closing

\* close() has closed the sessions of its list that it has visited.
CloseInv ==
    /\ closeList \subseteq snapshot
    /\ snapshot \subseteq closing \cup closeList
    /\ stage \in {"draining", "exited"} => closeList = {}
    /\ NoListenerLeaks

\* pendingInitializations and activeRequests count what they are meant to count, and the
\* servers of the table and those on their way into it fit the limit together.
PendingInv == pending = Cardinality(Initializing)
RoomInv    == Cardinality(sessions \cup Entering) <= MaxSessions
ActiveInv  == \A s \in Requests : active[s] = Cardinality(Users(s))

IInv ==
    /\ TypeOK
    /\ OpenInv
    /\ ServerInv
    /\ CloseInv
    /\ PendingInv
    /\ RoomInv
    /\ ActiveInv
    /\ ExpirySparesRequests

-----------------------------------------------------------------------------

LEMMA Finite ==
    ASSUME NEW S \in SUBSET Requests
    PROVE  IsFiniteSet(S) /\ Cardinality(S) \in Nat
BY RequestAssumption, FS_Subset, FS_CardinalityType

\* A step is one of a request, of a subscriber, of the shutdown, of time, or a stutter.
LEMMA StepCases ==
    ASSUME [Next]_vars
    PROVE  \/ \E r \in Requests :
                \/ Post(r) \/ Delete(r) \/ Expire(r) \/ Serve(r) \/ Refuse(r) \/ Admit(r)
                \/ Connect(r) \/ SessionInitialized(r) \/ Initialized(r)
                \/ InitializationFails(r) \/ Served(r) \/ Deleted(r)
                \/ IdleTimeElapses(r)
           \/ \E c \in Clients : Subscribe(c) \/ StopsReading(c) \/ Disconnect(c)
           \/ CycleEvent \/ ToggleLoop \/ Shutdown \/ BeginClose \/ CloseNext \/ Clear \/ Exit
           \/ UNCHANGED vars
BY DEF Next, Proceed

\* Every variable keeps its type.
LEMMA TypingStep ==
    ASSUME TypeOK, OpenInv, [Next]_vars
    PROVE  TypeOK'
<1> USE NoSessionAssumption
    DEF TypeOK, Pcs, Stages, Goto, vars, table, servers, events, request, shutdown, Opened
<1>1. ASSUME NEW r \in Requests, Post(r) PROVE TypeOK'
  BY <1>1 DEF Post
<1>2. ASSUME NEW r \in Requests, Delete(r) PROVE TypeOK'
  BY <1>2 DEF Delete
<1>3. ASSUME NEW r \in Requests, Expire(r) PROVE TypeOK'
  BY <1>3 DEF Expire, CloseSession, Dispose
<1>4. ASSUME NEW r \in Requests, Serve(r) \/ Refuse(r) \/ Admit(r) \/ Connect(r) PROVE TypeOK'
  BY <1>4 DEF Serve, Refuse, Admit, Connect
<1>5. ASSUME NEW r \in Requests, SessionInitialized(r) PROVE TypeOK'
  <2>1. Newborn \in Nat
    BY Finite DEF Newborn
  <2> QED  BY <1>5, <2>1 DEF SessionInitialized
<1>6. ASSUME NEW r \in Requests, Initialized(r) \/ InitializationFails(r) PROVE TypeOK'
  BY <1>6 DEF Initialized, InitializationFails, Dispose
<1>7. ASSUME NEW r \in Requests, Served(r) PROVE TypeOK'
  <2>1. target[r] \in Requests
    BY <1>7 DEF Served, OpenInv
  <2> QED  BY <1>7, <2>1 DEF Served, Settle
<1>8. ASSUME NEW r \in Requests, Deleted(r) PROVE TypeOK'
  <2>1. target[r] \in Requests
    BY <1>8 DEF Deleted, OpenInv
  <2>2. active' \in [Requests -> Int] /\ idle' \subseteq Requests /\ pc' \in [Requests -> Pcs]
    BY <1>8, <2>1 DEF Deleted, Settle
  <2>3. /\ sessions' \subseteq Requests /\ closing' \subseteq Requests
        /\ listening' \subseteq Requests /\ disposals' \in [Requests -> Nat]
    BY <1>8, <2>1 DEF Deleted, OnClose, Dispose
  <2> QED  BY <1>8, <2>2, <2>3 DEF Deleted
<1>9. ASSUME NEW r \in Requests, IdleTimeElapses(r) PROVE TypeOK'
  BY <1>9 DEF IdleTimeElapses
<1>10. ASSUME NEW c \in Clients, Subscribe(c) \/ StopsReading(c) \/ Disconnect(c) PROVE TypeOK'
  BY <1>10 DEF Subscribe, StopsReading, Disconnect
<1>11. CASE CycleEvent \/ ToggleLoop \/ Shutdown \/ BeginClose \/ Clear \/ Exit
  BY <1>11 DEF CycleEvent, ToggleLoop, Shutdown, BeginClose, Clear, Exit
<1>12. CASE CloseNext
  BY <1>12 DEF CloseNext, CloseSession, Dispose
<1>13. CASE UNCHANGED vars
  BY <1>13
<1> QED
  BY StepCases, <1>1, <1>2, <1>3, <1>4, <1>5, <1>6, <1>7, <1>8, <1>9, <1>10, <1>11, <1>12, <1>13

LEMMA OpenStep ==
    ASSUME TypeOK, OpenInv, closeList \subseteq snapshot, [Next]_vars
    PROVE  OpenInv'
<1> USE NoSessionAssumption
    DEF TypeOK, OpenInv, Goto, vars, table, servers, events, request, shutdown, Opened
<1>1. ASSUME NEW r \in Requests, Post(r) PROVE OpenInv'
  BY <1>1 DEF Post, Arrives
<1>2. ASSUME NEW r \in Requests, Delete(r) PROVE OpenInv'
  BY <1>2 DEF Delete, Arrives
<1>3. ASSUME NEW r \in Requests, Expire(r) PROVE OpenInv'
  BY <1>3 DEF Expire, CloseSession, Dispose
<1>4. ASSUME NEW r \in Requests, Serve(r) PROVE OpenInv'
  BY <1>4 DEF Serve, Scanned
<1>5. ASSUME NEW r \in Requests, Refuse(r) \/ Admit(r) \/ Connect(r) PROVE OpenInv'
  BY <1>5 DEF Refuse, Admit, Connect, Scanned
<1>6. ASSUME NEW r \in Requests, SessionInitialized(r) PROVE OpenInv'
  <2>1. Newborn \in Nat /\ Newborn # 0
    BY Finite DEF Newborn
  <2> QED  BY <1>6, <2>1 DEF SessionInitialized
<1>7. ASSUME NEW r \in Requests, Initialized(r) \/ InitializationFails(r) PROVE OpenInv'
  BY <1>7 DEF Initialized, InitializationFails, Dispose
<1>8. ASSUME NEW r \in Requests, Served(r) PROVE OpenInv'
  BY <1>8 DEF Served, Settle
<1>9. ASSUME NEW r \in Requests, Deleted(r) PROVE OpenInv'
  BY <1>9 DEF Deleted, Settle, OnClose, Dispose
<1>10. ASSUME NEW r \in Requests, IdleTimeElapses(r) PROVE OpenInv'
  BY <1>10 DEF IdleTimeElapses
<1>11. ASSUME NEW c \in Clients, Subscribe(c) \/ StopsReading(c) \/ Disconnect(c) PROVE OpenInv'
  BY <1>11 DEF Subscribe, StopsReading, Disconnect
<1>12. CASE CycleEvent \/ ToggleLoop \/ Shutdown \/ BeginClose \/ Clear \/ Exit
  BY <1>12 DEF CycleEvent, ToggleLoop, Shutdown, BeginClose, Clear, Exit
<1>13. CASE CloseNext
  BY <1>13 DEF CloseNext, CloseSession, Dispose
<1>14. CASE UNCHANGED vars
  BY <1>14
<1> QED
  BY StepCases, <1>1, <1>2, <1>3, <1>4, <1>5, <1>6, <1>7, <1>8, <1>9, <1>10, <1>11, <1>12, <1>13, <1>14

LEMMA ServerStep ==
    ASSUME TypeOK, OpenInv, ServerInv, closeList \subseteq snapshot, [Next]_vars
    PROVE  ServerInv'
<1> USE NoSessionAssumption
    DEF TypeOK, OpenInv, ServerInv, Entering, Goto, vars, table, servers, events, request,
        shutdown, Opened
<1>1. ASSUME NEW r \in Requests, Post(r) PROVE ServerInv'
  BY <1>1 DEF Post, Arrives
<1>2. ASSUME NEW r \in Requests, Delete(r) PROVE ServerInv'
  BY <1>2 DEF Delete, Arrives
<1>3. ASSUME NEW r \in Requests, Expire(r) PROVE ServerInv'
  <2>1. PICK s \in sessions : CloseSession(s) /\ expired' = expired \cup {s}
    BY <1>3 DEF Expire
  <2>2. s \in Requests /\ s \notin closing /\ disposals[s] = 0 /\ s \notin Entering
    BY <2>1
  <2>3. /\ closing' = closing \cup {s} /\ sessions' = sessions \ {s}
        /\ listening' = listening \ {s}
        /\ disposals' = [disposals EXCEPT ![s] = 1]
    BY <2>1, <2>2 DEF CloseSession, Dispose
  <2> QED  BY <1>3, <2>1, <2>2, <2>3 DEF Expire
<1>4. ASSUME NEW r \in Requests, Serve(r) \/ Refuse(r) PROVE ServerInv'
  BY <1>4 DEF Serve, Refuse, Scanned
<1>5. ASSUME NEW r \in Requests, Admit(r) PROVE ServerInv'
  BY <1>5 DEF Admit, Scanned
<1>6. ASSUME NEW r \in Requests, Connect(r) PROVE ServerInv'
  BY <1>6 DEF Connect
<1>7. ASSUME NEW r \in Requests, SessionInitialized(r) PROVE ServerInv'
  <2>1. Newborn \in Nat /\ Newborn # 0
    BY Finite DEF Newborn
  <2> QED  BY <1>7, <2>1 DEF SessionInitialized
<1>8. ASSUME NEW r \in Requests, Initialized(r) PROVE ServerInv'
  BY <1>8 DEF Initialized
<1>9. ASSUME NEW r \in Requests, InitializationFails(r) PROVE ServerInv'
  <2>1. born[r] = 0 /\ r \notin closing /\ r \notin sessions /\ disposals[r] = 0
    BY <1>9 DEF InitializationFails
  <2> QED  BY <1>9, <2>1 DEF InitializationFails, Dispose
<1>10. ASSUME NEW r \in Requests, Served(r) PROVE ServerInv'
  BY <1>10 DEF Served, Settle
<1>11. ASSUME NEW r \in Requests, Deleted(r) PROVE ServerInv'
  <2> DEFINE s == target[r]
  <2>1. s \in Requests /\ s \in Opened
    BY <1>11 DEF Deleted
  <2>2. CASE s \in sessions /\ OnClose(s)
    <3>1. s \notin closing /\ disposals[s] = 0 /\ s \notin Entering
      BY <2>1, <2>2
    <3>2. /\ closing' = closing \cup {s} /\ sessions' = sessions \ {s}
          /\ listening' = listening \ {s}
          /\ disposals' = [disposals EXCEPT ![s] = 1]
      BY <2>1, <2>2, <3>1 DEF OnClose, Dispose
    <3> QED  BY <1>11, <2>1, <3>1, <3>2 DEF Deleted, Settle
  <2>3. CASE UNCHANGED <<sessions, closing, listening, disposals>>
    BY <1>11, <2>3 DEF Deleted, Settle
  <2>4. OnClose(s) \/ UNCHANGED <<sessions, closing, listening, disposals>>
    BY <1>11 DEF Deleted
  <2>5. CASE OnClose(s) /\ s \notin sessions
    <3>1. UNCHANGED <<sessions, closing, listening, disposals>>
      BY <2>5 DEF OnClose
    <3> QED  BY <2>3, <3>1
  <2> QED  BY <2>2, <2>3, <2>4, <2>5
<1>12. ASSUME NEW r \in Requests, IdleTimeElapses(r) PROVE ServerInv'
  BY <1>12 DEF IdleTimeElapses
<1>13. ASSUME NEW c \in Clients, Subscribe(c) \/ StopsReading(c) \/ Disconnect(c) PROVE ServerInv'
  BY <1>13 DEF Subscribe, StopsReading, Disconnect
<1>14. CASE CycleEvent \/ ToggleLoop \/ Shutdown \/ BeginClose \/ Clear \/ Exit
  BY <1>14 DEF CycleEvent, ToggleLoop, Shutdown, BeginClose, Clear, Exit
<1>15. CASE CloseNext
  <2>1. PICK s \in closeList : CloseSession(s)
    BY <1>15 DEF CloseNext
  <2>2. CASE s \in closing
    BY <1>15, <2>1, <2>2 DEF CloseNext, CloseSession
  <2>3. CASE s \notin closing
    <3>1. s \in Requests /\ disposals[s] = 0 /\ s \notin Entering
      BY <2>1, <2>3
    <3>2. /\ closing' = closing \cup {s} /\ sessions' = sessions \ {s}
          /\ listening' = listening \ {s}
          /\ disposals' = [disposals EXCEPT ![s] = 1]
      BY <2>1, <2>3, <3>1 DEF CloseSession, Dispose
    <3> QED  BY <1>15, <2>1, <3>1, <3>2 DEF CloseNext
  <2> QED  BY <2>2, <2>3
<1>16. CASE UNCHANGED vars
  BY <1>16
<1> QED
  BY StepCases, <1>1, <1>2, <1>3, <1>4, <1>5, <1>6, <1>7, <1>8, <1>9, <1>10, <1>11, <1>12,
     <1>13, <1>14, <1>15, <1>16

LEMMA CloseStep ==
    ASSUME TypeOK, OpenInv, ServerInv, CloseInv, [Next]_vars
    PROVE  CloseInv'
<1> USE NoSessionAssumption
    DEF TypeOK, OpenInv, ServerInv, CloseInv, NoListenerLeaks, Entering, Goto, vars, table,
        servers, events, request, shutdown, Opened
<1>1. ASSUME NEW r \in Requests, Post(r) PROVE CloseInv'
  BY <1>1 DEF Post, Arrives
<1>2. ASSUME NEW r \in Requests, Delete(r) PROVE CloseInv'
  BY <1>2 DEF Delete, Arrives
<1>3. ASSUME NEW r \in Requests, Expire(r) PROVE CloseInv'
  <2>1. PICK s \in sessions : CloseSession(s)
    BY <1>3 DEF Expire
  <2>2. closing' = closing \cup {s} /\ sessions' = sessions \ {s} /\ listening' = listening \ {s}
    BY <2>1 DEF CloseSession, Dispose
  <2> QED  BY <1>3, <2>2 DEF Expire
<1>4. ASSUME NEW r \in Requests, Serve(r) \/ Refuse(r) PROVE CloseInv'
  BY <1>4 DEF Serve, Refuse, Scanned
<1>5. ASSUME NEW r \in Requests, Admit(r) PROVE CloseInv'
  BY <1>5 DEF Admit, Scanned
<1>6. ASSUME NEW r \in Requests, Connect(r) PROVE CloseInv'
  BY <1>6 DEF Connect
<1>7. ASSUME NEW r \in Requests, SessionInitialized(r) PROVE CloseInv'
  <2>1. Newborn \in Nat /\ Newborn # 0
    BY Finite DEF Newborn
  <2> QED  BY <1>7, <2>1 DEF SessionInitialized
<1>8. ASSUME NEW r \in Requests, Initialized(r) PROVE CloseInv'
  BY <1>8 DEF Initialized
<1>9. ASSUME NEW r \in Requests, InitializationFails(r) PROVE CloseInv'
  <2>1. r \notin sessions
    BY <1>9 DEF InitializationFails
  <2> QED  BY <1>9, <2>1 DEF InitializationFails, Dispose
<1>10. ASSUME NEW r \in Requests, Served(r) PROVE CloseInv'
  BY <1>10 DEF Served, Settle
<1>11. ASSUME NEW r \in Requests, Deleted(r) PROVE CloseInv'
  <2> DEFINE s == target[r]
  <2>1. CASE s \in sessions /\ OnClose(s)
    <3>1. /\ closing' = closing \cup {s} /\ sessions' = sessions \ {s}
          /\ listening' = listening \ {s}
      BY <2>1 DEF OnClose, Dispose
    <3> QED  BY <1>11, <3>1 DEF Deleted, Settle
  <2>2. CASE UNCHANGED <<sessions, closing, listening, disposals>>
    BY <1>11, <2>2 DEF Deleted, Settle
  <2>3. OnClose(s) \/ UNCHANGED <<sessions, closing, listening, disposals>>
    BY <1>11 DEF Deleted
  <2>4. CASE OnClose(s) /\ s \notin sessions
    <3>1. UNCHANGED <<sessions, closing, listening, disposals>>
      BY <2>4 DEF OnClose
    <3> QED  BY <2>2, <3>1
  <2> QED  BY <2>1, <2>2, <2>3, <2>4
<1>12. ASSUME NEW r \in Requests, IdleTimeElapses(r) PROVE CloseInv'
  BY <1>12 DEF IdleTimeElapses
<1>13. ASSUME NEW c \in Clients, Subscribe(c) \/ StopsReading(c) \/ Disconnect(c) PROVE CloseInv'
  BY <1>13 DEF Subscribe, StopsReading, Disconnect
<1>14. CASE CycleEvent \/ ToggleLoop \/ Shutdown
  BY <1>14 DEF CycleEvent, ToggleLoop, Shutdown
<1>15. CASE BeginClose \/ Exit
  BY <1>15 DEF BeginClose, Exit
<1>16. CASE Clear
  BY <1>16 DEF Clear
<1>17. CASE CloseNext
  <2>1. PICK s \in closeList : CloseSession(s) /\ closeList' = closeList \ {s}
    BY <1>17 DEF CloseNext
  <2>2. closing' = closing \cup {s} /\ sessions' = sessions \ {s} /\ listening' = listening \ {s}
    BY <2>1 DEF CloseSession, Dispose
  <2> QED  BY <1>17, <2>1, <2>2 DEF CloseNext
<1>18. CASE UNCHANGED vars
  BY <1>18
<1> QED
  BY StepCases, <1>1, <1>2, <1>3, <1>4, <1>5, <1>6, <1>7, <1>8, <1>9, <1>10, <1>11, <1>12,
     <1>13, <1>14, <1>15, <1>16, <1>17, <1>18

LEMMA OneMore ==
    ASSUME NEW S \in SUBSET Requests, NEW r \in Requests, r \notin S
    PROVE  Cardinality(S \cup {r}) = Cardinality(S) + 1
BY Finite, FS_AddElement

LEMMA OneLess ==
    ASSUME NEW S \in SUBSET Requests, NEW r \in S
    PROVE  Cardinality(S \ {r}) = Cardinality(S) - 1
BY Finite, FS_RemoveElement

LEMMA Together ==
    ASSUME NEW S \in SUBSET Requests, NEW T \in SUBSET Requests, NEW r \in Requests
    PROVE  Cardinality((S \cup T) \cup {r}) <= Cardinality(S) + Cardinality(T) + 1
<1>1. IsFiniteSet(S) /\ IsFiniteSet(T) /\ IsFiniteSet(S \cup T)
  BY Finite
<1>2. Cardinality(S \cup T) = Cardinality(S) + Cardinality(T) - Cardinality(S \cap T)
  BY <1>1, FS_Union
<1>3. Cardinality((S \cup T) \cup {r}) = IF r \in S \cup T THEN Cardinality(S \cup T)
                                                       ELSE Cardinality(S \cup T) + 1
  BY <1>1, FS_AddElement
<1>4. /\ Cardinality(S) \in Nat /\ Cardinality(T) \in Nat
      /\ Cardinality(S \cap T) \in Nat /\ Cardinality(S \cup T) \in Nat
  BY Finite
<1> QED  BY <1>2, <1>3, <1>4

\* pendingInitializations counts the requests between their admission and their finally.
LEMMA PendingStep ==
    ASSUME TypeOK, OpenInv, PendingInv, [Next]_vars
    PROVE  PendingInv'
<1> USE NoSessionAssumption
    DEF TypeOK, OpenInv, Goto, vars, table, servers, events, request,
        shutdown, Opened
<1>1. ASSUME Initializing' = Initializing, pending' = pending PROVE PendingInv'
  BY <1>1 DEF PendingInv
<1>0. Initializing \in SUBSET Requests
  BY DEF Initializing
<1>2. ASSUME NEW r \in Requests, Post(r) \/ Delete(r) PROVE PendingInv'
  BY <1>1, <1>2 DEF Initializing, Post, Delete, Arrives
<1>3. ASSUME NEW r \in Requests, Expire(r) PROVE PendingInv'
  BY <1>1, <1>3 DEF Initializing, Expire, CloseSession, Dispose
<1>4. ASSUME NEW r \in Requests, Serve(r) \/ Refuse(r) PROVE PendingInv'
  BY <1>1, <1>4 DEF Initializing, Serve, Refuse, Scanned
<1>5. ASSUME NEW r \in Requests, Admit(r) PROVE PendingInv'
  <2>1. Initializing' = Initializing \cup {r} /\ r \notin Initializing
    BY <1>5 DEF Initializing, Admit, Scanned
  <2>2. Cardinality(Initializing') = Cardinality(Initializing) + 1
    BY <1>0, <2>1, OneMore
  <2> QED  BY <1>5, <2>2 DEF Admit, PendingInv
<1>6. ASSUME NEW r \in Requests, Connect(r) PROVE PendingInv'
  BY <1>1, <1>6 DEF Initializing, Connect
<1>7. ASSUME NEW r \in Requests, SessionInitialized(r) PROVE PendingInv'
  BY <1>1, <1>7 DEF Initializing, SessionInitialized
<1>8. ASSUME NEW r \in Requests, Initialized(r) \/ InitializationFails(r) PROVE PendingInv'
  <2>1. Initializing' = Initializing \ {r} /\ r \in Initializing
    BY <1>8 DEF Initializing, Initialized, InitializationFails
  <2>2. Cardinality(Initializing') = Cardinality(Initializing) - 1
    BY <1>0, <2>1, OneLess
  <2> QED  BY <1>8, <2>2 DEF Initialized, InitializationFails, PendingInv
<1>9. ASSUME NEW r \in Requests, Served(r) \/ Deleted(r) PROVE PendingInv'
  BY <1>1, <1>9 DEF Initializing, Served, Deleted, Settle
<1>10. ASSUME NEW r \in Requests, IdleTimeElapses(r) PROVE PendingInv'
  BY <1>1, <1>10 DEF Initializing, IdleTimeElapses
<1>11. ASSUME NEW c \in Clients, Subscribe(c) \/ StopsReading(c) \/ Disconnect(c) PROVE PendingInv'
  BY <1>1, <1>11 DEF Initializing, Subscribe, StopsReading, Disconnect
<1>12. CASE CycleEvent \/ ToggleLoop \/ Shutdown \/ BeginClose \/ CloseNext \/ Clear \/ Exit
  BY <1>1, <1>12 DEF Initializing, CycleEvent, ToggleLoop, Shutdown, BeginClose, CloseNext, Clear, Exit
<1>13. CASE UNCHANGED vars
  BY <1>1, <1>13 DEF Initializing
<1> QED
  BY StepCases, <1>2, <1>3, <1>4, <1>5, <1>6, <1>7, <1>8, <1>9, <1>10, <1>11, <1>12, <1>13

\* Only an admission makes a server, and it has checked that there is room for it.
LEMMA RoomStep ==
    ASSUME TypeOK, OpenInv, PendingInv, RoomInv, closeList \subseteq snapshot, [Next]_vars
    PROVE  RoomInv'
<1> USE NoSessionAssumption
    DEF TypeOK, OpenInv, Goto, vars, table, servers, events, request, shutdown, Opened
<1>0. sessions \cup Entering \in SUBSET Requests
  BY DEF Entering
<1>1. ASSUME sessions' \cup Entering' \subseteq sessions \cup Entering PROVE RoomInv'
  <2>1. Cardinality(sessions' \cup Entering') <= Cardinality(sessions \cup Entering)
    BY <1>0, <1>1, Finite, FS_Subset
  <2>2. /\ Cardinality(sessions \cup Entering) \in Nat
        /\ Cardinality(sessions' \cup Entering') \in Nat
    BY <1>0, <1>1, Finite
  <2> QED  BY <2>1, <2>2, LimitAssumption DEF RoomInv
<1>2. ASSUME NEW r \in Requests, Post(r) \/ Delete(r) PROVE RoomInv'
  BY <1>1, <1>2 DEF Entering, Post, Delete, Arrives
<1>3. ASSUME NEW r \in Requests, Expire(r) PROVE RoomInv'
  BY <1>1, <1>3 DEF Entering, Expire, CloseSession, Dispose
<1>4. ASSUME NEW r \in Requests, Serve(r) \/ Refuse(r) PROVE RoomInv'
  BY <1>1, <1>4 DEF Entering, Serve, Refuse, Scanned
<1>5. ASSUME NEW r \in Requests, Admit(r) PROVE RoomInv'
  <2>1. sessions' \cup Entering' = (sessions \cup Entering) \cup {r}
    BY <1>5 DEF Entering, Admit
  <2>2. /\ sessions \in SUBSET Requests
        /\ Entering \in SUBSET Initializing /\ Initializing \in SUBSET Requests
    BY DEF Initializing, Entering
  <2>3. Cardinality(Entering) <= Cardinality(Initializing)
    BY <2>2, Finite, FS_Subset
  <2>4. Cardinality((sessions \cup Entering) \cup {r})
          <= Cardinality(sessions) + Cardinality(Entering) + 1
    BY <2>2, Together
  <2>5. /\ Cardinality(sessions) \in Nat /\ Cardinality(Entering) \in Nat
        /\ Cardinality(Initializing) \in Nat
        /\ Cardinality((sessions \cup Entering) \cup {r}) \in Nat
    BY <2>2, Finite
  <2>6. Cardinality(sessions) + Cardinality(Initializing) < MaxSessions
    BY <1>5 DEF Admit, WithinLimit, PendingInv
  <2>7. Cardinality((sessions \cup Entering) \cup {r}) <= MaxSessions
    BY <2>3, <2>4, <2>5, <2>6, LimitAssumption
  <2> QED  BY <2>1, <2>7 DEF RoomInv
<1>6. ASSUME NEW r \in Requests, Connect(r) PROVE RoomInv'
  BY <1>1, <1>6 DEF Entering, Connect
<1>7. ASSUME NEW r \in Requests, SessionInitialized(r) PROVE RoomInv'
  BY <1>1, <1>7 DEF Entering, SessionInitialized
<1>8. ASSUME NEW r \in Requests, Initialized(r) \/ InitializationFails(r) PROVE RoomInv'
  BY <1>1, <1>8 DEF Entering, Initialized, InitializationFails
<1>9. ASSUME NEW r \in Requests, Served(r) \/ Deleted(r) PROVE RoomInv'
  BY <1>1, <1>9 DEF Entering, Served, Deleted, Settle, OnClose
<1>10. ASSUME NEW r \in Requests, IdleTimeElapses(r) PROVE RoomInv'
  BY <1>1, <1>10 DEF Entering, IdleTimeElapses
<1>11. ASSUME NEW c \in Clients, Subscribe(c) \/ StopsReading(c) \/ Disconnect(c) PROVE RoomInv'
  BY <1>1, <1>11 DEF Entering, Subscribe, StopsReading, Disconnect
<1>12. CASE CycleEvent \/ ToggleLoop \/ Shutdown \/ BeginClose \/ Clear \/ Exit
  BY <1>1, <1>12 DEF Entering, CycleEvent, ToggleLoop, Shutdown, BeginClose, Clear, Exit
<1>13. CASE CloseNext
  BY <1>1, <1>13 DEF Entering, CloseNext, CloseSession, Dispose
<1>14. CASE UNCHANGED vars
  BY <1>1, <1>14 DEF Entering
<1> QED
  BY StepCases, <1>2, <1>3, <1>4, <1>5, <1>6, <1>7, <1>8, <1>9, <1>10, <1>11, <1>12, <1>13, <1>14

\* A request that comes to a session or leaves it is the only thing that changes the
\* users of one session, and the counts of the others stay.
LEMMA ActiveStep ==
    ASSUME TypeOK, OpenInv, ServerInv, ActiveInv, [Next]_vars
    PROVE  ActiveInv'
<1> USE NoSessionAssumption
    DEF TypeOK, OpenInv, Goto, vars, table, servers, events, request,
        shutdown, Opened
<1>0. \A s \in Requests : Users(s) \in SUBSET Requests
  BY DEF Users
<1>1. ASSUME active' = active, \A s \in Requests : Users(s)' = Users(s) PROVE ActiveInv'
  BY <1>1 DEF ActiveInv
<1>2. ASSUME NEW s \in Requests, NEW r \in Requests, r \notin Users(s),
             Users(s)' = Users(s) \cup {r},
             \A q \in Requests \ {s} : Users(q)' = Users(q),
             active' = [active EXCEPT ![s] = @ + 1]
      PROVE ActiveInv'
  <2>1. Cardinality(Users(s)') = Cardinality(Users(s)) + 1
    BY <1>0, <1>2, OneMore
  <2> QED  BY <1>2, <2>1 DEF ActiveInv
<1>3. ASSUME NEW s \in Requests, NEW r \in Users(s),
             Users(s)' = Users(s) \ {r},
             \A q \in Requests \ {s} : Users(q)' = Users(q),
             active' = [active EXCEPT ![s] = @ - 1]
      PROVE ActiveInv'
  <2>1. Cardinality(Users(s)') = Cardinality(Users(s)) - 1
    BY <1>0, <1>3, OneLess
  <2> QED  BY <1>3, <2>1 DEF ActiveInv
<1>4. ASSUME NEW r \in Requests, Post(r) PROVE ActiveInv'
  BY <1>1, <1>4 DEF Users, Post, Arrives
<1>5. ASSUME NEW r \in Requests, Delete(r) PROVE ActiveInv'
  <2>1. PICK s \in Opened :
          /\ target' = [target EXCEPT ![r] = s]
          /\ IF s \in sessions
               THEN active' = [active EXCEPT ![s] = @ + 1] /\ pc' = [pc EXCEPT ![r] = "deleting"]
               ELSE active' = active /\ pc' = [pc EXCEPT ![r] = "done"]
    BY <1>5 DEF Delete
  <2>2. pc[r] = "new"
    BY <1>5 DEF Delete, Arrives
  <2>3. CASE s \in sessions
    <3>1. r \notin Users(s) /\ Users(s)' = Users(s) \cup {r}
      BY <2>1, <2>2, <2>3 DEF Users
    <3>2. \A q \in Requests \ {s} : Users(q)' = Users(q)
      BY <2>1, <2>2, <2>3 DEF Users
    <3> QED  BY <1>2, <2>1, <2>3, <3>1, <3>2
  <2>4. CASE s \notin sessions
    BY <1>1, <2>1, <2>2, <2>4 DEF Users
  <2> QED  BY <2>3, <2>4
<1>6. ASSUME NEW r \in Requests, Expire(r) PROVE ActiveInv'
  BY <1>1, <1>6 DEF Users, Expire
<1>7. ASSUME NEW r \in Requests, Serve(r) PROVE ActiveInv'
  <2>1. pc[r] = "scan"
    BY <1>7 DEF Serve, Scanned
  <2>2. PICK s \in Requests : s = target[r]
    BY <1>7 DEF Serve
  <2>3. r \notin Users(s) /\ Users(s)' = Users(s) \cup {r}
    BY <1>7, <2>1, <2>2 DEF Serve, Users
  <2>4. \A q \in Requests \ {s} : Users(q)' = Users(q)
    BY <1>7, <2>1, <2>2 DEF Serve, Users
  <2>5. active' = [active EXCEPT ![s] = @ + 1]
    BY <1>7, <2>2 DEF Serve
  <2> QED  BY <1>2, <1>7, <2>3, <2>4, <2>5
<1>8. ASSUME NEW r \in Requests, Refuse(r) \/ Admit(r) \/ Connect(r) PROVE ActiveInv'
  BY <1>1, <1>8 DEF Users, Refuse, Admit, Connect, Scanned
<1>9. ASSUME NEW r \in Requests, SessionInitialized(r) PROVE ActiveInv'
  <2>1. Users(r) = {} /\ Users(r)' = {r}
    BY <1>9 DEF SessionInitialized, Users
  <2>2. \A q \in Requests \ {r} : Users(q)' = Users(q)
    BY <1>9 DEF SessionInitialized, Users
  <2>3. active[r] = 0
    BY <2>1, FS_EmptySet DEF ActiveInv
  <2>4. active' = [active EXCEPT ![r] = @ + 1]
    BY <1>9, <2>3 DEF SessionInitialized
  <2>5. r \notin Users(r) /\ Users(r)' = Users(r) \cup {r}
    BY <2>1
  <2> QED  BY <1>2, <1>9, <2>2, <2>4, <2>5
<1>10. ASSUME NEW r \in Requests, Initialized(r) PROVE ActiveInv'
  <2>1. r \in Users(r) /\ Users(r)' = Users(r) \ {r}
    BY <1>10 DEF Initialized, Users
  <2>2. \A q \in Requests \ {r} : Users(q)' = Users(q)
    BY <1>10 DEF Initialized, Users
  <2>3. active' = [active EXCEPT ![r] = @ - 1]
    BY <1>10 DEF Initialized
  <2> QED  BY <1>3, <2>1, <2>2, <2>3
<1>11. ASSUME NEW r \in Requests, InitializationFails(r) PROVE ActiveInv'
  BY <1>1, <1>11 DEF Users, InitializationFails
<1>12. ASSUME NEW r \in Requests, Served(r) \/ Deleted(r) PROVE ActiveInv'
  <2>1. target[r] \in Requests /\ r \in Users(target[r])
    BY <1>12 DEF Served, Deleted, Users
  <2>2. /\ active' = [active EXCEPT ![target[r]] = @ - 1]
        /\ pc' = [pc EXCEPT ![r] = "done"] /\ UNCHANGED target
    BY <1>12 DEF Served, Deleted, Settle
  <2>3. Users(target[r])' = Users(target[r]) \ {r}
    BY <1>12, <2>1, <2>2 DEF Served, Deleted, Users
  <2>4. \A q \in Requests \ {target[r]} : Users(q)' = Users(q)
    BY <1>12, <2>1, <2>2 DEF Served, Deleted, Users
  <2> QED  BY <1>3, <2>1, <2>2, <2>3, <2>4
<1>13. ASSUME NEW r \in Requests, IdleTimeElapses(r) PROVE ActiveInv'
  BY <1>1, <1>13 DEF Users, IdleTimeElapses
<1>14. ASSUME NEW c \in Clients, Subscribe(c) \/ StopsReading(c) \/ Disconnect(c) PROVE ActiveInv'
  BY <1>1, <1>14 DEF Users, Subscribe, StopsReading, Disconnect
<1>15. CASE CycleEvent \/ ToggleLoop \/ Shutdown \/ BeginClose \/ CloseNext \/ Clear \/ Exit
  BY <1>1, <1>15 DEF Users, CycleEvent, ToggleLoop, Shutdown, BeginClose, CloseNext, Clear, Exit
<1>16. CASE UNCHANGED vars
  BY <1>1, <1>16 DEF Users
<1> QED
  BY StepCases, <1>4, <1>5, <1>6, <1>7, <1>8, <1>9, <1>10, <1>11, <1>12, <1>13, <1>14, <1>15, <1>16

\* A session that expires has no users, and one that has expired gets none.
LEMMA ExpiryStep ==
    ASSUME TypeOK, OpenInv, ServerInv, ActiveInv, ExpirySparesRequests, [Next]_vars
    PROVE  ExpirySparesRequests'
<1> USE NoSessionAssumption
    DEF TypeOK, OpenInv, ServerInv, ExpirySparesRequests, Goto, vars, table, servers, events,
        request, shutdown, Opened
<1>1. ASSUME NEW r \in Requests, Post(r) \/ Delete(r) PROVE ExpirySparesRequests'
  BY <1>1 DEF Post, Delete, Arrives, Entering
<1>2. ASSUME NEW r \in Requests, Expire(r) PROVE ExpirySparesRequests'
  <2>1. PICK s \in sessions : Expirable(s) /\ expired' = expired \cup {s}
    BY <1>2 DEF Expire
  <2>2. IsFiniteSet(Users(s)) /\ Cardinality(Users(s)) = 0
    <3>1. Users(s) \in SUBSET Requests
      BY DEF Users
    <3> QED  BY <2>1, <3>1, Finite DEF Expirable, ActiveInv
  <2>3. Users(s) = {}
    BY <2>2, FS_EmptySet
  <2>4. /\ \A q \in Requests : pc[q] \in {"serving", "deleting"} => target[q] # s
        /\ pc[s] # "opened"
    BY <2>1, <2>3 DEF Users
  <2> QED  BY <1>2, <2>1, <2>4 DEF Expire
<1>3. ASSUME NEW r \in Requests, Serve(r) PROVE ExpirySparesRequests'
  BY <1>3 DEF Serve, Scanned, Entering
<1>4. ASSUME NEW r \in Requests, Refuse(r) \/ Admit(r) \/ Connect(r) PROVE ExpirySparesRequests'
  BY <1>4 DEF Refuse, Admit, Connect, Scanned
<1>5. ASSUME NEW r \in Requests, SessionInitialized(r) PROVE ExpirySparesRequests'
  BY <1>5 DEF SessionInitialized
<1>6. ASSUME NEW r \in Requests, Initialized(r) \/ InitializationFails(r) PROVE ExpirySparesRequests'
  BY <1>6 DEF Initialized, InitializationFails
<1>7. ASSUME NEW r \in Requests, Served(r) \/ Deleted(r) PROVE ExpirySparesRequests'
  BY <1>7 DEF Served, Deleted, Settle
<1>8. ASSUME NEW r \in Requests, IdleTimeElapses(r) PROVE ExpirySparesRequests'
  BY <1>8 DEF IdleTimeElapses
<1>9. ASSUME NEW c \in Clients, Subscribe(c) \/ StopsReading(c) \/ Disconnect(c)
      PROVE ExpirySparesRequests'
  BY <1>9 DEF Subscribe, StopsReading, Disconnect
<1>10. CASE CycleEvent \/ ToggleLoop \/ Shutdown \/ BeginClose \/ CloseNext \/ Clear \/ Exit
  BY <1>10 DEF CycleEvent, ToggleLoop, Shutdown, BeginClose, CloseNext, Clear, Exit
<1>11. CASE UNCHANGED vars
  BY <1>11
<1> QED
  BY StepCases, <1>1, <1>2, <1>3, <1>4, <1>5, <1>6, <1>7, <1>8, <1>9, <1>10, <1>11

-----------------------------------------------------------------------------

LEMMA InitIInv == Init => IInv
<1> SUFFICES ASSUME Init PROVE IInv
  OBVIOUS
<1> USE NoSessionAssumption, LimitAssumption DEF Init
<1>1. TypeOK
  BY DEF TypeOK, Pcs, Stages
<1>2. OpenInv /\ ServerInv /\ CloseInv /\ ExpirySparesRequests
  BY DEF OpenInv, ServerInv, CloseInv, NoListenerLeaks, ExpirySparesRequests, Opened, Entering
<1>3. Initializing = {} /\ sessions \cup Entering = {} /\ \A s \in Requests : Users(s) = {}
  BY DEF Initializing, Entering, Users
<1>4. Cardinality({}) = 0
  BY FS_EmptySet
<1>5. PendingInv
  BY <1>3, <1>4 DEF PendingInv
<1>6. RoomInv
  BY <1>3, <1>4 DEF RoomInv
<1>7. ActiveInv
  BY <1>3, <1>4 DEF ActiveInv
<1> QED  BY <1>1, <1>2, <1>5, <1>6, <1>7 DEF IInv

LEMMA NextIInv == IInv /\ [Next]_vars => IInv'
<1> SUFFICES ASSUME IInv, [Next]_vars PROVE IInv'
  OBVIOUS
<1>1. closeList \subseteq snapshot
  BY DEF IInv, CloseInv
<1>2. TypeOK' /\ OpenInv'
  BY <1>1, TypingStep, OpenStep DEF IInv
<1>3. ServerInv' /\ CloseInv'
  BY <1>1, ServerStep, CloseStep DEF IInv
<1>4. PendingInv' /\ RoomInv'
  BY <1>1, PendingStep, RoomStep DEF IInv
<1>5. ActiveInv' /\ ExpirySparesRequests'
  BY ActiveStep, ExpiryStep DEF IInv
<1> QED  BY <1>2, <1>3, <1>4, <1>5 DEF IInv

LEMMA Invariance == Spec => []IInv
BY InitIInv, NextIInv, PTL DEF Spec

\* TypeOK: every variable of the session table keeps its type, whatever the number of
\* requests and subscribers.
THEOREM TypeCorrect == Spec => []TypeOK
<1>1. IInv => TypeOK
  BY DEF IInv
<1> QED  BY <1>1, Invariance, PTL

\* SessionLimit: until close() has emptied the table no more than maxSessions MCP servers
\* are alive, because an admission counts the sessions and all initialisations under way.
THEOREM LimitIsKept == Spec => []SessionLimit
<1>1. IInv => SessionLimit
  <2> SUFFICES ASSUME IInv, stage \notin {"draining", "exited"}
               PROVE  Cardinality(listening) <= MaxSessions
    BY DEF SessionLimit
  <2>1. listening \subseteq sessions \cup Entering
    BY DEF IInv, CloseInv, NoListenerLeaks, Entering
  <2>2. sessions \cup Entering \in SUBSET Requests
    BY DEF IInv, TypeOK, Entering
  <2>3. Cardinality(listening) <= Cardinality(sessions \cup Entering)
    BY <2>1, <2>2, Finite, FS_Subset
  <2>4. Cardinality(listening) \in Nat /\ Cardinality(sessions \cup Entering) \in Nat
    BY <2>1, <2>2, Finite
  <2> QED  BY <2>3, <2>4, LimitAssumption DEF IInv, RoomInv
<1> QED  BY <1>1, Invariance, PTL

\* ExpirySparesRequests: idle expiry never closes a session that serves a request, because
\* activeRequests counts exactly the requests on it.
THEOREM ExpiryWaits == Spec => []ExpirySparesRequests
<1>1. IInv => ExpirySparesRequests
  BY DEF IInv
<1> QED  BY <1>1, Invariance, PTL

\* ClosedOnce: no server is disposed twice, however expiry, DELETE and close() meet.
THEOREM NeverClosedTwice == Spec => []ClosedOnce
<1>1. IInv => ClosedOnce
  BY DEF IInv, TypeOK, ServerInv, ClosedOnce
<1> QED  BY <1>1, Invariance, PTL

\* NoListenerLeaks: who listens for cycle events has a session or is about to get one, and
\* every subscriber is in the set that is bounded.
THEOREM ListenersGo == Spec => []NoListenerLeaks
<1>1. IInv => NoListenerLeaks
  BY DEF IInv, CloseInv
<1> QED  BY <1>1, Invariance, PTL
=============================================================================
