------------------------------ MODULE Discovery ------------------------------
(***************************************************************************)
(* discoverPublicIP of lib/ip.ts: both families are looked up at the same  *)
(* time, each at the HTTPS echo services in turn and then, as a fallback,  *)
(* by DNS, under one deadline for all.                                     *)
(***************************************************************************)
EXTENDS Naturals

CONSTANTS
    Families,     \* {"v4", "v6"}
    Endpoints,    \* how many HTTPS echo services there are
    DnsFallback   \* dnsFallback

VARIABLES
    at,         \* what each family waits for
    tried,      \* how many HTTPS services have been given up
    queried,    \* the DNS resolvers that have been asked
    aborted,    \* the deadline has passed
    orphaned    \* History: families with a DNS query whose failure nobody handles

vars == <<at, tried, queried, aborted, orphaned>>

\* "resolve": the host of the service is resolved and checked; "request": its answer.
Waiting   == {"resolve", "request", "opendns", "google"}
Settled   == {"found", "failed"}
Resolvers == {"opendns", "google"}

Init ==
    /\ at = [f \in Families |-> "idle"]
    /\ tried = [f \in Families |-> 0]
    /\ queried = [f \in Families |-> {}]
    /\ aborted = FALSE
    /\ orphaned = {}

Running == \E f \in Families : at[f] \in Waiting

Restart(label) ==
    /\ at' = [f \in Families |-> label]
    /\ tried' = [f \in Families |-> 0]
    /\ queried' = [f \in Families |-> {}]
    /\ aborted' = FALSE
    /\ UNCHANGED orphaned

Begin == ~Running /\ Restart("resolve")

\* The result has been taken: nothing is left of the lookup.
End == ~Running /\ Restart("idle")

Goto(f, label) == at' = [at EXCEPT ![f] = label]

\* withTimeout: under an aborted signal it throws at once and nobody listens to the
\* query that was already made.
WithTimeout(f, query) ==
    /\ queried' = [queried EXCEPT ![f] = @ \cup {query}]
    /\ IF aborted
         THEN Goto(f, "failed") /\ orphaned' = orphaned \cup {f}
         ELSE Goto(f, query) /\ UNCHANGED orphaned

\* Every HTTPS service failed.
FallBackUnchecked(f) ==
    IF ~DnsFallback
      THEN Goto(f, "failed") /\ UNCHANGED <<queried, orphaned>>
      ELSE WithTimeout(f, "opendns")

FallBackHttpsOnly(f) == Goto(f, "failed") /\ UNCHANGED <<queried, orphaned>>

FallBack(f) ==
    IF aborted \/ ~DnsFallback
      THEN Goto(f, "failed") /\ UNCHANGED <<queried, orphaned>>
      ELSE WithTimeout(f, "opendns")

\* One service failed: the next one, or the fallback.
NextEndpoint(f) ==
    /\ tried' = [tried EXCEPT ![f] = @ + 1]
    /\ IF tried'[f] < Endpoints
         THEN Goto(f, "resolve") /\ UNCHANGED <<queried, orphaned>>
         ELSE FallBack(f)

\* assertResolvedHttpsHostSafe: not interrupted by the deadline, which is noticed only
\* when the request is made.
HostResolved(f, safe) ==
    /\ at[f] = "resolve"
    /\ IF safe
         THEN /\ Goto(f, IF aborted THEN "failed" ELSE "request")
              /\ UNCHANGED <<tried, queried, orphaned>>
         ELSE NextEndpoint(f)
    /\ UNCHANGED aborted

\* The answer: an address of the family; or an error, a bad status, a redirect to
\* another host, a body that is no address.
HttpsAnswers(f, valid) ==
    /\ at[f] = "request" /\ ~aborted
    /\ IF valid
         THEN Goto(f, "found") /\ UNCHANGED <<tried, queried, orphaned>>
         ELSE NextEndpoint(f)
    /\ UNCHANGED aborted

OpenDnsAnswers(f, valid) ==
    /\ at[f] = "opendns" /\ ~aborted
    /\ IF valid
         THEN Goto(f, "found") /\ UNCHANGED <<queried, orphaned>>
         ELSE WithTimeout(f, "google")
    /\ UNCHANGED <<tried, aborted>>

GoogleAnswers(f, valid) ==
    /\ at[f] = "google" /\ ~aborted
    /\ Goto(f, IF valid THEN "found" ELSE "failed")
    /\ UNCHANGED <<tried, queried, aborted, orphaned>>

\* Under an aborted signal a request and a query reject; the answer, should it come,
\* changes nothing.
TimesOut(f) ==
    /\ at[f] \in {"request", "opendns", "google"} /\ aborted
    /\ Goto(f, "failed")
    /\ UNCHANGED <<tried, queried, aborted, orphaned>>

\* The timer: cleared when both families have settled.
Deadline ==
    /\ Running /\ ~aborted
    /\ aborted' = TRUE
    /\ UNCHANGED <<at, tried, queried, orphaned>>

Step(f) ==
    \/ TimesOut(f)
    \/ \E b \in BOOLEAN :
        HostResolved(f, b) \/ HttpsAnswers(f, b) \/ OpenDnsAnswers(f, b) \/ GoogleAnswers(f, b)

Next == Deadline \/ \E f \in Families : Step(f)

(***************************************************************************)
(* Properties                                                              *)
(***************************************************************************)

TypeOK ==
    /\ at \in [Families -> Waiting \cup Settled \cup {"idle"}]
    /\ tried \in [Families -> 0 .. Endpoints]
    /\ queried \in [Families -> SUBSET Resolvers]
    /\ aborted \in BOOLEAN
    /\ orphaned \subseteq Families

\* A family is reported missing only after the deadline, or when every HTTPS service
\* and, if allowed, each DNS resolver has been asked; and DNS, whose answers can be forged,
\* is asked only when every HTTPS service has failed (the comment at the head of ip.ts).
SourcesExhausted ==
    \A f \in Families :
        /\ at[f] = "failed" =>
             aborted \/ (tried[f] = Endpoints /\ (DnsFallback => queried[f] = Resolvers))
        /\ queried[f] # {} => DnsFallback /\ tried[f] = Endpoints

\* No DNS query is made after the deadline: withTimeout would leave its promise without
\* a handler, and its later failure would end the process as an unhandled rejection
\* (the checks of signal.aborted in discoverFamily).
NoQueryAfterDeadline == orphaned = {}
=============================================================================
