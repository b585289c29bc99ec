--------------------------- MODULE CircuitBreaker ---------------------------
(***************************************************************************)
(* The transport between spillway and one kcp workspace                    *)
(* (pkg/apiserver/backend.go): a circuit breaker shared by every request,  *)
(* and retries for requests that are safe to replay.                       *)
(*                                                                         *)
(* Each member of Requests is a goroutine that calls RoundTrip again and   *)
(* again.  The breaker's methods hold its mutex for their whole body, so   *)
(* allow and record are single steps; everything between them (the dial,   *)
(* the pause before a retry, the caller going away) interleaves freely     *)
(* with the other requests.                                                *)
(*                                                                         *)
(* Time is a countdown: cooldown is openUntil - now, clamped at 0, and     *)
(* Tick lets one unit pass.                                                *)
(***************************************************************************)
EXTENDS Integers

CONSTANTS
  Requests,          \* goroutines that send requests to this workspace
  Retries,           \* BackendOptions.Retries
  FailureThreshold,  \* BackendOptions.FailureThreshold
  CircuitCooldown,   \* BackendOptions.CircuitCooldown, in ticks
  CallersLeave       \* whether a caller may give up on a request in flight

\* BackendOptions as validateBackend admits them.
ASSUME BackendOptionsAssumption ==
  /\ Retries \in Nat
  /\ FailureThreshold \in Nat \ {0}
  /\ CircuitCooldown \in Nat \ {0}
  /\ CallersLeave \in BOOLEAN

VARIABLES
  state,      \* breaker.state
  failures,   \* breaker.failures
  cooldown,   \* breaker.openUntil - now
  probing,    \* breaker.probing
  up,         \* whether kcp is answering (environment)
  pc,         \* where each request is in RoundTrip
  safe,       \* retriable(req)
  cancelled,  \* req.Context().Err() # nil
  sent,       \* how often the request was put on the wire
  outcome,    \* what the last attempt, or RoundTrip itself, returned
  probes,     \* history: requests in flight that were let through as a probe
  streak      \* history: failures recorded in a row since the circuit closed

breaker == <<state, failures, cooldown, probing>>
request == <<pc, safe, cancelled, sent, outcome>>
history == <<probes, streak>>
vars == <<breaker, up, request, history>>

circuitState == {"closed", "open", "half-open"}
InFlight == {"sending", "backoff", "recording"}

TypeOK ==
  /\ state \in circuitState
  /\ failures \in 0..(FailureThreshold - 1)
  /\ cooldown \in 0..CircuitCooldown
  /\ probing \in BOOLEAN
  /\ up \in BOOLEAN
  /\ pc \in [Requests -> InFlight \cup {"idle"}]
  /\ safe \in [Requests -> BOOLEAN]
  /\ cancelled \in [Requests -> BOOLEAN]
  /\ sent \in [Requests -> 0..(Retries + 1)]
  /\ outcome \in [Requests -> {"none", "ok", "5xx", "error", "circuit_open"}]
  /\ probes \in SUBSET Requests
  /\ streak \in 0..FailureThreshold

-----------------------------------------------------------------------------
newBreaker ==
  /\ state = "closed"
  /\ failures = 0
  /\ cooldown = 0
  /\ probing = FALSE

Init ==
  /\ newBreaker
  /\ up = TRUE
  /\ pc = [r \in Requests |-> "idle"]
  /\ safe = [r \in Requests |-> FALSE]
  /\ cancelled = [r \in Requests |-> FALSE]
  /\ sent = [r \in Requests |-> 0]
  /\ outcome = [r \in Requests |-> "none"]
  /\ probes = {}
  /\ streak = 0

-----------------------------------------------------------------------------
(* breaker.allow.  The half-open case with probing unset is kept although  *)
(* ProbeInFlight shows that no request ever takes it.                      *)

mayPass ==
  \/ state = "closed"
  \/ state = "open" /\ cooldown = 0
  \/ state = "half-open" /\ ~probing

allow(r) ==
  /\ mayPass
  /\ state' = IF state = "open" THEN "half-open" ELSE state
  /\ probing' = (probing \/ state # "closed")
  /\ probes' = IF state # "closed" THEN probes \cup {r} ELSE probes
  /\ UNCHANGED <<failures, cooldown, streak>>

refuse == ~mayPass /\ UNCHANGED <<breaker, history>>

(* breaker.record *)

\* Faulty: the count of failures survives a success.
recordSuccess_KeepsFailures(r) ==
  /\ probing' = FALSE
  /\ state' = "closed"
  /\ streak' = 0
  /\ probes' = probes \ {r}
  /\ UNCHANGED <<failures, cooldown>>

\* Faulty: the circuit is not closed again.
recordSuccess_KeepsState(r) ==
  /\ failures' = 0
  /\ probing' = FALSE
  /\ streak' = 0
  /\ probes' = probes \ {r}
  /\ UNCHANGED <<state, cooldown>>

recordSuccess(r) ==
  /\ failures' = 0
  /\ probing' = FALSE
  /\ state' = "closed"
  /\ streak' = 0
  /\ probes' = probes \ {r}
  /\ UNCHANGED cooldown

\* Faulty: one failure too many is tolerated.
recordFailure_OffByOne(r) ==
  LET opens == state = "half-open" \/ failures + 1 > FailureThreshold
  IN /\ failures' = IF opens THEN 0 ELSE failures + 1
     /\ probing' = (probing /\ ~opens)
     /\ cooldown' = IF opens THEN CircuitCooldown ELSE cooldown
     /\ state' = IF opens THEN "open" ELSE state
     /\ streak' = IF state = "closed" THEN streak + 1 ELSE 0
     /\ probes' = probes \ {r}

recordFailure(r) ==
  LET opens == state = "half-open" \/ failures + 1 >= FailureThreshold
  IN /\ failures' = IF opens THEN 0 ELSE failures + 1
     /\ probing' = (probing /\ ~opens)
     /\ cooldown' = IF opens THEN CircuitCooldown ELSE cooldown
     /\ state' = IF opens THEN "open" ELSE state
     /\ streak' = IF state = "closed" THEN streak + 1 ELSE 0
     /\ probes' = probes \ {r}

-----------------------------------------------------------------------------
(* backendTransport.RoundTrip *)

\* RoundTrip asks the breaker and dials; isSafe is retriable(req).
Begin(r, isSafe) ==
  /\ pc[r] = "idle"
  /\ allow(r)
  /\ pc' = [pc EXCEPT ![r] = "sending"]
  /\ safe' = [safe EXCEPT ![r] = isSafe]
  /\ sent' = [sent EXCEPT ![r] = 1]
  /\ outcome' = [outcome EXCEPT ![r] = "none"]
  /\ UNCHANGED <<up, cancelled>>

\* RoundTrip returns errCircuitOpen without dialing.
FailFast(r) ==
  /\ pc[r] = "idle"
  /\ refuse
  /\ outcome' = [outcome EXCEPT ![r] = "circuit_open"]
  /\ UNCHANGED <<up, pc, safe, cancelled, sent>>

\* base.RoundTrip returns.  A kcp that is up answers every request whose
\* caller is still there; one that is down answers 5xx or not at all.  A
\* 4xx is "ok" here: the breaker treats it as a success.
attemptResults(r) ==
  (IF up THEN {"ok"} ELSE {"5xx", "error"})
     \cup (IF cancelled[r] THEN {"error"} ELSE {})

\* Faulty: any request is replayed.
triesAgain_Unsafe(r, result) ==
  /\ result = "error"
  /\ sent[r] <= Retries
  /\ ~cancelled[r]

\* roundTripWithRetries after an attempt: only an error of a safe request
\* with attempts left, and a caller still waiting, leads to another one.
triesAgain(r, result) ==
  /\ result = "error"
  /\ safe[r]
  /\ sent[r] <= Retries
  /\ ~cancelled[r]

AttemptReturns(r) ==
  /\ pc[r] = "sending"
  /\ \E result \in attemptResults(r) :
       /\ outcome' = [outcome EXCEPT ![r] = result]
       /\ pc' = [pc EXCEPT ![r] =
                   IF triesAgain(r, result) THEN "backoff" ELSE "recording"]
  /\ UNCHANGED <<breaker, up, safe, cancelled, sent, history>>

\* The select on timer.C and req.Context().Done(): either may win once the
\* caller has left.
Retry(r) ==
  /\ pc[r] = "backoff"
  /\ pc' = [pc EXCEPT ![r] = "sending"]
  /\ sent' = [sent EXCEPT ![r] = @ + 1]
  /\ UNCHANGED <<breaker, up, safe, cancelled, outcome, history>>

\* Faulty: RoundTrip returns without telling the breaker.
GiveUp_Unrecorded(r) ==
  /\ pc[r] = "backoff"
  /\ cancelled[r]
  /\ pc' = [pc EXCEPT ![r] = "idle"]
  /\ cancelled' = [cancelled EXCEPT ![r] = FALSE]
  /\ sent' = [sent EXCEPT ![r] = 0]
  /\ UNCHANGED <<breaker, up, safe, outcome, history>>

GiveUp(r) ==
  /\ pc[r] = "backoff"
  /\ cancelled[r]
  /\ pc' = [pc EXCEPT ![r] = "recording"]
  /\ UNCHANGED <<breaker, up, safe, cancelled, sent, outcome, history>>

\* The outcome is folded into the breaker and RoundTrip returns.
Record(r) ==
  /\ pc[r] = "recording"
  /\ IF outcome[r] = "ok" THEN recordSuccess(r) ELSE recordFailure(r)
  /\ pc' = [pc EXCEPT ![r] = "idle"]
  /\ cancelled' = [cancelled EXCEPT ![r] = FALSE]
  /\ sent' = [sent EXCEPT ![r] = 0]
  /\ UNCHANGED <<up, safe, outcome>>

-----------------------------------------------------------------------------
(* The environment *)

\* The caller's context is cancelled.
CallerLeaves(r) ==
  /\ CallersLeave
  /\ pc[r] \in {"sending", "backoff"}
  /\ ~cancelled[r]
  /\ cancelled' = [cancelled EXCEPT ![r] = TRUE]
  /\ UNCHANGED <<breaker, up, pc, safe, sent, outcome, history>>

KcpChanges == up' = ~up /\ UNCHANGED <<breaker, request, history>>

Tick ==
  /\ cooldown > 0
  /\ cooldown' = cooldown - 1
  /\ UNCHANGED <<state, failures, probing, up, request, history>>

-----------------------------------------------------------------------------
Step(r) ==
  \/ \E isSafe \in BOOLEAN : Begin(r, isSafe)
  \/ FailFast(r)
  \/ AttemptReturns(r)
  \/ Retry(r)
  \/ GiveUp(r)
  \/ Record(r)
  \/ CallerLeaves(r)

Next == (\E r \in Requests : Step(r)) \/ KcpChanges \/ Tick

Spec == Init /\ [][Next]_vars

\* Nothing makes callers arrive, leave, or kcp recover.  What RoundTrip does
\* itself happens: every attempt ends (the request deadline, or for a watch
\* the response header timeout, bounds it), pauses are timers, and clocks run.
Fairness ==
  /\ WF_vars(Tick)
  /\ \A r \in Requests :
       WF_vars(AttemptReturns(r) \/ Retry(r) \/ GiveUp(r) \/ Record(r))

FairSpec == Spec /\ Fairness

-----------------------------------------------------------------------------
(* Properties *)

\* While the circuit is half-open allow refuses everyone, so a request that
\* was let through as a probe must still be on its way to record; were it
\* gone, the workspace would stay cut off until a restart.
ProbeInFlight ==
  state = "half-open" =>
    /\ probing
    /\ \E r \in probes : pc[r] \in InFlight

\* roundTripWithRetries puts nothing but a retriable request on the wire
\* twice, and then at most Retries more times, whatever the other requests
\* and the callers do meanwhile: a replayed create would make the object
\* twice.
ReplaysAreSafeAndBounded ==
  \A r \in Requests :
    /\ sent[r] <= Retries + 1
    /\ sent[r] > 1 => safe[r]

\* breaker.failures, while the circuit is closed, is the number of failures
\* recorded since the last success or since the circuit closed: failures of
\* requests that straggled in while it was open are never carried over.
FailuresAreConsecutive == state = "closed" => failures = streak

\* record opens a closed circuit only on FailureThreshold failures in a row
\* with no success between them, and each opening waits out a full cooldown.
OpensAtThreshold ==
  [][state = "closed" /\ state' = "open" =>
       streak' = FailureThreshold /\ cooldown' = CircuitCooldown]_vars

\* allow and record never let the circuit refuse requests for good: time and
\* again it is closed, or its cooldown is over and the next request becomes
\* the probe.  Holds without assuming that any request arrives.
NeverCutOff == []<>(state = "closed" \/ (state = "open" /\ cooldown = 0))

\* If kcp comes back to stay and callers stop leaving, the circuit stops
\* refusing requests for good, except the ones that wait for a probe that is
\* about to succeed.  A caller who leaves counts as a failure of kcp, so
\* without the second condition the circuit may open again and again.
Heals ==
  <>[](up /\ \A r \in Requests : ~cancelled[r]) =>
    <>[](state = "closed" \/ (state = "open" /\ cooldown = 0))

=============================================================================
