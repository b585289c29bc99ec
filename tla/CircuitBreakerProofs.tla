------------------------ MODULE CircuitBreakerProofs ------------------------
(***************************************************************************)
(* Safety of the circuit breaker for any number of concurrent requests,    *)
(* any retry budget, threshold and cooldown.                               *)
(*                                                                         *)
(* None of the properties is inductive alone.  That a half-open circuit    *)
(* has a probe in flight needs that every member of probes is in flight;   *)
(* that only safe requests are replayed needs that a request that pauses   *)
(* before a retry is safe and has attempts left; that failures stays below *)
(* the threshold needs that it is what streak counts.                      *)
(***************************************************************************)
EXTENDS CircuitBreaker, TLAPS

ProbesInFlight == \A r \in probes : pc[r] \in InFlight

HalfOpenHasProbe == state = "half-open" => probing /\ probes # {}

RetriesLeft ==
  \A r \in Requests :
    /\ pc[r] = "backoff" => safe[r] /\ sent[r] <= Retries
    /\ sent[r] > 1 => safe[r]

IInv ==
  /\ TypeOK
  /\ ProbesInFlight
  /\ HalfOpenHasProbe
  /\ RetriesLeft
  /\ FailuresAreConsecutive

\* The options validateBackend admits, as the arithmetic below needs them.
LEMMA Options ==
  /\ Retries \in Nat
  /\ FailureThreshold \in Nat /\ FailureThreshold >= 1
  /\ CircuitCooldown \in Nat /\ CircuitCooldown >= 1
  BY BackendOptionsAssumption

USE Options

\* A new breaker, with no request in flight, satisfies the invariant.
LEMMA InitInvariant == Init => IInv
<1> SUFFICES ASSUME Init PROVE IInv
  OBVIOUS
<1> USE DEF Init, newBreaker
<1>1. TypeOK
  <2>1. /\ state \in circuitState
        /\ failures \in 0..(FailureThreshold - 1)
        /\ cooldown \in 0..CircuitCooldown
        /\ sent \in [Requests -> 0..(Retries + 1)]
    BY DEF circuitState
  <2>2. streak \in 0..FailureThreshold
    OBVIOUS
  <2>3. /\ pc \in [Requests -> InFlight \cup {"idle"}]
        /\ outcome \in
             [Requests -> {"none", "ok", "5xx", "error", "circuit_open"}]
        /\ probes \in SUBSET Requests
    BY DEF InFlight
  <2>4. /\ probing \in BOOLEAN /\ up \in BOOLEAN
        /\ safe \in [Requests -> BOOLEAN]
        /\ cancelled \in [Requests -> BOOLEAN]
    OBVIOUS
  <2> QED BY <2>1, <2>2, <2>3, <2>4 DEF TypeOK
<1>2. ProbesInFlight /\ HalfOpenHasProbe /\ RetriesLeft
  BY DEF ProbesInFlight, HalfOpenHasProbe, RetriesLeft
<1>3. FailuresAreConsecutive
  BY DEF FailuresAreConsecutive
<1> QED BY <1>1, <1>2, <1>3 DEF IInv

\* breaker.allow admitting a request (backend.go:92) preserves the invariant.
LEMMA BeginPreserves ==
  ASSUME IInv, NEW r \in Requests, NEW isSafe \in BOOLEAN, Begin(r, isSafe)
  PROVE  IInv'
<1> USE DEF IInv, Begin, allow, mayPass
<1>1. TypeOK'
  BY DEF TypeOK, circuitState, InFlight
<1>2. ProbesInFlight'
  BY DEF ProbesInFlight, TypeOK, InFlight
<1>3. HalfOpenHasProbe'
  BY DEF HalfOpenHasProbe, TypeOK, circuitState
<1>4. RetriesLeft'
  BY DEF RetriesLeft, TypeOK
<1>5. FailuresAreConsecutive'
  BY DEF FailuresAreConsecutive, TypeOK, circuitState
<1> QED BY <1>1, <1>2, <1>3, <1>4, <1>5

\* breaker.record (backend.go:117), for either outcome, preserves the
\* invariant: it never leaves the circuit half-open.
LEMMA RecordPreserves ==
  ASSUME IInv, NEW r \in Requests, Record(r)
  PROVE  IInv'
<1> USE DEF IInv, Record
<1>1. CASE outcome[r] = "ok"
  <2>1. recordSuccess(r)
    BY <1>1
  <2>2. TypeOK'
    <3>1. /\ failures' \in 0..(FailureThreshold - 1)
          /\ sent' \in [Requests -> 0..(Retries + 1)]
      BY <2>1 DEF recordSuccess, TypeOK
    <3>2. streak' \in 0..FailureThreshold
      BY <2>1 DEF recordSuccess
    <3>3. /\ pc' \in [Requests -> InFlight \cup {"idle"}]
          /\ cancelled' \in [Requests -> BOOLEAN]
      BY DEF TypeOK
    <3> QED
      BY <2>1, <3>1, <3>2, <3>3 DEF recordSuccess, TypeOK, circuitState
  <2>3. ProbesInFlight' /\ HalfOpenHasProbe'
    BY <2>1 DEF recordSuccess, ProbesInFlight, HalfOpenHasProbe, TypeOK
  <2>4. RetriesLeft'
    BY DEF RetriesLeft, TypeOK
  <2>5. FailuresAreConsecutive'
    BY <2>1 DEF recordSuccess, FailuresAreConsecutive
  <2> QED BY <2>2, <2>3, <2>4, <2>5
<1>2. CASE outcome[r] # "ok"
  <2>1. recordFailure(r)
    BY <1>2
  <2>2. TypeOK'
    BY <2>1 DEF recordFailure, TypeOK, FailuresAreConsecutive,
                circuitState, InFlight
  <2>3. ProbesInFlight' /\ HalfOpenHasProbe'
    BY <2>1 DEF recordFailure, ProbesInFlight, HalfOpenHasProbe, TypeOK
  <2>4. RetriesLeft'
    BY DEF RetriesLeft, TypeOK
  <2>5. FailuresAreConsecutive'
    BY <2>1 DEF recordFailure, FailuresAreConsecutive,
                TypeOK
  <2> QED BY <2>2, <2>3, <2>4, <2>5
<1> QED BY <1>1, <1>2

\* The attempts of roundTripWithRetries (backend.go:193) preserve the
\* invariant: they leave the breaker alone.
LEMMA AttemptPreserves ==
  ASSUME IInv, NEW r \in Requests,
         \/ FailFast(r) \/ AttemptReturns(r) \/ Retry(r) \/ GiveUp(r)
         \/ CallerLeaves(r)
  PROVE  IInv'
<1> USE DEF IInv, TypeOK, ProbesInFlight, HalfOpenHasProbe, RetriesLeft,
            FailuresAreConsecutive, breaker, history
<1>1. CASE FailFast(r)
  BY <1>1 DEF FailFast, refuse
<1>2. CASE AttemptReturns(r)
  <2>1. PICK result \in attemptResults(r) :
          /\ outcome' = [outcome EXCEPT ![r] = result]
          /\ pc' = [pc EXCEPT ![r] = IF triesAgain(r, result)
                                     THEN "backoff" ELSE "recording"]
    BY <1>2 DEF AttemptReturns
  <2>2. result \in {"ok", "5xx", "error"}
    BY DEF attemptResults
  <2>3. TypeOK'
    BY <1>2, <2>1, <2>2 DEF AttemptReturns, InFlight
  <2>4. ProbesInFlight' /\ HalfOpenHasProbe'
    BY <1>2, <2>1 DEF AttemptReturns, InFlight
  <2>5. RetriesLeft'
    BY <1>2, <2>1 DEF AttemptReturns, triesAgain
  <2>6. FailuresAreConsecutive'
    BY <1>2 DEF AttemptReturns
  <2> QED BY <2>3, <2>4, <2>5, <2>6
<1>3. CASE Retry(r)
  BY <1>3 DEF Retry, InFlight
<1>4. CASE GiveUp(r)
  BY <1>4 DEF GiveUp, InFlight
<1>5. CASE CallerLeaves(r)
  BY <1>5 DEF CallerLeaves
<1> QED BY <1>1, <1>2, <1>3, <1>4, <1>5

\* Every step of the transport and of its environment preserves the invariant.
LEMMA NextInvariant == IInv /\ [Next]_vars => IInv'
<1> SUFFICES ASSUME IInv, [Next]_vars PROVE IInv'
  OBVIOUS
<1>1. CASE \E r \in Requests : Step(r)
  BY <1>1, BeginPreserves, RecordPreserves, AttemptPreserves DEF Step
<1>2. CASE KcpChanges \/ UNCHANGED vars
  BY <1>2 DEF KcpChanges, vars, breaker, request, history, IInv, TypeOK,
              ProbesInFlight, HalfOpenHasProbe, RetriesLeft,
              FailuresAreConsecutive
<1>3. CASE Tick
  <2>1. cooldown' \in 0..CircuitCooldown
    BY <1>3 DEF Tick, IInv, TypeOK
  <2> QED
    BY <1>3, <2>1 DEF Tick, request, history, IInv, TypeOK, ProbesInFlight,
                      HalfOpenHasProbe, RetriesLeft, FailuresAreConsecutive
<1> QED BY <1>1, <1>2, <1>3 DEF Next

\* The invariant holds in every reachable state.
THEOREM Invariance == Spec => []IInv
  BY InitInvariant, NextInvariant, PTL DEF Spec

\* The breaker's fields and the requests' progress stay within their types;
\* in particular failures never reaches FailureThreshold (backend.go:131).
THEOREM TypeCorrect == Spec => []TypeOK
  BY Invariance, PTL DEF IInv

\* A half-open circuit always has a probe on its way to record
\* (backend.go:101-110), for any number of stragglers.
THEOREM ProbeInFlightHolds == Spec => []ProbeInFlight
<1>1. IInv => ProbeInFlight
  BY DEF IInv, ProbesInFlight, HalfOpenHasProbe, ProbeInFlight
<1> QED BY <1>1, Invariance, PTL

\* Only retriable requests are put on the wire again, at most Retries times
\* (backend.go:193-230).
THEOREM ReplaysHold == Spec => []ReplaysAreSafeAndBounded
<1>1. IInv => \A r \in Requests : sent[r] <= Retries + 1
  BY DEF IInv, TypeOK
<1>2. IInv => ReplaysAreSafeAndBounded
  BY <1>1 DEF IInv, RetriesLeft, ReplaysAreSafeAndBounded
<1> QED BY <1>2, Invariance, PTL

\* breaker.failures counts consecutive failures since the circuit closed
\* (backend.go:117-137).
THEOREM FailuresConsecutiveHolds == Spec => []FailuresAreConsecutive
  BY Invariance, PTL DEF IInv

\* A closed circuit opens only on FailureThreshold failures in a row, and
\* then for a full cooldown (backend.go:131-135).
THEOREM OpensAtThresholdHolds == Spec => OpensAtThreshold
<1> DEFINE Opening == state = "closed" /\ state' = "open" =>
                        streak' = FailureThreshold
                          /\ cooldown' = CircuitCooldown
<1>1. IInv /\ [Next]_vars => [Opening]_vars
  <2> SUFFICES ASSUME IInv, Next, state = "closed", state' = "open"
               PROVE  streak' = FailureThreshold
                        /\ cooldown' = CircuitCooldown
    OBVIOUS
  <2>1. PICK r \in Requests : Record(r) /\ outcome[r] # "ok"
    BY DEF Next, Step, Begin, allow, FailFast, refuse, AttemptReturns, Retry,
           GiveUp, CallerLeaves, KcpChanges, Tick, breaker, Record,
           recordSuccess
  <2>2. recordFailure(r)
    BY <2>1 DEF Record
  <2> QED
    BY <2>2 DEF recordFailure, IInv, TypeOK, FailuresAreConsecutive
<1> QED BY <1>1, Invariance, PTL DEF Spec, OpensAtThreshold
=============================================================================
