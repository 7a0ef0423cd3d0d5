---------------------------- MODULE CircuitBreaker ----------------------------
(***************************************************************************)
(* One circuit breaker (arr_clients/circuit_breaker.py) and the retry loops *)
(* that run inside it (arr_clients/retry.py, db/utils.py).  The coroutines  *)
(* of a scan call the same service side by side; a call that was let in     *)
(* while the breaker was closed may come back long after it has opened,     *)
(* been probed, or closed again.                                           *)
(***************************************************************************)
EXTENDS Integers

CONSTANTS
    Callers,      \* coroutines that call the service
    Nobody,     \* the probe lock is free
    Threshold,  \* failure_threshold
    Recovery,   \* recovery_timeout, in ticks of the clock
    Retries,    \* attempts of one retry sequence
    MaxCount    \* bound: _failure_count stops counting here

ASSUME BreakerConstants ==
    /\ Nobody \notin Callers
    /\ Threshold \in Nat \ {0}
    /\ Recovery \in Nat \ {0}
    /\ Retries \in Nat \ {0}
    /\ MaxCount \in Nat
    /\ Threshold <= MaxCount

VARIABLES
    status,    \* _state: "closed" or "open"
    failures,  \* _failure_count
    cooling,   \* what is left of recovery_timeout since _last_failure_ts
    lock,      \* who has _probe_lock
    where,     \* where each caller is
    tries,     \* failed attempts of its retry sequence
    reachable  \* whether the service answers

breaker == <<status, failures, cooling>>
breakerVars == <<status, failures, cooling, lock, where, tries, reachable>>

BreakerInit ==
    /\ status = "closed"
    /\ failures = 0
    /\ cooling = 0
    /\ lock = Nobody
    /\ where = [t \in Callers |-> "idle"]
    /\ tries = [t \in Callers |-> 0]
    /\ reachable \in BOOLEAN

-----------------------------------------------------------------------------
(* Mutation: the elapsed time is not looked at. *)
OpenForGood == status = "open"

(* state = OPEN; an open breaker that is not cooling is HALF_OPEN. *)
Open == status = "open" /\ cooling > 0

(* Mutation: the breaker is closed, the count forgotten. *)
SuccessKeepsCount ==
    /\ status' = "closed"
    /\ UNCHANGED <<failures, cooling>>

OnSuccess ==
    /\ status' = "closed"
    /\ failures' = 0
    /\ cooling' = cooling

OnFailure ==
    /\ failures' = IF failures < MaxCount THEN failures + 1 ELSE failures
    /\ cooling' = Recovery
    /\ status' = IF failures' >= Threshold THEN "open" ELSE status

(* Mutation: every success closes the breaker. *)
AnySuccess == OnSuccess

(* Success on the normal path: the count decays, the state stays. *)
Decay ==
    /\ failures' = IF failures > 0 THEN failures - 1 ELSE 0
    /\ UNCHANGED <<status, cooling>>

Enters(t, place) ==
    /\ where' = [where EXCEPT ![t] = place]
    /\ tries' = [tries EXCEPT ![t] = 0]

(* call: an open breaker raises CircuitOpenError, which changes nothing; a
   closed one lets everybody in. *)
CallClosed(t) ==
    /\ where[t] = "idle"
    /\ ~Open
    /\ status = "closed"
    /\ Enters(t, "calling")
    /\ UNCHANGED <<breaker, lock, reachable>>

(* Mutation: a half-open breaker lets everybody probe. *)
CallHalfOpenUnlocked(t) ==
    /\ where[t] = "idle"
    /\ ~Open
    /\ status = "open"
    /\ Enters(t, "probing")
    /\ lock' = t
    /\ UNCHANGED <<breaker, reachable>>

(* A half-open one asks for the lock, and has it at once if nobody else does
   or waits for it. *)
CallHalfOpen(t) ==
    /\ where[t] = "idle"
    /\ ~Open
    /\ status = "open"
    /\ IF lock = Nobody /\ \A u \in Callers : where[u] # "waiting"
         THEN Enters(t, "probing") /\ lock' = t
         ELSE Enters(t, "waiting") /\ lock' = lock
    /\ UNCHANGED <<breaker, reachable>>

(* Mutation: the state is not looked at again under the lock. *)
LockedUnchecked(t) ==
    /\ where[t] = "waiting"
    /\ lock = Nobody
    /\ Enters(t, "probing")
    /\ lock' = t
    /\ UNCHANGED <<breaker, reachable>>

(* The lock is handed to a waiting caller, which looks at the state again. *)
Locked(t) ==
    /\ where[t] = "waiting"
    /\ lock = Nobody
    /\ IF Open THEN Enters(t, "idle") /\ lock' = lock
               ELSE Enters(t, "probing") /\ lock' = t
    /\ UNCHANGED <<breaker, reachable>>

InCall(t) == where[t] \in {"calling", "probing"}

Leave(t) ==
    /\ Enters(t, "idle")
    /\ lock' = IF lock = t THEN Nobody ELSE lock
    /\ reachable' = reachable

(* The service has answered. *)
Succeed(t) ==
    /\ InCall(t)
    /\ reachable
    /\ Leave(t)
    /\ IF where[t] = "probing" THEN OnSuccess ELSE Decay

(* A transient error: with_retry and http_retry sleep and try again. *)
Retry(t) ==
    /\ InCall(t)
    /\ ~reachable
    /\ tries[t] < Retries - 1
    /\ tries' = [tries EXCEPT ![t] = @ + 1]
    /\ UNCHANGED <<breaker, lock, where, reachable>>

(* The last attempt failed, or an earlier one with an error that is not
   retried: one failure for the breaker. *)
Fail(t) ==
    /\ InCall(t)
    /\ ~reachable
    /\ Leave(t)
    /\ OnFailure

(* The job's timeout cancels the call: CancelledError is no Exception, so
   neither outcome is recorded, and the lock is released. *)
Cancel(t) ==
    /\ where[t] # "idle"
    /\ Leave(t)
    /\ UNCHANGED breaker

(* The monotonic clock. *)
Tick ==
    /\ cooling > 0
    /\ cooling' = cooling - 1
    /\ UNCHANGED <<status, failures, lock, where, tries, reachable>>

(* The service goes down or comes back. *)
Toggle ==
    /\ reachable' = ~reachable
    /\ UNCHANGED <<breaker, lock, where, tries>>

Call(t) == CallClosed(t) \/ CallHalfOpen(t)
Answer(t) == Locked(t) \/ Succeed(t) \/ Retry(t) \/ Fail(t)

BreakerNext ==
    \/ \E t \in Callers : Call(t) \/ Answer(t) \/ Cancel(t)
    \/ Tick
    \/ Toggle

BreakerSpec == BreakerInit /\ [][BreakerNext]_breakerVars

(* Time passes; every call gets an answer, an error or a timeout; the scan is
   scheduled for ever and calls again; not every call is cancelled. *)
BreakerFairness ==
    /\ WF_breakerVars(Tick)
    /\ \A t \in Callers : /\ WF_breakerVars(Call(t)) /\ WF_breakerVars(Answer(t))
                        /\ SF_breakerVars(Locked(t)) /\ SF_breakerVars(Succeed(t))

FairBreakerSpec == BreakerSpec /\ BreakerFairness

-----------------------------------------------------------------------------
(* Every variable keeps its shape. *)
BreakerTypeOK ==
    /\ status \in {"closed", "open"}
    /\ failures \in 0 .. MaxCount
    /\ cooling \in 0 .. Recovery
    /\ lock \in Callers \cup {Nobody}
    /\ where \in [Callers -> {"idle", "calling", "waiting", "probing"}]
    /\ tries \in [Callers -> 0 .. Retries - 1]
    /\ reachable \in BOOLEAN

(* At most one call probes a service whose breaker has opened, however many
   were waiting for the lock and however they end (call, "one probe call
   allowed"). *)
OneProbe == \A t, u \in Callers : where[t] = "probing" /\ where[u] = "probing" => t = u

(* A closed breaker is below its threshold: late failures of calls let in
   before it opened and late successes cannot leave it closed with a full
   count, or it would take more failures to open than configured. *)
ClosedIsBelow == status = "closed" => failures < Threshold

(* Fast-fail: nothing starts calling the service while the breaker is open,
   also not the callers that queued for the probe which has just failed. *)
FastFail ==
    [][\A t \in Callers : ~InCall(t) /\ InCall(t)' => ~Open]_breakerVars

(* Only a probe closes the breaker; the late success of a call from before it
   opened does not. *)
OnlyProbeCloses ==
    [][status = "open" /\ status' = "closed" =>
         \E t \in Callers : where[t] = "probing" /\ where'[t] = "idle"]_breakerVars

(* Once the service is back for good the breaker closes for good, whatever
   calls were under way (half-open after recovery_timeout, then a probe). *)
Recovers == <>[]reachable => <>[](status = "closed")
=============================================================================
