---------------------------- MODULE CircuitBreaker ----------------------------
(***************************************************************************)
(* The circuit breaker around the calls to the language model              *)
(* (core/resilience.py).  Its only caller (agent_service.py) runs on the   *)
(* event loop of its process without awaiting, so calls never overlap; the *)
(* provider may fail, and come back, while one is under way.               *)
(***************************************************************************)
EXTENDS Integers, FiniteSetsExt

CONSTANT
    FailureThreshold     \* failure_threshold

ASSUME BreakerAssumption == FailureThreshold \in Nat \ {0}

VARIABLES
    breaker,      \* the fields of the breaker
    call,         \* the call under way; "suspect" when it may fail
    providerUp    \* the provider answers

breakerVars == <<breaker, call, providerUp>>

\* expired: reset_timeout_seconds have passed since _opened_at.  Nothing tells
\* counts above the threshold apart.
BreakerTypeOK ==
    /\ breaker \in [state : {"CLOSED", "OPEN", "HALF_OPEN"},
                    failures : 0 .. FailureThreshold, expired : BOOLEAN]
    /\ call \in {"none", "running", "suspect"}
    /\ providerUp \in BOOLEAN

Closed == [state |-> "CLOSED", failures |-> 0, expired |-> FALSE]

BreakerInit ==
    /\ breaker = Closed
    /\ call = "none"
    /\ providerUp = TRUE

\* _maybe_half_open, whenever the state is asked for
MaybeHalfOpen(b) ==
    IF b.state = "OPEN" /\ b.expired THEN [b EXCEPT !.state = "HALF_OPEN"] ELSE b

\* call(), up to fn(): refused when the breaker is OPEN
CallBegins ==
    /\ call = "none"
    /\ breaker' = MaybeHalfOpen(breaker)
    /\ breaker'.state # "OPEN"
    /\ call' = IF providerUp THEN "running" ELSE "suspect"
    /\ UNCHANGED providerUp

\* mutant: a success ends the count of failures and leaves the state
OnlyCountReset(b) == [b EXCEPT !.failures = 0]

\* _on_success
OnSuccess(b) == Closed

\* _on_failure
OnFailure(b) ==
    LET failures == Min({b.failures + 1, FailureThreshold})
    IN  IF failures >= FailureThreshold
        THEN [state |-> "OPEN", failures |-> failures, expired |-> FALSE]
        ELSE [b EXCEPT !.failures = failures]

CallSucceeds ==
    /\ call # "none"
    /\ breaker' = OnSuccess(breaker)
    /\ call' = "none"
    /\ UNCHANGED providerUp

CallFails ==
    /\ call = "suspect"
    /\ breaker' = OnFailure(breaker)
    /\ call' = "none"
    /\ UNCHANGED providerUp

\* time.monotonic() passes _opened_at + reset_timeout_seconds
TimeoutExpires ==
    /\ breaker.state = "OPEN"
    /\ ~breaker.expired
    /\ breaker' = [breaker EXCEPT !.expired = TRUE]
    /\ UNCHANGED <<call, providerUp>>

ProviderChanges ==
    /\ providerUp' = ~providerUp
    /\ call' = IF call = "none" THEN "none" ELSE "suspect"
    /\ UNCHANGED breaker

BreakerNext ==
    \/ CallBegins \/ CallSucceeds \/ CallFails
    \/ TimeoutExpires \/ ProviderChanges

BreakerSpec == BreakerInit /\ [][BreakerNext]_breakerVars

-----------------------------------------------------------------------------
\* docs/RESILIENCE.md: the breaker "half-opens after 30s and closes on the next
\* successful call".  Once the provider stays up the breaker is CLOSED and stays
\* so, whatever was counted of the failures before and although a call begun
\* before the recovery may open it once more.
BreakerCloses == <>[]providerUp => <>[](breaker.state = "CLOSED")
=============================================================================
