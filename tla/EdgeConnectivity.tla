-------------------------- MODULE EdgeConnectivity --------------------------
(***************************************************************************)
(* ConnectivityManager (edge/edge/connectivity/manager.py): the four-state *)
(* view of transport health kept by one edge process.  Only comparisons    *)
(* with the two thresholds read the counters, so they saturate there.      *)
(***************************************************************************)
EXTENDS Integers

CONSTANTS OfflineAfter,     \* offline_after_failures
          RecoveredAfter    \* recovered_after_successes

ASSUME ThresholdsAssumption ==
    /\ OfflineAfter \in Nat \ {0}
    /\ RecoveredAfter \in Nat \ {0}

ConnectivityState == {"ONLINE", "DEGRADED", "OFFLINE", "RECOVERING"}

Connectivity == [state     : ConnectivityState,
                 failures  : 0 .. OfflineAfter,
                 successes : 0 .. RecoveredAfter]

InitialConnectivity == [state |-> "ONLINE", failures |-> 0, successes |-> 0]

\* +1, saturating at the threshold that reads the counter
Bump(n, limit) == IF n < limit THEN n + 1 ELSE limit

\* mutant: a success does not end the run of failures
SuccessKeepsFailures(c) ==
    [state     |-> IF c.state \in {"OFFLINE", "DEGRADED"} THEN "RECOVERING" ELSE "ONLINE",
     failures  |-> c.failures,
     successes |-> Bump(c.successes, RecoveredAfter)]

RecordSuccess(c) ==
    LET wins  == Bump(c.successes, RecoveredAfter)
        stage == IF c.state \in {"OFFLINE", "DEGRADED"} THEN "RECOVERING" ELSE c.state
    IN  [state     |-> IF stage = "RECOVERING" /\ wins < RecoveredAfter
                       THEN "RECOVERING" ELSE "ONLINE",
         failures  |-> 0,
         successes |-> wins]

RecordFailure(c) ==
    LET losses == Bump(c.failures, OfflineAfter)
    IN  [state     |-> IF losses >= OfflineAfter \/ c.state = "OFFLINE"
                       THEN "OFFLINE" ELSE "DEGRADED",
         failures  |-> losses,
         successes |-> 0]
=============================================================================
