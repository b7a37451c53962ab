------------------------------ MODULE LocalRules ------------------------------
(***************************************************************************)
(* The local rule engine of the edge gateway (edge/rules/engine.py), for   *)
(* one machine with one sensor of each type: four checks on every reading, *)
(* whose alerts are opened once and cleared once.  All of its memory is    *)
(* lost when the gateway restarts.                                         *)
(***************************************************************************)
EXTENDS Integers

CONSTANTS
    OutOfRange,       \* <<type, value>> outside range_thresholds
    CriticalTypes,    \* critical_measurement_types
    FaultTicks,       \* sensor_fault_debounce_ticks
    FailureSeconds,   \* lubrication_cycle_failure_seconds
    MaxTime           \* bound: the clock of the sources

Types == {"PUMP_CURRENT", "PRESSURE", "RESERVOIR_LEVEL"}

\* A value is LOW or HIGH, on either side of the threshold that its type has in
\* the checks of the reservoir, the pump and the pressure; Missing is None.
Missing == "MISSING"
Values == {"LOW", "HIGH"}

ASSUME LocalAssumption ==
    /\ OutOfRange \subseteq Types \X Values
    /\ CriticalTypes \subseteq Types
    /\ FaultTicks \in Nat \ {0}
    /\ FailureSeconds \in Nat \ {0}
    /\ MaxTime \in Nat

VARIABLES
    open,           \* _open: the keys of the open alerts
    badTicks,       \* _debounce_counts
    latest,         \* _latest_pump_current, _latest_pressure
    lowSince,       \* _low_pressure_since, Never when absent
    now,            \* source_timestamp of the readings
    contradicted    \* history: the last time that pump or pressure were in order

localVars == <<open, badTicks, latest, lowSince, now, contradicted>>

Never == -1
Keys == {"range", "sensor_fault"} \X Types
            \cup {<<"reservoir_critical">>, <<"lubrication_cycle_failure">>}
CycleFailure == <<"lubrication_cycle_failure">>

Reading == [type : Types, value : Values \cup {Missing}, bad : BOOLEAN]

\* Counts from the threshold on are alike.
LocalTypeOK ==
    /\ open \subseteq Keys
    /\ badTicks \in [Types -> 0 .. FaultTicks]
    /\ latest \in [{"PUMP_CURRENT", "PRESSURE"} -> Values \cup {Missing}]
    /\ lowSince \in Never .. MaxTime
    /\ now \in 0 .. MaxTime
    /\ contradicted \in Never .. MaxTime

LocalInit ==
    /\ open = {}
    /\ badTicks = [t \in Types |-> 0]
    /\ latest = [t \in {"PUMP_CURRENT", "PRESSURE"} |-> Missing]
    /\ lowSince = Never
    /\ now = 0
    /\ contradicted = Never

-----------------------------------------------------------------------------
(* The checks; each one returns the keys it leaves open. *)

\* _maybe_open and _maybe_clear
Opened(keys, key, holds) == IF holds THEN keys \cup {key} ELSE keys \ {key}

\* _check_range: a missing value clears
CheckRange(keys, r) ==
    Opened(keys, <<"range", r.type>>, <<r.type, r.value>> \in OutOfRange)

\* _check_reservoir_critical
CheckReservoir(keys, r) ==
    IF r.type # "RESERVOIR_LEVEL" THEN keys
    ELSE Opened(keys, <<"reservoir_critical">>, r.value = "LOW")

\* _check_sensor_fault
BadTicks(r) ==
    IF r.type \notin CriticalTypes THEN badTicks
    ELSE [badTicks EXCEPT ![r.type] = IF ~r.bad THEN 0
                                      ELSE IF @ < FaultTicks THEN @ + 1 ELSE @]

CheckFault(keys, r) ==
    CASE r.type \in CriticalTypes /\ ~r.bad -> keys \ {<<"sensor_fault", r.type>>}
      [] r.type \in CriticalTypes /\ BadTicks(r)[r.type] >= FaultTicks ->
            keys \cup {<<"sensor_fault", r.type>>}
      [] OTHER -> keys

\* the readings that _check_lubrication_cycle_failure looks at
Paired(r) == r.type \in DOMAIN latest /\ r.value # Missing

Latest(r) == IF Paired(r) THEN [latest EXCEPT ![r.type] = r.value] ELSE latest

Known(l) == Missing \notin {l["PUMP_CURRENT"], l["PRESSURE"]}
Undelivered(l) == l["PUMP_CURRENT"] = "HIGH" /\ l["PRESSURE"] = "LOW"

\* mutant: the time at which the pressure became low is not forgotten
KeepsSince(r) ==
    IF Paired(r) /\ Known(Latest(r)) /\ Undelivered(Latest(r)) /\ lowSince = Never
    THEN now ELSE lowSince

\* _low_pressure_since: set once both are known and wrong, removed when they are not
LowSince(r) ==
    IF ~Paired(r) \/ ~Known(Latest(r)) THEN lowSince
    ELSE IF ~Undelivered(Latest(r)) THEN Never
    ELSE IF lowSince = Never THEN now ELSE lowSince

CheckCycle(keys, r) ==
    CASE ~Paired(r) \/ ~Known(Latest(r)) -> keys
      [] Paired(r) /\ Known(Latest(r)) /\ ~Undelivered(Latest(r)) -> keys \ {CycleFailure}
      [] OTHER -> IF now - LowSince(r) >= FailureSeconds
                  THEN keys \cup {CycleFailure} ELSE keys

\* evaluate()
Evaluate(r) ==
    /\ open' = CheckFault(CheckCycle(CheckReservoir(CheckRange(open, r), r), r), r)
    /\ badTicks' = BadTicks(r)
    /\ latest' = Latest(r)
    /\ lowSince' = LowSince(r)
    /\ contradicted' = IF Paired(r) /\ ~Undelivered(Latest(r)) THEN now ELSE contradicted
    /\ UNCHANGED now

TimePasses ==
    /\ now < MaxTime
    /\ now' = now + 1
    /\ UNCHANGED <<open, badTicks, latest, lowSince, contradicted>>

\* a new engine knows nothing
GatewayRestarts ==
    /\ open' = {}
    /\ badTicks' = [t \in Types |-> 0]
    /\ latest' = [t \in DOMAIN latest |-> Missing]
    /\ lowSince' = Never
    /\ UNCHANGED <<now, contradicted>>

LocalNext ==
    \/ \E r \in Reading : Evaluate(r)
    \/ TimePasses
    \/ GatewayRestarts

LocalSpec == LocalInit /\ [][LocalNext]_localVars

-----------------------------------------------------------------------------
\* A lubrication cycle failure is raised only when for as long as the policy asks
\* no reading has shown the pump off or the pressure up, in whatever order the
\* readings of the two sensors come, also with some missing and after a restart;
\* and then it is cleared as soon as one does.
CycleFailureConfirmed ==
    [][/\ CycleFailure \in open' \ open => now - contradicted >= FailureSeconds
       /\ contradicted' = now /\ contradicted' # contradicted
             => CycleFailure \notin open']_localVars
=============================================================================
