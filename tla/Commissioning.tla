---------------------------- MODULE Commissioning ----------------------------
(***************************************************************************)
(* Commissioning of machines (commissioning/service.py) and the            *)
(* configuration snapshots of the gateway they share                       *)
(* (device_management/service.py).  A request reads, and later writes and  *)
(* commits; it writes a status only when that differs from the one it has  *)
(* read, which is what the session of the ORM flushes.                     *)
(***************************************************************************)
EXTENDS Integers, Sequences

CONSTANTS
    Machines,        \* machines to commission
    Requests,        \* requests at the same time
    MaxSensors,      \* bound: sensors of a machine
    MaxSnapshots     \* bound: snapshots of the gateway

ASSUME CommissioningAssumption ==
    /\ Machines # {}
    /\ MaxSensors \in Nat
    /\ MaxSnapshots \in Nat

VARIABLES
    session,      \* commissioning_session, by machine
    monitored,    \* the machines whose status is MONITORED
    mapped,       \* how many sensors each machine has
    snapshot,     \* configuration_snapshot of the gateway, in the order of commits
    request       \* what each request does and has read

commissioningVars == <<session, monitored, mapped, snapshot, request>>

SessionStates == {"ABSENT", "CONFIGURING", "READY", "FAILED", "COMPLETED"}
Operations == {"none", "add_sensor", "assign_gateway", "validate", "complete"}

NoRequest(m) == [operation |-> "none", machine |-> m, status |-> "ABSENT",
                 sensors |-> 0, previous |-> 0]

CommissioningTypeOK ==
    /\ session \in [Machines -> SessionStates]
    /\ monitored \subseteq Machines
    /\ mapped \in [Machines -> 0 .. MaxSensors]
    /\ snapshot \in Seq([current : BOOLEAN, previous : 0 .. MaxSnapshots])
    /\ Len(snapshot) <= MaxSnapshots
    /\ request \in [Requests -> [operation : Operations, machine : Machines,
                                 status : SessionStates, sensors : 0 .. MaxSensors,
                                 previous : 0 .. MaxSnapshots]]

CommissioningInit ==
    /\ session = [m \in Machines |-> "ABSENT"]
    /\ monitored = {}
    /\ mapped = [m \in Machines |-> 0]
    /\ snapshot = <<>>
    /\ request = [q \in Requests |-> NoRequest(CHOOSE m \in Machines : TRUE)]

\* start_session
SessionStarts(m) ==
    /\ session[m] = "ABSENT"
    /\ session' = [session EXCEPT ![m] = "CONFIGURING"]
    /\ UNCHANGED <<monitored, mapped, snapshot, request>>

\* ConfigurationSnapshotRepository.get_current, 0 when there is none
CurrentSnapshot ==
    IF \E i \in DOMAIN snapshot : snapshot[i].current
    THEN CHOOSE i \in DOMAIN snapshot : snapshot[i].current ELSE 0

\* the states in which an operation is not refused
Accepts(operation) ==
    CASE operation = "add_sensor" -> {"CONFIGURING", "FAILED"}
      [] operation = "complete" -> {"READY"}
      [] OTHER -> SessionStates \ {"ABSENT"}

\* what the operation reads before it writes
Reads(q, m, operation) ==
    /\ request[q].operation = "none"
    /\ session[m] \in Accepts(operation)
    /\ request' = [request EXCEPT ![q] =
         [operation |-> operation, machine |-> m, status |-> session[m],
          sensors |-> IF operation = "validate" THEN mapped[m] ELSE 0,
          previous |-> IF operation = "assign_gateway" THEN CurrentSnapshot ELSE 0]]
    /\ UNCHANGED <<session, monitored, mapped, snapshot>>

Done(q) == request' = [request EXCEPT ![q] = NoRequest(request[q].machine)]

\* the UPDATE of the session row
Flushed(r, status) ==
    IF status = r.status THEN session ELSE [session EXCEPT ![r.machine] = status]

\* the sensor has a snapshot of its own, its first
AddSensor(q) ==
    LET r == request[q]
    IN  /\ r.operation = "add_sensor"
        /\ mapped[r.machine] < MaxSensors
        /\ mapped' = [mapped EXCEPT ![r.machine] = @ + 1]
        /\ session' = Flushed(r, "CONFIGURING")
        /\ Done(q)
        /\ UNCHANGED <<monitored, snapshot>>

\* mutant: uq_configuration_snapshot_current_device is missing
NoSnapshotIndex(previous) == TRUE

\* uq_configuration_snapshot_current_device: no other snapshot is current
SnapshotIndex(previous) == CurrentSnapshot \in {0, previous}

\* capture_snapshot: the previous one is no longer current, the new one is
AssignGateway(q) ==
    LET r == request[q]
        ended == [i \in DOMAIN snapshot |->
                    IF i = r.previous THEN [snapshot[i] EXCEPT !.current = FALSE]
                    ELSE snapshot[i]]
    IN  /\ r.operation = "assign_gateway"
        /\ Len(snapshot) < MaxSnapshots
        /\ SnapshotIndex(r.previous)
        /\ snapshot' = Append(ended, [current |-> TRUE, previous |-> r.previous])
        /\ Done(q)
        /\ UNCHANGED <<session, monitored, mapped>>

\* mutant: a missing instrumentation is reported and does not block
NeverBlocks(sensors) == "READY"

\* mutant: a blocking issue leaves the session VALIDATING
LeavesValidating(sensors) == IF sensors = 0 THEN "VALIDATING" ELSE "READY"

\* validate: only a missing instrumentation is blocking
Verdict(sensors) == IF sensors = 0 THEN "FAILED" ELSE "READY"

Validate(q) ==
    LET r == request[q]
    IN  /\ r.operation = "validate"
        /\ session' = Flushed(r, Verdict(r.sensors))
        /\ Done(q)
        /\ UNCHANGED <<monitored, mapped, snapshot>>

Complete(q) ==
    LET r == request[q]
    IN  /\ r.operation = "complete"
        /\ session' = Flushed(r, "COMPLETED")
        /\ monitored' = monitored \cup {r.machine}
        /\ Done(q)
        /\ UNCHANGED <<mapped, snapshot>>

\* an error, also that of the unique index: rolled back
RequestFails(q) ==
    /\ request[q].operation # "none"
    /\ Done(q)
    /\ UNCHANGED <<session, monitored, mapped, snapshot>>

CommissioningNext ==
    \/ \E m \in Machines : SessionStarts(m)
    \/ \E q \in Requests, m \in Machines, op \in Operations \ {"none"} : Reads(q, m, op)
    \/ \E q \in Requests : \/ AddSensor(q) \/ AssignGateway(q) \/ Validate(q)
                           \/ Complete(q) \/ RequestFails(q)

CommissioningSpec == CommissioningInit /\ [][CommissioningNext]_commissioningVars

-----------------------------------------------------------------------------
\* However validations, additions and completions of a session race, a machine is
\* monitored only when it has instrumentation.
MonitoredHasSensors == \A m \in monitored : mapped[m] > 0

\* The snapshots of a device form one history: each names the one before it as its
\* previous, and the last one is the current one, also when two sessions assign
\* the gateway at the same time.
SnapshotsLinear ==
    \A i \in DOMAIN snapshot :
        /\ snapshot[i].previous = i - 1
        /\ snapshot[i].current <=> i = Len(snapshot)
=============================================================================
